# TLA+ project for TrueBlocks

TrueBlocks builds an index of every appearance of every address on an Ethereum chain,
shares it over IPFS, and answers queries from it. This directory holds TLA+ modules that
model the programs that build and use that index and the files they share, TLC
configurations that check them on small instances, and TLAPS proofs of theorems about
them. `PROJECT.json` is the machine-readable side: components, runs, mutants, the map from
definitions to source lines, findings, hazards, theorems.

## 1. Inventory

| Component | State it keeps | Operations | Interacts with | What makes it correct |
|---|---|---|---|---|
| **blockScrape** (`apps/blockScrape`) | `ripe/`, `unripe/`, `staging/`, `blooms/`, `finalized/`, `temp.txt`; the `CConsolidator` of a pass | `scrape_blocks`, `copyRipeToStage`, `stage_chunks`, `write_chunks`, `consolidate_chunks` | runs blaze as a child; yields to acctExport; reads the node's head | every block indexed exactly once, in order, only when ripe; same chunks for everyone; always gets to the head |
| **scraper control file** (`apps/blockScrape/options.cpp`, `main.cpp`) | `scraper-state.txt` | run, pause, restart, quit | other blockScrape processes, flame | one scraper at a time; quit is obeyed |
| **quit handler** (`libs/utillib/database.cpp`) | quit count, section count, list of lock files | `defaultQuitHandler`, `lockSection`, `shouldQuit` | all tools | a Ctrl-C never acts inside a critical section, and is always heard |
| **blaze** (`go-apps/blaze`) | its channels | goroutines query the node and write one file per block | started by blockScrape, writes `ripe/` and `unripe/` | a file for every block of the range, or a non-zero exit |
| **index chunks** (`libs/acctlib`) | a chunk's index file and bloom filters | `writeIndexAsBinary`, `isMember`, `visitBinaryFile` | written by blockScrape, read by acctExport and acctScrape2 | what is read is what was written |
| **index progress** (`libs/etherlib/node.cpp`) | none: file names | `getBlockProgress` and its parts | blockScrape, cacheStatus, acctExport | where to go on is derived from the disk alone |
| **monitors** (`apps/acctExport`, `libs/acctlib/monitor.cpp`) | `.acct.bin`, `.last.txt`, `.deleted` per address, a staging folder | freshen, clean, delete, undelete, remove | reads the index while blockScrape extends it | every appearance found, once |
| **accounting** (`apps/acctExport`, `libs/etherlib/reconciliation.cpp`) | statements so far | `reconcileEth`, `process_reconciliation` | the node's balances | statements reconcile and tell the truth |
| **pinning** (`libs/pinlib`, `apps/pinMan`) | `manifest.txt`, `tmp/pins.bin`, unpacked chunks | pin, read and replace the manifest, fetch chunks | blockScrape `--pin`, `pinMan --init`, acctExport; IPFS | the manifest keeps what was pinned; no part of a chunk is taken for a chunk |
| **timestamps** (`libs/etherlib/node.cpp`, `blockoptions.cpp`) | `ts.bin` | `freshenTimestamps`, search for a date | called after each pass and by tools | record *i* is block *i*; the block at or before a date |
| **file locks** (`libs/utillib/database.cpp`) | `.lck` files | `Lock`, `Release`, breaking of old locks | all writers of shared files | one writer at a time; nobody waits for the dead |
| **flame** (`go-apps/flame`) | connection pool, the scrapers' switch and its file | register, unregister, broadcast; run commands; toggle scrapers | web clients, chifra, blockScrape, acctExport | every command answered; switches survive restarts |
| **acctScrape2** (`go-apps/acctScrape2`) | channels, a wait group | hands chunks to goroutines, prints what they find | reads chunks | what is in each chunk printed once, and the search ends |
| **names** (`tools/ethNames`, `libs/utillib/options_base_names.cpp`) | `names.tab`, `names_custom.tab`, `names.bin` | `loadNames`, `processEditCommand` | all tools read | edits do what they say and lose nothing |
| **caches** (`tools/getBlocks`, `getTrans`, acctExport, `node.cpp`) | a file per block, transaction, trace list | read through, write | several tools at once, a chain that reorganises | what is shown is on the chain and complete |
| **prices** (`tools/getQuotes`, `libs/etherlib/price*.cpp`) | the database of quotes | `loadPriceData`, `wei_2_Dollars` | all tools that show dollars | a moment is priced with its own quote; all quotes arrive |
| chifra, cacheStatus, fireStorm, the other `tools/`, `dev_tools/`, `examples/`, etherlib's data classes | - | dispatch, queries, formatting, code generation | | not modelled: see section 7 |

What is hard here: the index is a chain of small file operations with no transaction
around them; a Ctrl-C, a failure or a kill may come between any two; the only memory from
one run to the next is the names, dates and contents of files; tools that share a file look
at it, decide, and act later, and the lock between them is itself a file; goroutines meet
on unbuffered channels; and chunks must be the same on every machine, whatever happened
there. `PROJECT.json` lists these hazards at their lines.

## 2. Modules

| Module | What it is |
|---|---|
| `ChunkOps` | Constants and operators about file contents: blocks with a number of records each, chunk size, where a chunk is cut, snap to grid. No variables. |
| `Chunking` | One iteration of `write_chunks`, record by record, as the code searches for the break. |
| `IndexSpec` | Abstract specification: the index as an append-only tiling of the chain, and the staged blocks behind it. |
| `BlockScrape` | The scraper: startup, a whole pass, signals, kills and the outside world. |
| `ScraperControl` | Invocations of blockScrape as processes that talk through the control file. |
| `QuitHandler` | Quit and section counters, and the places of a pass that lock, unlock and ask. |
| `BlazeSpec`, `BlazePipeline` | What blockScrape relies on in blaze; its goroutines and channels, which implement it. |
| `ChunkFile` | Writing a chunk with its bloom filters, and finding an address in it. |
| `FileLock` | `CSharedResource`: lock files, the looks for them, breaking, the list for quit handlers. |
| `Timestamps` | `ts.bin` behind a `FileLock` (EXTENDS it: its processes take that lock). |
| `TsSearch` | The binary search for a date. |
| `Monitor` | The life of monitors on disk. |
| `Reconcile` | Statements of ether and tokens. |
| `Manifest`, `Unchain` | The manifest with its binary copy; the fetching of what it names. |
| `Names`, `DataCache`, `Prices` | The names database, the caches, the price database. |
| `FlameScraper`, `Websockets` | flame's scrapers; its commands, connections and pool. |
| `AcctScrape2` | The hand-out of chunks to goroutines. |
| `GoApps` | The Go programs side by side: `BlazePipeline`, `FlameScraper`, `Websockets`, `AcctScrape2`, and what is promised of them. |
| `Control` | `ScraperControl` and `QuitHandler` side by side. |
| `Upkeep` | `Timestamps`, `Unchain` and `TsSearch` side by side. |
| `PricesInUse` | `Prices`, with one tool at a time and with several. |
| `SharedFiles` | `Manifest`, `Names`, `DataCache` and `ChunkFile` (and by EXTENDS `PricesInUse`), each in the circumstances in which its promises hold. |
| `MCBlockScrape`, `MCMonitor` | Instances for TLC of one module. |
| `MCGoApps`, `MCUpkeep`, `MCControl`, `MCSharedFiles`, `MCAlgorithms` | Instances for TLC of several modules that share no state; the first four of the module above with the same name, the last one of `Chunking` and `Reconcile`. |
| `*_proofs` | Theorems: section 4. |

*Instances of several modules.* Programs that have no file, channel or variable in common
cannot influence each other, and a product of them would only multiply states. An MC module
of the second kind has a variable `part`: `Init` chooses a part, only its actions happen,
and everything else stays as it began (or is 0). One part comes in by EXTENDS, the others by
`INSTANCE ... WITH`. The properties that are also proved, and the parts they are about, are in
`GoApps`, `Control`, `Upkeep`, `PricesInUse` and `SharedFiles`, with constants in place of the instance's
values: the run and the theorem name the same definition. Fairness is restated per part
exactly as the part's own module states it. A property such as `Answered` holds trivially in
behaviours of other parts and means what the module's property means in its own; properties
of the same kind are joined (`CachesTrue` is the conjunction of what each instance of
`DataCache` must keep, its type invariant included). Where two instances of one module
appear (`Search` and `SearchBad`), they are the cases in which different properties hold.

### How `BlockScrape` corresponds to the code

*State.* `blooms`, `finalized`, `staging` (names) with `content` (what is in them),
`tmpFile` (`temp.txt`), `ripe` and `unripe` are the folders of the index. A file's
content is a sequence of blocks: files are only ever concatenated and cut at block
boundaries, so a block is the unit, with `Weight[b]` records of 59 bytes. The order of the
records inside a chunk (they are sorted by address) is left out. Staging file `n` is
`<n>.txt`; `-1` is `000000000-temp.txt`, which the code sorts first and reads as
block 0. `tmpOpen ... remaining` are the fields of `CConsolidator` and the locals of
`write_chunks`; `quit` is `g_QuitCount`; `pc` names the place in the code. `client`
is the node's head, `maxHead` its maximum so far (a history variable for the
ripeness property), `exporting` whether acctExport runs, `faults` a budget. Two more history
variables, which no guard reads, let the properties name what happened: `unbloomed` has the chunks whose bloom could
not be opened, and `disturbed` is set by the first Ctrl-C, export or re-sync.

*Actions.* One action per stretch of code between two places where the process can
be stopped with a different disk:

| Code | Actions |
|---|---|
| `parseArguments`, `main` | `StartFirst`, `StartZero`, `Start`, `LoopExit` |
| constructor, `scrape_blocks` to the end of blaze | `BeginPass`, `BeginUnopened`, `QuitBeforeBlaze`, `RunBlaze`, `BlazeWrite`, `BlazeDone`, `BlazeFail` |
| `copyRipeToStage` over `ripe/` | `CopyRipe`, `CopyOutOfSequence`, `CopyFail`, `CopyDone`, `Cleanup` |
| `stage_chunks` | `StageSame`, `StageAppendOld`, `StageFailOld`, `StageAppendNew`, `StageFailNew`, `StageRename`, `StageDrop`, `StageFailed` |
| the snap, `consolidate_chunks`, `write_chunks`, `writeIndexAsBinary` | `SnapQuit`, `SnapWrite`, `Consolidate`, `WriteBloom`, `WriteBin`, `RemoveStage`, `RewriteSome`, `RewriteDone`, `WriteDone` |
| `defaultQuitHandler` | `CtrlC` (the third exits; ignored after the first in a locked section) |
| opens for writing that fail and are not looked at (`writeBloomToBinary`, `copyFile`, `linesToAsciiFile`) | `WriteFails`: `FirstFails`, `ZeroFails`, `BloomFails`, `BinFails`, `RewriteFails` |
| outside `src/` | `Kill`, `HeadAdvance`, `Resync`, `ExportStart`, `ExportEnd` |

Steps are merged where a stop in between leaves nothing new: appending a ripe file to
tmp_fn and removing it (the next start removes tmp_fn, so the only difference is
whether the ripe file is still there, as before the step); writing the chunk's `.tmp`
file, which nobody reads.

*Faults.* `FaultKinds` selects which of these an instance has: Ctrl-C or SIGTERM (`signal`), a
failing blaze, a file that cannot be opened where the code looks at the result and gives up
(`io`), a file that cannot be locked or opened for writing where the code does not look and
goes on (`write`: the bloom, the chunk, the rewritten stage), a kill, a starting acctExport and
a re-syncing node. `MaxFaults` bounds how many happen, `MaxSignals` how many signals one
process gets.

Simplifications: blocks have at least one record (blaze writes the miner's reward, which is a
trace; what it does with a block that has none is in `BlazePipeline`);
`NBlocks` is one constant (the code raises it early in the chain and lowers it for
the 2016 blocks); `SnapGrid` is not 1 (it is 30 or 100,000); a kill takes blaze with
it; a write never fails half way (disk full). `--once`, sleeping and the control file
are in `ScraperControl`: here they only stop or delay the scraper, as `LoopExit` and
scheduling do.

### The other modules and the code

Each action is the stretch of code between two points where another process, goroutine,
signal or kill could see or leave a difference.

| Module | State | Actions |
|---|---|---|
| `ScraperControl` | the control file; per process its place, `--mode`, what it read, `g_QuitCount` | `Invoke`, `AmIRunning`, `IsExporting`, `ReadState`, `StartScraper`, `ChangeState` (`parseArguments`, `changeState`: the read and the write of the file are two steps), `EnterMain` to `Cleanup` (the loop of `main`, a pass as one step); `CtrlC`, `Kill`, `ExportToggles` |
| `QuitHandler` | `g_QuitCount`, `sectionLocks`, the place in a pass | `DefaultQuitHandler` at any moment; `MainLoop`, `CopyRipe`, `StageChunks`, `WriteChunksWhile`, `WriteIndexAsBinary`, `PinAndRewrite`, `Sleep`: the code from one lock, unlock or `shouldQuit` to the next. `MaxLocks` bounds the section count, which leaks on a malformed record |
| `BlazePipeline` | who holds which block; the two channels; files, whole or torn, and those of blocks with logs but no traces, which are named by a hex string (`hexNamed`) | `Feed`, `CloseBlocks`, `CloseAddresses`, `End` (`scrapeBlocks`), `Query`, `SendBlock`, `BlocksDone` (`getTracesAndLogs`), `ExtractNothing`, `CreateFile`, `WriteFile`, `AddressesDone` (`extractAddresses`, `writeAddresses`), `Exit` (`os.Exit` on any error, anywhere) |
| `ChunkFile` | the sorted lines; table, appearances, filters; the search | `WriteLine`, `WriteLast`, `Trap` (`writeIndexAsBinary`, with `addToSet`), `AskBloom`, `Probe`, `NotFound` (`visitBinaryFile`, `isMember`, `bsearch`). Addresses are numbers, `Bits` their bits in a filter |
| `FileLock` | the lock file, its owner, the looks, the remove list | `Lock`, `LookFree`, `LookTaken` (`createLock`, `waitOnLock`), `WaitedTooLong`, `BreakLock`, `CreateLockFile`, `Register`, `OpenFile` and their failures, `Close`, `RemoveLock`, `Unlist` (`Release`), `QuitHandler`, `Kill` |
| `Timestamps` | `ts.bin` as block numbers; the count each process computed | `FreshenNothing`, `FreshenBegin`, `FreshenLocked`, `FreshenLock`, `WriteFirst`, `WriteNext`, `WriteUnanswered` (the node gives no header, and the record is 0: `unanswered` remembers which), `FreshenDone`, and the steps of the lock |
| `TsSearch` | the window, the date, the chain's timestamps | one action per return or recursive call of `findTimestamp_binarySearch`; `Window` is what `lookupDate` starts from |
| `Monitor` | chunks and hits; `.acct.bin`, `.last.txt`, `.deleted`, the staging folder; per invocation its place | `Begin`, `CleanStage`, `Possibles`, `SkipChunk`, `VisitChunk`, `Scan`, `WriteLast`, `MoveBin`, `MoveLast` (`process_freshen`, `visitFinalIndexFiles`), `CleanRead`, `CleanOpen`, `CleanWrite`, `Delete`, `Undelete`, `Remove`, `RemoveLast`, `RemoveDels`; `Kill`, `VisitFails`, `NewChunk`. Chunks follow each other directly, as those of the index do: `First(c + 1) = Last(c) + 1` |
| `Reconcile` | the account's transactions, what was carried over, statements | `acct_Pre` and one `acct_Display` per appearance, which calls `process_reconciliation`, `reconcileEth` and `reconcileUsingTraces`; `Skip` for filtered ones |
| `Manifest` | `manifest.txt`, `pins.bin`, their dates in seconds; per process the records loaded | `ReadDates`, `ReadBin`, `ReadText`, `Save` (`pinlib_readManifest`), `FindChunk`, `PinIndex`, `PinBloom`, `PushPin`, `WriteLine`, `Truncate`, `Put` (`pinlib_pinChunk`, `visitToPin`), `Download` (`--init`), `Kill`, `Tick` |
| `Unchain` | per file: the `.gz` and the unpacked one, whole or part, and whose command is writing | `FindFile`, `FindZip`, `CurlOpens`, `CurlReturns`, `CurlFails`, `HaveZip`, `GunzipOpens`, `GunzipReturns`, `GunzipFails`, `Cleanup`, `Use`; `Crash`. curl and gunzip are external |
| `Names` | two text files and the cache with their dates; per process the loaded map; what the user wants | `Dates`, `ReadBin`, `ReadRegular`, `ReadCustom`, `CutBin`, `FillBin` (`loadNames`), `processEditCommand`, `CutText`, `PutText`, `RemoveBin` |
| `DataCache` | one block with one transaction: the chain's version, age, three cache files | `Begin` with the flags as `parseArguments` leaves them, `QueryBlock`, `OpenBlock`, `FillBlock`, `GetTransaction`, `VisitTransaction`, `CacheTransaction`, `LoadTx`, `LoadTraces`, `OpenTrace` ... `FillTx`; `Kill`, `Reorg`, `Grow`, `Desync` |
| `Prices` | the file as a sequence of periods | `Begin`, `Load`, `Fetch`, `FetchFails`, `Open`, `Write`, `Close` (`loadPriceData`); `IndexFromTimeStamp`, `Shown` (`wei_2_Dollars`, `getQuotes`) |
| `FlameScraper` | `Running`, `WasRunning`, the state file | `CheckOff`, `CheckOn`, `RunCommand`, `CommandsDone`, `PauseBegins`, `SleepHalf`, `PauseOver`; `SetRunning` and `WriteState` of a handler; `Restart` |
| `Websockets` | the pool, connections and what each still has to send, children with their stderr | rendezvous on unbuffered channels as one step: `Register`, `Unregister`, `Broadcast...`, `Send`; `WriteJSON`, `WriteFails`, `WriterEnds`; `ScanLine`, `ChildWrites`, `ChildEnds`, `Answer` |
| `AcctScrape2` | tasks, wait group, channel, output | `Launch`, `TakeAndLaunch`, `AllHandedOut`, `Take`, `Finish`; `Send`, `WgDone`, `Fatal` |

## 3. Runs

| Run | Instance | Checks |
|---|---|---|
| `scrape_quit` | 3 faults of all but kills and writes, at most 2 Ctrl-C's per process | `IndexExactlyOnce`: chunks tile the chain and the stage follows them; `ImplementsIndex`: refinement of `IndexSpec`, so a chunk never changes and a staged block is never given up; `TypeOK` |
| `scrape_kill` | 2 of kill, Ctrl-C (up to 3), blaze, io, write, resync | `ChunkHasBloom`: a chunk has its bloom unless that bloom could not be opened; `IndexOnlyRipe` |
| `scrape_live` | 2 of blaze, io, Ctrl-C, export, resync; blocks of one and two records | `CatchesUpUnlessStuck` under `FairSpec`: the index gets to the head; failures never prevent it, and a Ctrl-C, an export or a re-sync only in the two ways `StuckAtZero` and `RipeToHead` |
| `scrape_canonical` | 2 of blaze, io, write, export, resync | `ChunksCanonical`: chunks are cut where the chain alone says (`Carried` is the reference computation) |
| `go_apps` | blaze: 4 blocks, one of them empty and one with logs only, 2 + 2 goroutines, errors anywhere; flame: 2 restarts, 4 toggles; pool: 2 connections, a command with 3 lines of progress, breaks and failures; acctScrape2: 5 chunks, 3 tasks, or 2 with an unreadable chunk | `OnePlace`, `ClosedInTime`, `ImplementsBlaze` (blaze); `Persisted`, `SwitchObeyed` (flame's scrapers); `InOrder`, `Answered` (pool); `PrintedOnce` (acctScrape2); `ProgramsEnd` (blaze and acctScrape2) |
| `upkeep` | `ts.bin` with 6 blocks, 3 faults, unanswered headers among them; locks of two kinds at once, 2 faults; a chunk fetched with 2 crashes during downloads; quotes of 9 periods, 2 failures; all chains of 6 blocks with timestamps up to 9, all dates | `TsDense`, `LockHasOwner`, `NeverReadsPart`, `FilesCatchUp`, `StaleLockIsBroken`, `KeepsWhatArrived`; `AtOrBefore`, `SearchComesToAnEnd` (the search for a date) |
| `control` | 2 processes with any mode, 3 of Ctrl-C, kill, export; a pass with 5 Ctrl-C's, with and without a malformed record | `OneScraper`, `StopsWhenTold`; `NeverCutsASection`, `CtrlCIsHeard` |
| `algorithms` | all stages of up to 4 blocks; all accounts of up to 4 transactions in 3 blocks | `CutsAtBlockBreak`: the record-level search agrees with `BreakAt`, which justifies the block-level content of `BlockScrape`; `BooksBalance`, `TokensAddUp` |
| `shared_files` | manifest: a scraper that pins (failures, a kill) beside a reader, and scraper, reader and `--init` in turn; names: two careful edits, or any edit beside a reader with a kill; caches: every combination of flags, reorganisations, races, kills; all chunks of 4 addresses with overlapping filter bits, and each address looked for; prices | `ManifestKept`, `NamesAsWanted`, `NamesAreFresh`, `CachesTrue`, `FindsExactly`, `PricesRight` |
| `monitors` | 2 monitors (one prefunded), 3 adjacent chunks, every command, a kill or a failure anywhere in freshening | `MissesNoTwo`: of two chunks in a row before `.last.txt` a monitor has the appearances of one, and always those of the first chunk; `Exact`, `CatchesUp` |
| `export_wedges` | `BlockScrape`, one export | violation of `CatchesUp` |
| `mon_skip` | `Monitor`, one monitor, no faults | violation of `Complete` |

*Bounds.* The chain has 8 blocks in the `BlockScrape` instances (6 in `scrape_live`), chunks of 2 or 3 records, a
pass of 3 blocks, a snap at block 4 (or at 2, 4 and 6): a pass may end before, at or after a
full chunk and a snap; a chunk may span passes, and a pass may write two chunks. Blocks 2
and 5 have two records where that matters (`MCWeight`), so that a chunk's target falls inside
a block. Two or three faults allow a second one during the recovery from the first. In the
other instances two processes (or two goroutines of each kind) suffice for each race the
code could lose, since its files and channels are used pairwise, and two or three steps of
work per process let one act before, between and after the steps of the other. `monitors`
has three chunks, so that one can be passed over and the next one visited. It fixes where its
monitors appear (`MCInit`: m1 in every chunk, m2 in any, with false positives of the bloom
everywhere or nowhere); the safety properties were also checked for all 729 tables of
appearances and blooms (18 million states) with the same result. The algorithms are
run on all inputs within their bounds, which include the empty, the first and the last
element, equal neighbours, false positives of the filters and windows that cut a block.

*Fairness.* The code justifies only what its scheduling gives:

* processes and goroutines that can go on do (weak fairness of their steps: `BlockScrape`,
  `Monitor`, `BlazePipeline`, `FlameScraper`, `AcctScrape2`, `FileLock`, `QuitHandler`,
  commands and the scraper in `ScraperControl`);
* programs that run for ever or again and again do so: the scraper is restarted when it has
  quit, `freshenTimestamps` follows every pass, `chifra init` and `chifra quotes` are repeated
  as their documentation asks, an export of all monitors is started again and again
  (strong fairness of `Begin(p, Monitors)`, since other invocations may be in the way);
* Go's `select` picks among ready cases at random, so each connection that keeps being ready
  is served (strong fairness of the meetings with the pool in `Websockets`);
* the gateway that `Unchain` asks, when asked again and again, answers in the end;
* folders and stages are finite, so loops over them end (strong fairness of `EndOfFolder`,
  `EndOfChunks` in `QuitHandler`, where their contents are abstracted), and so are sleeps
  (`SleepOver` in `ScraperControl`).

Faults are never forced, the head may stop, and nobody is assumed to press Ctrl-C.

*Limits of the passing runs.* They state what holds, so they leave out the faults under which
section 5 shows that it does not. Where the plain property fails in what the code meets every
day, the run checks what is left of it, with the failure written into the property:

* `CatchesUpUnlessStuck`. `CatchesUp` of `BlockScrape` needs that tmp_fn is not left alone in
  `staging/`. An export is one way to get there (`export_wedges`); a Ctrl-C between
  `stage_chunks` and `consolidate_chunks` is another, if the next pass finds no new block and
  consolidates the whole stage, which takes a stage that ends in a block of several records.
  Then the stage says `000000000.txt` beside an index that is longer (`StuckAtZero`). A
  re-sync can leave ripe files ahead of the node's head (`RipeToHead`). The property says that
  these are the only two, and that neither comes from a failure of blaze or of a file
  that cannot be read. Failing writes are left out: alone or beside failures they do not keep
  the scraper from the head either (checked with two faults), but a chunk that copyFile did not
  write and a re-sync together leave an index that ends below the head with nothing to do.
* `MissesNoTwo`. The next chunk begins with the block in `.last.txt` and is passed over
  (`mon_skip`), in every run of acctExport. The property bounds the loss: never two chunks in a
  row, never the first. For the same reason `CatchesUp` of `Monitor` asks for the beginning of
  the last chunk, not for its end.
* `ChunkHasBloom` excuses a chunk whose bloom could not be opened, `TsDense` a record whose
  header the node did not give, `ImplementsBlaze` the blocks without traces.

Deadlock is checked in the runs of `BlockScrape` and `Monitor` and in `control` and `upkeep`
(where the search for a date, once it has its answer, is let stutter); the programs of the
other three instances come to an end.

## 4. Proofs

Eight modules hold the theorems; each EXTENDS the module of the same name: `BlockScrape_proofs`
(the scraper), `Control_proofs` (`ScraperControl`, `QuitHandler`), `GoApps_proofs`
(`BlazePipeline`, `FlameScraper`, `Websockets`, `AcctScrape2`), `Monitor_proofs`
(and `Reconcile`, the other half of acctExport), `Manifest_proofs`, `DataCache_proofs`, `SharedFiles_proofs` (the last two, as the tools use
them) and `Upkeep_proofs` (`FileLock`, `Timestamps`, `Unchain`, `TsSearch`, and by extending
`PricesInUse` also `Prices`).

The theorems hold for every value of the constants that satisfies the named assumptions of
the modules: any chain length, number of records per block, grid except 1, number of
processes, goroutines, chunks, files, commands and faults. What a theorem assumes beyond
them is said with it; where an assumption excludes something that can happen, the row of
section 5 with the same property says what happens then. Every invariant below was checked
by TLC on the instances of section 3 before it was proved.

*The scraper* (`BlockScrape_proofs`).

* `TypeCorrect`: `Spec => []TypeOK`. `TypeOK` alone is not inductive: the
  name of the last stage file exists only if the folder is not empty, and the chunk's
  first and last block only if the stage is not. `StageThere` adds that tmp_fn or a stage
  file is there from the opening of tmp_fn to `stage_chunks`, and that `write_chunks` is
  past its test. The lemmas before it say that `Max`, `Min` and the last bloom exist for
  non-empty sets, and that a non-empty stage is cut at one of its blocks.
* `ChunksHaveBlooms`: `Spec => []ChunkHasBloom`, kills and failing writes included: only a chunk
  in `unbloomed`, whose own bloom could not be opened, goes without. `BloomInv` remembers which
  bloom was written, or not, when the process is between the two files.
* `IndexedBlocksAreRipe`: `Spec => []IndexOnlyRipe`, kills and
  re-syncs included. `RipeInv` extends the property to everything on its way to the index
  (ripe files, all staging files, temp.txt, the records in memory, the bound given to blaze);
  appending and cutting preserve it, and the head only ever makes blocks older.
* `IndexedExactlyOnce`: `Spec => []IndexExactlyOnce`, assuming
  `"kill" \notin FaultKinds`, `"write" \notin FaultKinds` and `MaxSignals <= 2`. All three are
  needed (section 5).
  The invariant `OnceInv` follows the blocks behind the index through every file they pass:
  the stage and tmp_fn together (`TmpFnFollows`), temp.txt and then newStage (`Copied`), and
  the records in memory while the stage is rewritten (`Rewritten`) are each the run of blocks
  from `FinalBlock + 1` on. `RipeAhead` says that nothing finalized is scraped again, and
  `HasIndex` that blooms/ names exactly the chunks outside of a write; because chunks tile the
  chain, the last name in blooms/ is then the end of the index (`LatestFinalIsLast`), which is
  how a pass finds where to go on. The pass that finds only tmp_fn on the stage, and takes it
  for block 0, is the delicate case: it copies something only if the index really ends at
  block 0. `GiveUp` covers all the ways a pass can end, `WriteBinOnce` the cut.
* `ScraperKeepsIndex`: `Spec => ImplementsIndex`, the refinement of `IndexSpec`, under the same
  three assumptions. The abstract `top` is the greatest of the end of the index and the names on
  the stage, which is no variable of the scraper: `TopIs` computes it, and `Ahead` adds to
  `OnceInv` that a stage file which is about to be replaced never names a later block than
  the one that replaces it. `QuietStep` is for the steps that touch neither, `OutsideStep` for
  the world, and `IndexStep` maps the writing of block zero, of the stage and of a chunk to
  the steps of `IndexSpec`.
* `ChunksAreCanonical`: `Spec => []ChunksCanonical`, assuming no kill and no Ctrl-C (both
  needed: section 5) and, since the proof rests on `OnceInv`, no `write` fault (the run
  `scrape_canonical` has them), with failures, re-syncs and exports anywhere. `Carried` computes from the
  chain how many records are left over after each block; `CanonInv` says that the index ends
  where nothing is (`Carried[FinalBlock] = 0`) and that no block after it, up to the last one
  staged or copied, is one to snap at, but for the last one of a pass that is about to cut
  there. `ChunkIsCanonical` joins the two: cut at `BreakAt`, a stage that begins where nothing is
  carried ends at the next such block. This takes `RecordsUpTo` and `Carried` at every block
  (`RecordsFacts`, `CarriedFacts`, `CarriedAlong`), which are recursive functions: the induction
  goes over a least counterexample (`LeastOf`), and `RecursionExists` shows that what such a
  definition describes exists.
* `CutsWhereBlocksEnd`: `CutSpec => []CutsAtBlockBreak` (module `Chunking`), for any stage. So the
  cut of `BlockScrape`, on whole blocks, is the one of the code, on records, and not only in the
  instance. `RecordsAre` says where in the file the records of a block are, `RecordsOfPart`
  that the records of a part of the stage are a part of the file. The invariant `CutInv`
  says what the search has seen (`Sought`): records of one block, from `FirstRecord` on, until
  one of another block ends it. `CutPoint`: the place where that happens is the end of the block
  that `BreakAt` chooses, copies of a block beside each other included.

*Control* (`Control_proofs`).

* `AtMostOneScraper`: `Spec => []OneScraper` for any invocations,
  signals and kills. `ControlInv` adds `OneAdmitted`: of the processes between the look at the
  process list and the end of a scraper, only one can be past it.
* `SectionsAreNotCut`: the action property `NeverCutsASection`, for any number of Ctrl-C's and
  any nesting, malformed records included. `QuitInv` bounds the count of open sections from
  below by the depth of the place where the scraper is.

*Monitors* (`Monitor_proofs`), assuming `Alone(p)`: one process at a time, and no kill inside a
cleaning or a removal. Both are needed (section 5).

* `MonitorsMissNoTwo`: `Spec => []MissesNoTwo`, for any addresses, prefunded ones included,
  adjacent chunks, deletions and removals, and kills and failures anywhere in freshening.
* `MonitorsExact`: `Spec => []Exact`.

  `.last.txt` and the appearances are two files, written one after the other, and a monitor is
  in two folders while it is freshened. `MonitorInv` says for each folder what the file has to
  hold of the chunks before its `.last.txt` (`StageInv`, `ProdInv`), which of them the process
  has in memory (`SeenInv`, `KeptInv`), that nothing but hits is anywhere (`OnlyHits`), and
  that the stage never runs ahead of the chunk that is visited (`BehindInv`). What a file has to
  hold is `Fits`: each chunk before the next block is found (`FoundIn`, or its record is the one
  that cleaning drops) or passed over behind one that is found (`PassedIn`), and the last chunk
  visited is found. `FitsNext` is the step of a visit; `NotPossible` says that a chunk which
  visitFinalIndexFiles leaves out lies before the next block or begins with it, so that the one
  before it is found; `Covers` and `CoversFacts` carry both over to a file that has no less,
  such as one that is appended to, cleaned or moved. `FaultlessInv`
  counts: without faults what a file holds it holds once, and nothing `.last.txt` is not past,
  but for the chunk in progress.

*Accounting* (`Monitor_proofs`, which also EXTENDS `Reconcile`), for any kinds of transactions,
histories, windows and filters, of any values; the chain gives transactions in the order of
their blocks, and block 0 at most one of them.

* `BooksAreBalanced`: `AcctSpec => []BooksBalance`. `Choices` lists the five statements that
  `reconcileEth` chooses from. Of each, `NumsFacts` says that when it is reconciled it starts
  where the statement before it ended and that its net is the difference, so that the nets add
  up by themselves (`NetGood`); and `WholeNums` says that, when the transaction shows all it
  does and the statement before it ended with the true balance, it is reconciled and ends with
  the true balance again (`WholeGood`), whichever of the five it is. `BlockEnds` says where
  the node's balances, which are per block, are the sum so far: at the end of a block, and
  before its first appearance, which is where a window that cuts no block starts.
* `TokensAreAddedUp`: `AcctSpec => []TokensAddUp`. `TokGood`: what is remembered of a token is
  the sum of the nets, and the node's balance at its last statement.

  The invariant is `Books`. `TotalFacts`, `TotalSame`, `TotalRest` and `TotalAppend` say what
  the sum of a list is, of the part two lists have in common, of zeros, and of a list with
  one number more; the recursive function has its values by `RecursionExists`.

*The manifest* (`Manifest_proofs`).

* `PinnedHashesAreReal`: `Spec => [](TypeOK /\ PinsAreReal)`, with `--init`, failures, kills and
  torn files. `RealInv` extends the property to the record and the lines in memory.
* `ManifestIsKept`: `Spec => []ManifestKept`, assuming that `--init` does not run and that
  writes are not torn (both needed: section 5). `LineInv`: the lines of the chunks that are done
  are in manifest.txt or, while it is empty, in what is about to be written to it.
* `ChunksAreFound`: `Spec => [](Findable /\ FreshRead)`, one tool after the other and without
  kills. `NewerBin` is the reason: whenever pins.bin has the later date it has every name of the
  text, although only whole seconds are compared, except between the two writes of the scraper.

*The caches* (`DataCache_proofs`). The lemmas `...Do(es)` say once what each step does to the
process that takes it (`Moved`).

* `ExportsCacheNothingStale`: `Spec => [](TypeOK /\ NeverStale)`, for any number of processes,
  kills, torn files and a node that comes and goes, assuming that nobody uses `getTrans --cache`
  (needed). `StaleInv`: cache files exist only of a ripe block, and a process with an option to
  cache has only what is from the chain, because `FlagsOf` drops the options for unripe blocks.
* `ExportsShowTheChain`: `Spec => []CachesTrue` for one process after the other (`OnlyOne`): no
  kill, no torn file, a node that has the block, no transaction of the 2016 attack (all needed).
  `OneInv` has, for each label, what the process has by then: transaction, receipt, traces.
* `BlocksShowTheChain`: `Spec => []BlocksTrue`, for any number of getBlocks and kills, assuming
  that the block is not replaced and no raw block is cached (`Settled`; both needed).

* `CacheTypesCorrect`: `Spec => []TypeOK`, for every tool and option, with kills and torn files.

*Manifest, caches, names and chunks in use* (`SharedFiles_proofs`).

* `ManifestHolds`: `ManifestSpec => []ManifestKept`, and `CachesHold`: `CacheSpec => []CachesTrue`,
  the properties of the run `shared_files`, for each part that the run has. The proof modules
  above are instantiated with the constants of a part (`PinningThms`, `ExportsThms` and so on),
  lemmas `...Same` show that the copy of the module that comes with the theorems is the one the
  part uses, and since `part` never changes, a behaviour with a part is one of that copy's
  `Spec`. The hypotheses of the theorems follow from the values that `SharedFiles` gives each
  part and from `CommandAssumption`, which TLC evaluates.
* `NamesHold`: `NamesSpec => []NamesAsWanted`, and `NamesFresh`: `NamesSpec => []NamesAreFresh`.
  The lemmas are about maps: what `Merge`, `Put` and a deletion change (`MergeGives`, `PutGives`,
  `DeletedGives`), that `loadNames` of the lines of a map gives the map again (`ViewOfLines`),
  and that a careful command writes to one file the lines of what the user then wants, while
  the other file has them already (`EditIsWanted`). `EditInv` says that one tool runs at a time
  and, for each of its places (`AtPlace`), what the two text files, the cache, its map and its
  lock are: one file is empty while it is written, and holds what the command makes of the
  names before the user's wish is counted as done. The dates play no part: while tools run one
  after the other and nobody is killed, a cache that exists is right. For edits at any moment,
  with kills, `AnyInv` keeps the mark of each line with its file.
* `ChunkFinds`: `ChunkSpec => []FindsExactly`, for all lines, addresses looked for, bits and sizes
  of a filter. `PlaceTaken` and `SortedAscends` give the lines their order, by counting the lines
  before each. `ChunkInv` says that the records of the table tile the lines written so far
  (`Tiled`), in ascending order of their addresses (`Ascending`), that the lines since the last
  record are of the address that is open (`LinesWritten`), that the filters have every address of
  the table (`Hold`; `BloomAdds` is `addToSet`), and that bsearch never leaves out the place where
  the address may be (`SearchRight`).

*Locks, timestamps, downloads, dates, prices* (`Upkeep_proofs`).

* `LocksHaveOwners`: a lock file has a running owner or was abandoned by
  a kill or a quit, for any processes and kinds of locking. `LockInv` adds where in the code a
  process owns a lock (`OwnsWhere`) and that an owner is on the way to remove it
  (`OwnerWillRemove`).
* `TimestampsDense`: record *i* of `ts.bin` is block *i*, or 0 if the node did not answer for
  block *i*, assuming one process. `TsInv` adds that what the process counted is the length of the file until the
  call ends (`CountIsLength`), which is what a second process breaks.
* `NoPartTakenForAChunk`, `ArrivedChunksStay`: `NeverReadsPart` and the action property
  `KeepsWhatArrived`, assuming one process and no crash inside gunzip (both needed). `FetchInv`:
  a file is partial only under the gunzip that writes it, and missing from the look for it to
  that gunzip.
* `SearchCorrect`: the search answers with the last block at or before the
  date, assuming `MaxStop = Latest` (needed). `SearchInv` keeps the block looked for between
  `first` and `last` (`InRange`), and uses that timestamps grow (`Increasing`).
* `PricesHold`: `PricesSpec => []PricesRight`, for any periods, window and marks. Where one tool
  runs at a time, none is killed and the exchange has every price since its first (all needed:
  section 5), `QuotesInv` says that what the tool has, and what the file holds outside of its
  writing, are the periods from a midnight on, one after the other (`InARow`): `WhatIsAdded`
  shows that a response adds the whole interval after the last quote, or from its first midnight
  on, so counting finds the quote of a moment, and `MarksAdd` that every `Every`-th lies on a
  mark. Where tools race and are killed, and the exchange has gaps, `RacingInv` keeps the quotes
  ascending but for those not yet written (`Ascends`), since `addToArray` passes only later
  ones than `lastRead`.

*Go programs* (`GoApps_proofs`).

* `EachBlockInOnePlace`, `ChannelClosedInTime`: no block is lost or held twice by blaze's
  goroutines, and nobody is left to send when `addressChannel` is closed. The invariant joins
  `TypeOK`, where `main` is while a channel is open (`MainInv`), what a goroutine holds in each
  state (`HandsInv`) and `OnePlace`.
* `BlazeKeepsContract`: `Spec => ImplementsBlaze`, the refinement of `BlazeSpec` on the blocks that
  have traces (`Traced`), whichever others are empty or have logs only. `BlockScrape` uses the
  contract for every block: it assumes that each has a trace.
* `SwitchSurvivesRestarts`: `Persisted`, assuming one request at a time (needed). `FlameInv`: a
  handler that is about to write the file writes what is now in memory.
* `MessagesInOrder`: `InOrder`, and that nothing is sent on a closed channel, for any number of
  connections, commands and breaks. `CountInv` gives each connection its place in the pool's
  round, `PoolInv` says which connections still have to get the current message.
* `EachChunkPrintedOnce`: `PrintedOnce`. `LineInv` takes what is printed and what waits in the
  channel as one line (`Line`): a chunk that was handed out is searched or in the line, once.

Only model-checked:

* all liveness: TLAPS does not reason about fairness and ENABLED here.

## 5. Where the code and its comments disagree

Two of the disagreements are runs, with findings in `PROJECT.json`: `export_wedges` and
`mon_skip`. The others were met while modelling. Each row names a module, a property and
the constants under which TLC finds it violated; the text in quotes is the code's or its
documentation's. Paths are under `src/src/`, those of `docs/` under `src/`.

| Module: property | Constants | What the code does, and what it says |
|---|---|---|
| `BlockScrape`: `UnripeIsYoung` | no faults | a pass that succeeds does not clean `unripe/`; "The unripe folder holds blocks that are less than 28 blocks old" (apps/blockScrape/handle_block_scrape.cpp:133) |
| `BlockScrape`: `IndexExactlyOnce` | `signal`, `MaxFaults` = `MaxSignals` = 3 | the third Ctrl-C exits between stage_chunks' appends and its rename; temp.txt stays and the next run appends the old stage to it again. "the processing must be able to stop abruptly" (same file, 136) |
| `BlockScrape`: `ChunksSnapToGrid` | one `signal`, `MaxRows` 3 | a quit at a snap block leaves it on the stage without the short chunk; "we want to do a chunk no matter what (since we've snapped to grid)" (consolidator.cpp:126) |
| `BlockScrape`: `EveryChunkHasBloom` | one `write` (`FirstFails`, `BloomFails`) | writeIndexAsBinary does not look at what writeBloomToBinary returns and copies the chunk to `finalized/`, where no reader will look for it; "write the bloom file" (libs/acctlib/indexing.cpp:171) |
| `BlockScrape`: `IndexExactlyOnce`, `ImplementsIndex` | one `write` (`ZeroFails`, `BinFails`) | nor at what copyFile returns: the bloom says that the blocks are indexed, and they are taken off the stage; "In this way, we only move the data to its final resting place once. It's safer." (indexing.cpp:167) |
| `BlockScrape`: `IndexExactlyOnce` | one `write` (`BloomFails`) | without its bloom the end of the index is not seen, and its blocks are staged again |
| `BlockScrape`: `ImplementsIndex` | one `write` (`RewriteFails`) | linesToAsciiFile does not say that nothing was written: the remaining records are gone and their blocks scraped again (apps/blockScrape/handle_write_chunks.cpp:124) |
| `BlockScrape`: `CatchesUp` | one `signal` | a Ctrl-C between stage_chunks and consolidate_chunks, and a next pass without new blocks: see *Limits* in section 3; "the processing must be able to stop abruptly" (handle_block_scrape.cpp:136) |
| `BlockScrape`: `CatchesUp` | one `resync` | the ripe files are ahead of the head that the node is back to, and no pass does anything until it has moved on |
| `BlockScrape`: `ChunksTile` | one `kill` | the chunk is written before the stage is rewritten: its blocks are consolidated twice, or lost; "pick up where it left off" (handle_block_scrape.cpp:139) |
| `QuitHandler`: `CtrlCIsHeard` | `Malformed`, a bad record | write_chunks returns at line 78 with its section locked; from then on every Ctrl-C is ignored. "Check for user input control+C at each pass" (handle_write_chunks.cpp:16) |
| `ScraperControl`: `QuitObeyed` | 3 processes, run, quit, pause | changeState reads and writes without a lock: a pause recreates the file that a quit removed |
| `ScraperControl`: `StartsAsNeeded` | one `kill` | the control file outlives the scraper, and a later run refuses or ends; "It is possible to start and stop `chifra scrape` as needed" (apps/blockScrape/README.md:5) |
| `BlazePipeline`: `ImplementsBlaze` with all of `BlockRange` for `Traced` | `EmptyBlocks` or `LogBlocks` = {2} | no file for a block without traces and logs, and one in `ripe/` under a hex string, whatever its age, for a block with logs only, since Atoi's error is dropped; exit code 0. "'Scrape' visits every block" (go-apps/blaze/cmd/scrape.go:372) |
| `ChunkFile`: `NoTrap` | any | `notifyCnt` is zero for fewer than 12 lines and divides at line 120; "We want to notify 12 times" (libs/acctlib/indexing.cpp:105) |
| `FileLock`: `OneWriter` | two `waitWriter` | look and create are two calls, and `fopen(..., "w")` also succeeds when another has created the file (libs/utillib/database.cpp:59) |
| `FileLock`: `BreaksOldLockOnly` | a `createWriter`, two `waitWriter` | the lock removed may be a moment old; "Someone has had the lock for maxSecondsLock seconds" (database.cpp:65) |
| `Timestamps`: `TsDense` | two processes | nRecords is computed before the lock is taken (libs/etherlib/node.cpp:1276) |
| `Timestamps`: `TsTrue` | one `rpc` | getBlock_header always returns true, and the fields of a header that was not given stay 0: the record (0, 0) is written and never again, and readers index by block number (libs/etherlib/node.cpp:1302, apps/acctExport/main.cpp:246) |
| `Timestamps`: `TsCovers` | one process | the early return at `nRecords >= minBlock` is one block short; "at least as up to date as this monitor" (apps/acctExport/query_loadapps.cpp:77) |
| `Timestamps`: `LockedMeansUpdating` | two processes, one `kill` | a lock file left by a kill keeps everyone from ever updating; "it's being updated elsewhere" (node.cpp:1281) |
| `TsSearch`: `AtOrBefore` | `Latest` 4, `MaxStop` 7 | the window of a past year ends at a fixed block, and a block that the node lacks reads as timestamp 0 (libs/etherlib/blockoptions.cpp:184) |
| `Monitor`: `MissesNoTwo` | two processes | cleanMonitorStage removes what another acctExport is building; "previously unfinished scrapes" (apps/acctExport/query_freshen.cpp:10) |
| `Monitor`: `MissesNoTwo` | `killclean` | cleaning truncates and writes anew (process_clean.cpp:43) |
| `Monitor`: `MissesNoTwo` without `Dropped` | `Prefund` = {m1}, `clean` | appearance 0.0 is taken for a duplicate of the initial `prev` (process_clean.cpp:33) |
| `Monitor`: `MissesNoTwo` | `killremove` | the appearances are removed first, .last.txt next (libs/acctlib/monitor.cpp:475) |
| `Reconcile`: `NetIsTrue` | an export of the `Internal` kinds (`MCAlgorithms`) | another transaction of the block can make up for an internal transfer; "...if not, we're reconciled" (libs/etherlib/reconciliation.cpp:704) |
| `Reconcile`: `AllReconcile` | exports with `windows`, or with `filters` | neighbours are looked for in the window, and `prev` is the last one that passed the filter; "we handle all cases here" (reconciliation.cpp:720) |
| `Reconcile`: `TokensAddUp` without its hypothesis | exports of `Tokens` with `windows` | a window starts from token balances of zero (apps/acctExport/handle_accounting.cpp:30) |
| `Manifest`: `Findable` | `MaxKills` 1 | pins.bin is written in the section, manifest.txt later; "disallow control+C until we write both files" (libs/pinlib/pinlib.cpp:101) |
| `Manifest`: `NeverPinsAgain` | a kill | lines of the manifest have short names and are never found; "If already pinned, no reason to pin it again..." (pinlib.cpp:219) |
| `Manifest`: `AllPinned` | `PinFails` | visitToPin ignores the failure and writes empty hashes; "Quitting..." (pinlib.cpp:231) |
| `Manifest`: `FreshRead` | `--init` beside a reader, `Published` 2 | pins.bin made from the old manifest is newer than the new one; "she wants a fresh read" (apps/pinMan/handle_init.cpp:19) |
| `Manifest`: `Recorded` | `Torn` with a kill; scraper and `--init` | the manifest is truncated and rewritten, or replaced by the published one; docs/readmes/apps/init.md:3 says it "contains every previously pinned bloom filter and index chunk" |
| `Unchain`: `KeepsWhatArrived` | two processes | the cleanup after a failed gunzip removes the other's complete file; "clean up on failure" (pinlib.cpp:339) |
| `Unchain`: `NeverReadsPart` | `CrashIn` = {"unpack"} | gunzip writes under the final name; "it will pick up against where it left off" (docs/readmes/apps/init.md:5) |
| `Names`: `NamesAsWanted` | `Serial` = FALSE; or a kill | a cache without names is read while it is written, and names.tab is then written from it; the only copy is truncated by an edit (libs/utillib/options_base_names.cpp:243, tools/ethNames/handle_editcmds.cpp:113) |
| `Names`: `NamesAsWanted` | `Careful` = FALSE; `Prefunds` with two commands; `MaxCmds` 2 | `--to_custom` does not override names.tab; a customised prefund is left out of the file; a file of commands repeats its first one (handle_editcmds.cpp:107, 28) |
| `Names`: `CacheIsFresh` | `Serial` = FALSE; or a kill | only dates are compared; "If none of the source files is out of date" (options_base_names.cpp:239) |
| `DataCache`: `TxsTrue` | `trans --cache` of a young block; `MayDesync`; two tools | a replaced or empty transaction is cached or read; "Turning off caching for unripe blocks." (apps/acctExport/options.cpp:345) |
| `DataCache`: `ReceiptsThere` | two tools | forEveryTransaction looks for the file a second time and takes the transaction for a cached one (node.cpp:945) |
| `DataCache`: `TracesTrue` | `Big` with a kill; `Heavy` with `skip_ddos` | a torn file, or the placeholder of a skipped transaction, is served for good; "every transaction has at least one trace" (node.cpp:339) |
| `DataCache`: `BlocksTrue` | `raw` | a block cached by --raw has no receipts (tools/getBlocks/main.cpp:110) |
| `DataCache`: `MarkedFinal` | a reorganisation | a cached block that was replaced is marked final by its age of today (getBlocks/main.cpp:75, 174) |
| `Prices`: `OnTheMark` | a gap in `Listed` | entries are counted, so one missing period shifts the rest; "First entry should be on a two hour mark" (libs/etherlib/pricesource.cpp:166) |
| `Prices`: `PricedRight` | a kill; or two processes | "append new data" (tools/getQuotes/README.md:14) truncates and rewrites, and readers do not look at the lock |
| `Prices`: `UpToDate` | `Listed` from after the first window; or `Btc` | lastRead does not move, and every run asks for the same 30 days; "You must repeatedly run this command until the data is up-to-date" (README.md:25) |
| `Prices`: `NeverEmpty` | any | a load without any quote succeeds, and pricequote.cpp:292 reads its first element |
| `Websockets`: `DropsBroken` | `break` | a connection whose write failed waits for the pool, which waits for it; "dropping connection" (go-apps/flame/server/server_websockets.go:63) |
| `FlameScraper`: `Persisted` | two handlers | of two toggles the one that set Running first may write last (go-apps/flame/server/scraper.go:60) |
| `AcctScrape2`: `Ends` | `MaxTasks` 0 | max is optional by its README, and without it Execute waits for a result before it starts a task (go-apps/acctScrape2/cmd/root.go:123) |

## 6. Plan

1. Composition of `BlockScrape` with `Monitor`: acctExport reading the index while chunks are
   written. Today `NewChunk` adds a whole chunk, which `ChunkHasBloom` and the order bloom,
   then index file, justify.
2. An abstract lock that `FileLock` implements for `createWriter`s of one process at a time.

## 7. Not modelled

* The data: address extraction, bits of a filter, RPC, JSON, ABI decoding, formatting, the
  generated data classes of etherlib, the option parser and its help texts. They compute or
  print and keep no state that two steps could disagree about. They, the vendored sqlite,
  the tests and the code generators are most of the repository's lines, which is why the map
  covers a small share of them: it covers the code that changes shared state.
* chifra, cacheStatus, fireStorm and the tools that only query: one request, one answer.
* `ReLock` (never called), `pinlib_unpinChunk` (no caller), `ethNames --clean` (maintainers
  only), flame's routing, other price feeds (not implemented).
* The lock of manifest.txt that cannot be had: stringToAsciiFile then warns and writes nothing
  (libs/utillib/sfarchive.cpp:351), which is so for good once a kill inside of it has left
  manifest.txt.lck. `FileLock` has such locks; `Manifest` writes its text without one.
* Disk full in the middle of a write, and a reordering of writes by a power failure, except
  where a module says so (`Crash` in `Unchain`, `Torn` in `Manifest` and `Names`).
* IPFS, the node, curl, gunzip and the operating system appear only through what the code
  sees of them.
