---------------------------- MODULE BlockScrape -----------------------------
(***************************************************************************)
(* blockScrape: the process that builds the index of appearances.          *)
(*                                                                         *)
(* The state is the index folder on disk, the scraper process (its place   *)
(* in the code and the fields of CConsolidator) and its surroundings: the  *)
(* head of the chain, whether acctExport is running, and a budget of       *)
(* faults.  A pass of scrape_blocks moves blocks along                     *)
(*                                                                         *)
(*     node -> ripe/ -> staging/000000000-temp.txt -> temp.txt             *)
(*          -> staging/<n>.txt -> blooms/ and finalized/                   *)
(*                                                                         *)
(* and every place where the process can be stopped between two changes of *)
(* the disk is a separate step.  File contents are sequences of blocks     *)
(* (module ChunkOps).                                                      *)
(***************************************************************************)
EXTENDS ChunkOps, FiniteSetsExt

CONSTANTS NBlocks,      \* n_blocks: how many blocks one pass asks blaze for
          RipeDepth,    \* 28: how far behind the head a block is ripe
          FaultKinds,   \* the faults of this instance
          MaxFaults,    \* bound: how many of them happen
          MaxSignals    \* bound: Ctrl-C's delivered to one process

\* "io": a file cannot be opened, and the code looks; "write": a file cannot be
\* opened for writing, and the code does not look.
AllFaults == {"signal", "blaze", "io", "write", "kill", "export", "resync"}

ASSUME ScrapeConstants ==
    /\ NBlocks \in Nat \ {0}
    /\ RipeDepth \in Nat \ {0}
    /\ FaultKinds \subseteq AllFaults
    /\ MaxFaults \in Nat
    /\ MaxSignals \in Nat

\* Names in the staging folder: n stands for <n>.txt, and TmpFn for tmp_fn,
\* "000000000-temp.txt", which sorts before every one of them.
TmpFn == -1
StageName == {TmpFn} \cup Block

VARIABLES
    client,      \* the node's highest block
    maxHead,     \* the highest it ever was (history)
    exporting,   \* isRunning("acctExport")
    faults,      \* faults so far
    disturbed,   \* there was one that is no failure among them (history)
    pc,          \* where the scraper is
    quit,        \* g_QuitCount
    tmpOpen,     \* tmp_stream.is_open()
    blazeStart, blazeCnt, blazeRipe, prevBlock,   \* fields of CConsolidator
    oldStage, newStage,
    snapping,    \* stage_chunks/write_chunks were called by copyRipeToStage
    once,        \* write_chunks: write a chunk however few the records
    remaining,   \* write_chunks: the records to put back on the stage
    blooms,      \* blooms/: the set of <<first, last>>
    finalized,   \* finalized/: the set of chunks
    unbloomed,   \* names of the chunks whose bloom could not be written (history)
    staging,     \* staging/: the names present
    content,     \* what each of them holds, << >> if it is not present
    tmpFile,     \* temp.txt in the index folder, << >> if there is none
    ripe, unripe \* ripe/ and unripe/: the blocks that have a file

env == <<client, maxHead, exporting, faults, disturbed>>
range == <<tmpOpen, blazeStart, blazeCnt, blazeRipe>>
locals == <<range, prevBlock, oldStage, newStage, snapping, once, remaining>>
index == <<blooms, finalized, unbloomed>>
stage == <<staging, content, tmpFile>>
blaze == <<ripe, unripe>>
vars == <<env, pc, quit, locals, index, stage, blaze>>

-----------------------------------------------------------------------------
(* What the code reads off the disk *)

\* bnFromPath of a staging file: "000000000-temp.txt" reads as block 0.
BnFromPath(n) == IF n = TmpFn THEN 0 ELSE n

\* getLastFileInFolder(blooms): names sort by first block, then by last.
LastBloom ==
    CHOOSE r \in blooms :
        \A q \in blooms : q[1] < r[1] \/ (q[1] = r[1] /\ q[2] <= r[2])

\* Mutant: the first block of the last chunk instead of its last.
LatestFinalFirst == IF blooms = {} THEN 0 ELSE LastBloom[1]

LatestFinal == IF blooms = {} THEN 0 ELSE LastBloom[2]

LatestStaging ==
    IF staging = {} THEN LatestFinal ELSE BnFromPath(Max(staging))

LatestRipe == IF ripe = {} THEN LatestStaging ELSE Max(ripe)

Chunk(bs) == [first |-> bs[1], last |-> bs[Len(bs)], blocks |-> bs]
Name(c) == <<c.first, c.last>>

-----------------------------------------------------------------------------
(* Ends of a pass and of the process *)

\* The CConsolidator of a pass is a local of scrape_blocks.
Forget ==
    /\ tmpOpen' = FALSE
    /\ blazeStart' = 0 /\ blazeCnt' = 0 /\ blazeRipe' = 0 /\ prevBlock' = 0
    /\ oldStage' = 0 /\ newStage' = 0
    /\ snapping' = FALSE /\ once' = FALSE /\ remaining' = << >>

EndPass == pc' = "idle" /\ Forget
Terminate == pc' = "down" /\ quit' = 0 /\ Forget

\* A fault of this kind happens now.
Happens(kind) ==
    /\ kind \in FaultKinds
    /\ faults < MaxFaults
    /\ faults' = faults + 1
    /\ disturbed' = (disturbed \/ kind \in {"signal", "export", "resync"})
    /\ UNCHANGED maxHead

Fault(kind) == Happens(kind) /\ UNCHANGED <<client, exporting>>

\* The next place in the code, the consolidator unchanged.
Goto(label) == pc' = label /\ UNCHANGED <<quit, locals>>

RemoveTmpFn ==
    /\ staging' = staging \ {TmpFn}
    /\ content' = [content EXCEPT ![TmpFn] = << >>]

-----------------------------------------------------------------------------
(* Startup: parseArguments and the loop of main *)

\* The chunk of block zero is written by the first run ever: its bloom...
StartFirst ==
    /\ pc = "down"
    /\ <<0, 0>> \notin blooms
    /\ blooms' = blooms \cup {<<0, 0>>}
    /\ Goto("zero")
    /\ UNCHANGED <<env, finalized, unbloomed, stage, blaze>>

\* The return value of writeBloomToBinary is not looked at: without the lock on the
\* bloom, or the file, there is none.
FirstFails ==
    /\ pc = "down"
    /\ <<0, 0>> \notin blooms
    /\ Fault("write")
    /\ unbloomed' = unbloomed \cup {<<0, 0>>}
    /\ Goto("zero")
    /\ UNCHANGED <<blooms, finalized, stage, blaze>>

\* The previous run may have left a temporary stage and unripe blocks.
CleanOnStart ==
    /\ RemoveTmpFn
    /\ unripe' = {}
    /\ Goto("idle")
    /\ UNCHANGED <<blooms, unbloomed, tmpFile, ripe>>

\* ...and then its index file.
StartZero ==
    /\ pc = "zero"
    /\ finalized' = finalized \cup {Chunk(<<0>>)}
    /\ CleanOnStart
    /\ UNCHANGED env

\* Nor is that of copyFile.
ZeroFails ==
    /\ pc = "zero"
    /\ Fault("write")
    /\ CleanOnStart
    /\ UNCHANGED finalized

Start ==
    /\ pc = "down"
    /\ <<0, 0>> \in blooms
    /\ CleanOnStart
    /\ UNCHANGED <<env, finalized>>

\* while (!shouldQuit())
LoopExit ==
    /\ pc = "idle"
    /\ quit > 0
    /\ Terminate
    /\ UNCHANGED <<env, index, stage, blaze>>

-----------------------------------------------------------------------------
(* scrape_blocks up to the end of blaze *)

\* Mutant: one block too many.
RipeBlockEarly == IF client < RipeDepth THEN 0 ELSE client - RipeDepth + 1

\* The last block that is RipeDepth behind the head.
RipeBlock == IF client < RipeDepth THEN 0 ELSE client - RipeDepth

\* The constructor reads how far along we are and then opens tmp_fn; then the
\* range to scrape is computed.  If the index is ahead of the chain the pass ends
\* here, tmp_fn stays.
StartPass(opened) ==
    LET first == Max({LatestRipe, LatestStaging, LatestFinal}) + 1
    IN  /\ pc = "idle"
        /\ quit = 0
        /\ ~ exporting
        /\ IF first > client
           THEN EndPass
           ELSE /\ tmpOpen' = opened
                /\ blazeStart' = first
                /\ blazeCnt' = IF first + NBlocks > client
                               THEN client - first ELSE NBlocks
                /\ blazeRipe' = RipeBlock
                /\ prevBlock' = LatestStaging
                /\ pc' = "ready"
                /\ UNCHANGED <<oldStage, newStage, snapping, once, remaining>>
        /\ UNCHANGED <<quit, index, tmpFile, blaze>>

\* Opening creates tmp_fn or truncates the one an earlier pass left.
BeginPass ==
    /\ StartPass(TRUE)
    /\ staging' = staging \cup {TmpFn}
    /\ content' = [content EXCEPT ![TmpFn] = << >>]
    /\ UNCHANGED env

\* It cannot be opened, which the code looks at when blaze is done.
BeginUnopened ==
    /\ StartPass(FALSE)
    /\ Fault("io")
    /\ UNCHANGED <<staging, content>>

\* "The user hit control+C..."
QuitBeforeBlaze ==
    /\ pc = "ready"
    /\ quit > 0
    /\ EndPass
    /\ UNCHANGED <<env, quit, index, stage, blaze>>

RunBlaze ==
    /\ pc = "ready"
    /\ quit = 0
    /\ Goto("blaze")
    /\ UNCHANGED <<env, index, stage, blaze>>

BlazeRange == blazeStart .. blazeStart + blazeCnt - 1

\* One of blaze's goroutines writes the file of a block, in any order.
BlazeWrite(b) ==
    /\ pc = "blaze"
    /\ b \in BlazeRange
    /\ IF b > blazeRipe
       THEN unripe' = unripe \cup {b} /\ UNCHANGED ripe
       ELSE ripe' = ripe \cup {b} /\ UNCHANGED unripe
    /\ UNCHANGED <<env, pc, quit, locals, index, stage>>

\* blaze returned zero; every block has its file.  If acctExport was started
\* meanwhile, or there is no tmp_fn to copy to, the pass ends and ripe/ and tmp_fn
\* stay as they are.
BlazeDone ==
    /\ pc = "blaze"
    /\ \A b \in BlazeRange : b \in IF b > blazeRipe THEN unripe ELSE ripe
    /\ IF exporting \/ ~ tmpOpen
       THEN EndPass /\ UNCHANGED quit
       ELSE Goto("copy")
    /\ UNCHANGED <<env, index, stage, blaze>>

\* Mutant: the failure counts, but the third does not exit.
BlazeFailNoExit ==
    /\ pc = "blaze"
    /\ Fault("blaze")
    /\ ripe' = {}
    /\ EndPass
    /\ quit' = quit + 1
    /\ UNCHANGED <<index, stage, unripe>>

\* blaze returned non-zero (the node failed, or Ctrl-C reached blaze): what it
\* wrote to ripe/ goes, and the failure counts as a Ctrl-C.
BlazeFail ==
    /\ pc = "blaze"
    /\ Fault("blaze")
    /\ ripe' = {}
    /\ IF quit + 1 > 2 THEN Terminate ELSE EndPass /\ quit' = quit + 1
    /\ UNCHANGED <<index, stage, unripe>>

-----------------------------------------------------------------------------
(* copyRipeToStage, once for each ripe file in order *)

\* The file follows prevBlock: append it to tmp_fn and remove it.  If tmp_fn was
\* unlinked by an earlier stage_chunks of this pass the data goes nowhere.
CopyRipe ==
    /\ pc = "copy"
    /\ ripe # {}
    /\ LET bn == Min(ripe)
       IN  /\ bn = prevBlock + 1
           /\ content' = IF TmpFn \in staging
                         THEN [content EXCEPT ![TmpFn] = Append(@, bn)]
                         ELSE content
           /\ ripe' = ripe \ {bn}
           /\ prevBlock' = bn
           /\ IF Snaps(bn)
              THEN pc' = "stage" /\ snapping' = TRUE
              ELSE /\ pc' = IF quit > 0 THEN "cleanup" ELSE "copy"
                   /\ UNCHANGED snapping
    /\ UNCHANGED <<env, quit, range, oldStage, newStage,
                   once, remaining, index, staging, tmpFile, unripe>>

\* A block is missing: give up, the next pass starts over at the stage.
CopyOutOfSequence ==
    /\ pc = "copy"
    /\ ripe # {}
    /\ Min(ripe) # prevBlock + 1
    /\ Goto("cleanup")
    /\ UNCHANGED <<env, index, stage, blaze>>

\* The ripe file cannot be opened.
CopyFail ==
    /\ pc = "copy"
    /\ ripe # {}
    /\ Fault("io")
    /\ Goto("cleanup")
    /\ UNCHANGED <<index, stage, blaze>>

CopyDone ==
    /\ pc = "copy"
    /\ ripe = {}
    /\ pc' = "stage"
    /\ snapping' = FALSE
    /\ UNCHANGED <<env, quit, range, prevBlock, oldStage,
                   newStage, once, remaining, index, stage, blaze>>

\* Mutant: ripe/ is not cleaned.
CleanupKeepsRipe ==
    /\ pc = "cleanup"
    /\ unripe' = {}
    /\ RemoveTmpFn
    /\ EndPass
    /\ UNCHANGED <<env, quit, index, tmpFile, ripe>>

\* copyRipeToStage returned false: clean up and end the pass.
Cleanup ==
    /\ pc = "cleanup"
    /\ ripe' = {}
    /\ unripe' = {}
    /\ RemoveTmpFn
    /\ EndPass
    /\ UNCHANGED <<env, quit, index, tmpFile>>

-----------------------------------------------------------------------------
(* stage_chunks *)

\* No new blocks.
StageSame ==
    /\ pc = "stage"
    /\ Max(staging) = prevBlock
    /\ oldStage' = prevBlock
    /\ newStage' = prevBlock
    /\ pc' = "staged"
    /\ UNCHANGED <<env, quit, range, prevBlock, snapping,
                   once, remaining, index, stage, blaze>>

\* Append oldStage to temp.txt, which is whatever an earlier run left in it.
StageAppendOld ==
    /\ pc = "stage"
    /\ Max(staging) # prevBlock
    /\ oldStage' = Max(staging)
    /\ newStage' = prevBlock
    /\ tmpFile' = IF oldStage' = TmpFn THEN tmpFile
                  ELSE tmpFile \o content[oldStage']
    /\ pc' = "append"
    /\ UNCHANGED <<env, quit, range, prevBlock, snapping,
                   once, remaining, index, staging, content, blaze>>

\* temp.txt or oldStage cannot be opened; temp.txt is not removed.
StageFailOld ==
    /\ pc = "stage"
    /\ Max(staging) \notin {prevBlock, TmpFn}
    /\ Fault("io")
    /\ oldStage' = Max(staging)
    /\ newStage' = prevBlock
    /\ pc' = "stageFailed"
    /\ UNCHANGED <<quit, range, prevBlock, snapping,
                   once, remaining, index, stage, blaze>>

\* Append tmp_fn.
StageAppendNew ==
    /\ pc = "append"
    /\ TmpFn \in staging
    /\ tmpFile' = tmpFile \o content[TmpFn]
    /\ Goto("rename")
    /\ UNCHANGED <<env, index, staging, content, blaze>>

\* It cannot be opened; temp.txt is removed.
StageFailNew ==
    /\ pc = "append"
    /\ Fault("io")
    /\ tmpFile' = << >>
    /\ Goto("stageFailed")
    /\ UNCHANGED <<index, staging, content, blaze>>

\* Inside lockSection: move temp.txt to newStage...
StageRename ==
    /\ pc = "rename"
    /\ staging' = staging \cup {newStage}
    /\ content' = [content EXCEPT ![newStage] = tmpFile]
    /\ tmpFile' = << >>
    /\ Goto("drop")
    /\ UNCHANGED <<env, index, blaze>>

\* Mutant: oldStage stays.
StageDropKeepsOld ==
    /\ pc = "drop"
    /\ RemoveTmpFn
    /\ Goto("staged")
    /\ UNCHANGED <<env, index, tmpFile, blaze>>

\* ...and only then remove oldStage and tmp_fn.
StageDrop ==
    /\ pc = "drop"
    /\ LET gone == {TmpFn} \cup (IF oldStage = newStage THEN {} ELSE {oldStage})
       IN  /\ staging' = staging \ gone
           /\ content' = [n \in StageName |->
                             IF n \in gone THEN << >> ELSE content[n]]
    /\ Goto("staged")
    /\ UNCHANGED <<env, index, tmpFile, blaze>>

\* stage_chunks returned false.  At a snap the copy is given up; at the end of
\* the copy the code cleans up and goes on, to find that newStage is empty.
StageFailed ==
    /\ pc = "stageFailed"
    /\ ripe' = {}
    /\ unripe' = {}
    /\ RemoveTmpFn
    /\ Goto(IF snapping THEN "cleanup" ELSE "staged")
    /\ UNCHANGED <<env, index, tmpFile>>

-----------------------------------------------------------------------------
(* After stage_chunks: the snap of copyRipeToStage, or consolidate_chunks *)

\* Ctrl-C at a snap: copyRipeToStage returns true and the copy goes on.
SnapQuit ==
    /\ pc = "staged"
    /\ snapping
    /\ quit > 0
    /\ Goto("copy")
    /\ UNCHANGED <<env, index, stage, blaze>>

\* write_chunks(min(nRecords, MAX_ROWS), true)
SnapWrite ==
    /\ pc = "staged"
    /\ snapping
    /\ quit = 0
    /\ once' = TRUE
    /\ pc' = "write"
    /\ UNCHANGED <<env, quit, range, prevBlock, oldStage,
                   newStage, snapping, remaining, index, stage, blaze>>

\* consolidate_chunks: with more than MAX_ROWS records, write_chunks(MAX_ROWS,
\* false); otherwise, or if the user hit Ctrl-C, the pass is over.
Consolidate ==
    /\ pc = "staged"
    /\ ~ snapping
    /\ IF quit = 0 /\ NRecords(content[newStage]) > MaxRows
       THEN Goto("write")
       ELSE EndPass /\ UNCHANGED quit
    /\ UNCHANGED <<env, index, stage, blaze>>

-----------------------------------------------------------------------------
(* write_chunks.  From the first step of an iteration to its last the section *)
(* is locked: a Ctrl-C other than the first is ignored.                       *)

LoopGoesOn ==
    LET s == content[newStage]
    IN  quit = 0 /\ (once \/ NRecords(s) > ChunkSize(s))

Cut == BreakAt(content[newStage], ChunkSize(content[newStage]))

\* Mutant: named after the last record of the stage, not of the chunk.
WriteBloomWholeStage ==
    /\ pc = "write"
    /\ LoopGoesOn
    /\ content[newStage] # << >>
    /\ LET s == content[newStage] IN blooms' = blooms \cup {<<s[1], s[Len(s)]>>}
    /\ Goto("bin")
    /\ UNCHANGED <<env, finalized, unbloomed, stage, blaze>>

\* The chunk goes to a temporary file first, which nobody reads; then the bloom.
WriteBloom ==
    /\ pc = "write"
    /\ LoopGoesOn
    /\ content[newStage] # << >>
    /\ blooms' = blooms \cup {<<content[newStage][1], content[newStage][Cut]>>}
    /\ Goto("bin")
    /\ UNCHANGED <<env, finalized, unbloomed, stage, blaze>>

\* The bloom cannot be locked or opened, and the chunk follows all the same.
BloomFails ==
    /\ pc = "write"
    /\ LoopGoesOn
    /\ content[newStage] # << >>
    /\ Fault("write")
    /\ unbloomed' = unbloomed \cup {<<content[newStage][1], content[newStage][Cut]>>}
    /\ Goto("bin")
    /\ UNCHANGED <<blooms, finalized, stage, blaze>>

\* The chunk itself, over a file of the same name if there is one.
WriteBin ==
    /\ pc = "bin"
    /\ LET c == Chunk(SubSeq(content[newStage], 1, Cut))
       IN  finalized' = {d \in finalized : Name(d) # Name(c)} \cup {c}
    /\ Goto("unstage")
    /\ UNCHANGED <<env, blooms, unbloomed, stage, blaze>>

\* copyFile cannot open it: the chunk is not written, or stays what it was.
BinFails ==
    /\ pc = "bin"
    /\ Fault("write")
    /\ Goto("unstage")
    /\ UNCHANGED <<index, stage, blaze>>

\* ::remove(newStage); what was not consolidated is only in memory now.
RemoveStage ==
    /\ pc = "unstage"
    /\ LET s == content[newStage]
       IN  remaining' = SubSeq(s, Cut + 1, Len(s))
    /\ staging' = staging \ {newStage}
    /\ content' = [content EXCEPT ![newStage] = << >>]
    /\ pc' = "rewrite"
    /\ UNCHANGED <<env, quit, range, prevBlock, oldStage,
                   newStage, snapping, once, index, tmpFile, blaze>>

\* linesToAsciiFile(newStage, remainingLines) is in progress.
RewriteSome ==
    /\ pc = "rewrite"
    /\ Len(content[newStage]) < Len(remaining)
    /\ staging' = staging \cup {newStage}
    /\ content' = [content EXCEPT ![newStage] =
                      SubSeq(remaining, 1, Len(content[newStage]) + 1)]
    /\ UNCHANGED <<env, pc, quit, locals, index, tmpFile, blaze>>

\* All of it is written: next iteration.
RewriteDone ==
    /\ pc = "rewrite"
    /\ Len(content[newStage]) = Len(remaining)
    /\ once' = (once /\ remaining # << >>)
    /\ remaining' = << >>
    /\ pc' = "write"
    /\ UNCHANGED <<env, quit, range, prevBlock, oldStage,
                   newStage, snapping, index, stage, blaze>>

\* It cannot be locked or opened: the records that were to go back are gone, and a later
\* pass has to scrape their blocks again.
RewriteFails ==
    /\ pc = "rewrite"
    /\ remaining # << >>
    /\ content[newStage] = << >>
    /\ Fault("write")
    /\ once' = FALSE
    /\ remaining' = << >>
    /\ pc' = "write"
    /\ UNCHANGED <<quit, range, prevBlock, oldStage,
                   newStage, snapping, index, stage, blaze>>

\* An empty newStage ("Not able to write a chunk") ends the loop as well.  At a
\* snap the caller pretends the copy failed, so as to start afresh.
WriteDone ==
    /\ pc = "write"
    /\ ~ LoopGoesOn \/ content[newStage] = << >>
    /\ IF snapping THEN Goto("cleanup") ELSE EndPass /\ UNCHANGED quit
    /\ UNCHANGED <<env, index, stage, blaze>>

-----------------------------------------------------------------------------
(* Signals, crashes and the rest of the world *)

Locked == pc \in {"zero", "drop", "bin", "unstage", "rewrite"}

\* SIGINT or SIGTERM.  defaultQuitHandler: the third one exits on the spot.
CtrlC ==
    /\ pc # "down"
    /\ quit < MaxSignals
    /\ ~ (quit > 0 /\ Locked)
    /\ Fault("signal")
    /\ IF quit + 1 > 2
       THEN Terminate
       ELSE quit' = quit + 1 /\ UNCHANGED <<pc, locals>>
    /\ UNCHANGED <<index, stage, blaze>>

\* SIGKILL, the out-of-memory killer, a power failure.
Kill ==
    /\ pc # "down"
    /\ Fault("kill")
    /\ Terminate
    /\ UNCHANGED <<index, stage, blaze>>

HeadAdvance ==
    /\ client < MaxBlock
    /\ client' = client + 1
    /\ maxHead' = IF client' > maxHead THEN client' ELSE maxHead
    /\ UNCHANGED <<exporting, faults, disturbed, pc, quit, locals, index, stage, blaze>>

\* The node re-syncs: its head is lower for a while.
Resync ==
    /\ Happens("resync")
    /\ client' \in 0 .. client - 1
    /\ UNCHANGED <<exporting, pc, quit, locals, index, stage, blaze>>

ExportStart ==
    /\ Happens("export")
    /\ ~ exporting
    /\ exporting' = TRUE
    /\ UNCHANGED <<client, pc, quit, locals, index, stage, blaze>>

ExportEnd ==
    /\ exporting
    /\ exporting' = FALSE
    /\ UNCHANGED <<client, maxHead, faults, disturbed, pc, quit, locals,
                   index, stage, blaze>>

-----------------------------------------------------------------------------

Init ==
    /\ client = 0 /\ maxHead = 0 /\ exporting = FALSE
    /\ faults = 0 /\ disturbed = FALSE
    /\ pc = "down" /\ quit = 0 /\ tmpOpen = FALSE
    /\ blazeStart = 0 /\ blazeCnt = 0 /\ blazeRipe = 0 /\ prevBlock = 0
    /\ oldStage = 0 /\ newStage = 0
    /\ snapping = FALSE /\ once = FALSE /\ remaining = << >>
    /\ blooms = {} /\ finalized = {} /\ unbloomed = {}
    /\ staging = {} /\ content = [n \in StageName |-> << >>] /\ tmpFile = << >>
    /\ ripe = {} /\ unripe = {}

Starting == StartFirst \/ StartZero \/ Start \/ LoopExit
Blazing == BeginPass \/ QuitBeforeBlaze \/ RunBlaze
              \/ (\E b \in Block : BlazeWrite(b)) \/ BlazeDone
Copying == CopyRipe \/ CopyOutOfSequence \/ CopyDone \/ Cleanup
Staging == StageSame \/ StageAppendOld \/ StageAppendNew \/ StageRename
              \/ StageDrop \/ StageFailed
Writing == SnapQuit \/ SnapWrite \/ Consolidate \/ WriteBloom \/ WriteBin
              \/ RemoveStage \/ RewriteSome \/ RewriteDone \/ WriteDone

Scraper == Starting \/ Blazing \/ Copying \/ Staging \/ Writing
WriteFails == FirstFails \/ ZeroFails \/ BloomFails \/ BinFails \/ RewriteFails
Faulty == BeginUnopened \/ BlazeFail \/ CopyFail \/ StageFailOld
             \/ StageFailNew \/ WriteFails \/ CtrlC \/ Kill
World == HeadAdvance \/ Resync \/ ExportStart \/ ExportEnd

Next == Scraper \/ Faulty \/ World

Spec == Init /\ [][Next]_vars

\* The scraper is scheduled, and restarted when it stops; an export ends.
FairSpec == Spec /\ WF_vars(Scraper) /\ WF_vars(ExportEnd)

-----------------------------------------------------------------------------
(***************************************************************************)
(* Properties                                                              *)
(***************************************************************************)

Labels == {"down", "zero", "idle", "ready", "blaze", "copy", "cleanup", "stage",
           "append", "rename", "drop", "stageFailed", "staged", "write", "bin",
           "unstage", "rewrite"}

EnvOK == /\ client \in Block /\ maxHead \in Block
         /\ exporting \in BOOLEAN /\ disturbed \in BOOLEAN
         /\ faults \in 0 .. MaxFaults
ProcessOK == pc \in Labels /\ quit \in 0 .. 2
LocalsOK == /\ tmpOpen \in BOOLEAN
            /\ blazeStart \in Block /\ blazeCnt \in 0 .. NBlocks
            /\ blazeRipe \in Block /\ prevBlock \in Block
            /\ oldStage \in StageName /\ newStage \in Block
            /\ snapping \in BOOLEAN /\ once \in BOOLEAN /\ remaining \in Seq(Block)
IndexOK == /\ blooms \subseteq Block \X Block /\ unbloomed \subseteq Block \X Block
           /\ finalized \subseteq [first : Block, last : Block, blocks : Seq(Block)]
StageOK == /\ staging \subseteq StageName
           /\ content \in [StageName -> Seq(Block)]
           /\ \A n \in StageName \ staging : content[n] = << >>
           /\ tmpFile \in Seq(Block)
BlazeOK == ripe \subseteq Block /\ unripe \subseteq Block

\* Every variable of the scraper and of its folders has its type; a staging file
\* that is not there holds nothing.
TypeOK == EnvOK /\ ProcessOK /\ LocalsOK /\ IndexOK /\ StageOK /\ BlazeOK

\* The staging files proper, without tmp_fn.
Staged == staging \ {TmpFn}

\* The last block of the last finalized chunk.
FinalBlock == IF finalized = {} THEN 0 ELSE Max({c.last : c \in finalized})

\* The chunks of finalized/ hold what their names say and tile the chain from
\* block zero: whatever order passes, snaps, failures and Ctrl-C's come in,
\* write_chunks never leaves a hole, an overlap or a repeated block behind.
ChunksTile ==
    /\ \A c \in finalized : c.blocks = Run(c.first, c.last) /\ c.first <= c.last
    /\ \A c, d \in finalized : c # d => c.last < d.first \/ d.last < c.first
    /\ \A b \in 0 .. FinalBlock :
          finalized # {} => \E c \in finalized : c.first <= b /\ b <= c.last

\* There is one staging file, and <n>.txt holds the blocks from the end of the
\* finalized index to n, each once and in order, except while stage_chunks or
\* write_chunks are replacing it.
StageFollows ==
    pc \notin {"drop", "unstage", "rewrite"} =>
        /\ \A m, n \in Staged : m = n
        /\ \A n \in Staged : content[n] = Run(FinalBlock + 1, n)

IndexExactlyOnce == ChunksTile /\ StageFollows

\* A chunk has its bloom filter before it exists, and only a chunk whose own bloom
\* could not be opened goes without: acctExport finds chunks only through blooms/,
\* so a chunk without one is never searched.
ChunkHasBloom == \A c \in finalized : Name(c) \in blooms \cup unbloomed

\* Every chunk has its bloom filter.
\* The code does not keep this: README, section 5.
EveryChunkHasBloom == \A c \in finalized : Name(c) \in blooms

Old(b) == b = 0 \/ b + RipeDepth <= maxHead
AllOld(s) == \A i \in 1 .. Len(s) : Old(s[i])

\* Only blocks that were RipeDepth behind a head the node has reported are ever
\* staged or finalized: what a reorganisation near the head can still change
\* stays out of the index, even across crashes and re-syncs.
IndexOnlyRipe ==
    /\ \A c \in finalized : AllOld(c.blocks)
    /\ \A n \in Staged : AllOld(content[n])

\* The chunks the chain itself determines: the records carried over after block
\* b when a chunk is cut as soon as it has MaxRows records, and at every snap.
Carried ==
    LET f[b \in Block] ==
            IF b = 0 THEN 0
            ELSE LET n == f[b - 1] + Weight[b]
                 IN  IF n >= MaxRows \/ Snaps(b) THEN 0 ELSE n
    IN  f

\* However the passes fall, chunks are cut where the chain alone says: every
\* scraper of the same chain writes the same chunks (their hashes are shared).
ChunksCanonical ==
    \A c \in finalized :
        /\ Carried[c.last] = 0
        /\ \A b \in c.first .. c.last - 1 : Carried[b] # 0

\* No chunk reaches across a block that the index snaps to.
\* The code does not keep this: README, section 5.
ChunksSnapToGrid ==
    \A c \in finalized : \A b \in c.first .. c.last - 1 : ~ Snaps(b)

\* After blaze has succeeded, the files in unripe/ are of blocks that are not yet
\* ripe ("less than 28 blocks old").
\* The code does not keep this: README, section 5.
UnripeIsYoung ==
    pc = "copy" => \A b \in unripe : b > blazeRipe

\* The highest block that is in the index for good.
Top == Max({FinalBlock} \cup Staged)

\* The blocks indexed so far.  While write_chunks rewrites the stage, what is not
\* on disk is in its memory.
IndexedTo == IF pc = "rewrite" THEN newStage ELSE Top

Index == INSTANCE IndexSpec WITH chunks <- {Name(c) : c \in finalized},
                                 top <- IndexedTo

\* The scraper implements the index: seen from outside chunks are only ever
\* appended, in order and from what is staged, and no staged block is given up.
\* Every other step of a pass is invisible.
ImplementsIndex == Index!Spec

\* Once the node has reported head h the index gets to h - RipeDepth, unless the
\* node goes back.
CatchesUp ==
    \A h \in Block :
        (client = h) ~> (client < h \/ Top >= h - RipeDepth)

\* A stage "000000000.txt" beside an index that has gone beyond block zero: every
\* pass fetches the blocks after the index, finds that the first of them does not
\* follow block zero, and cleans up.
StuckAtZero == FinalBlock > 0 /\ 0 \in staging

\* The node went back behind the files that are in ripe/: nothing is done about
\* them before it has moved on.
RipeToHead == ripe # {} /\ Max(ripe) >= client

\* Failures of blaze and of files never keep the scraper from catching up.  A
\* Ctrl-C, an export or a re-sync can, but in these two ways only.
CatchesUpUnlessStuck ==
    \A h \in Block :
        (client = h) ~> \/ client < h
                        \/ Top >= h - RipeDepth
                        \/ disturbed /\ (StuckAtZero \/ RipeToHead)
=============================================================================
