---------------------------- MODULE SharedFiles -----------------------------
(***************************************************************************)
(* Files that one tool writes and another reads or rewrites: the manifest, *)
(* the names, the caches of blocks, transactions and traces, a chunk of    *)
(* the index, and the prices, which this module extends.  They are         *)
(* different files of different tools; part says which is looked at, and   *)
(* who uses it how.                                                        *)
(***************************************************************************)
EXTENDS PricesInUse

CONSTANTS
    Scraper, Initer, Readers,     \* who uses the manifest
    Published, Local,             \* the chunks of the published and the local manifest
    K, MaxTime,                   \* bounds: chunks, seconds
    TurnK, TurnTime,              \* bounds where one tool runs after the other
    ExportCommands, RacingCommands, BlockCommands, ToolCommands,
    MaxReorgs, RaceReorgs,        \* bounds: how often the block is replaced
    BlockKills,                   \* bound
    Part,
    Addrs, Prefunds, Values,      \* the names: addresses, those of the genesis block, names
    Editors, AnyEditors,          \* who edits them, with care and without
    NameCommands,
    MaxShipped, MaxCmds, EditTime, AnyTime,    \* bounds: names, commands, seconds
    Half, None,
    IndexAddrs, Apps, Bits,       \* the lines of a chunk, and the bits of an address
    MAX_ADDRS_IN_BLOOM, NOTIFY

VARIABLES
    text, textTime, pinsBin, binTime, pinned, cur, pins, item, buffer, got, clock, pc,
    chain, age, synced, blockFile, txFile, traceFile,
    tab, namesBin, date, lck, map, cmd, crud, cmds, pf, want,
    lines, lineNo, prev, offset, cnt, table, blockTable, blooms, search, lo, hi, items

-----------------------------------------------------------------------------
(* The manifest *)

\* The scraper pins while other tools read; pinning fails, and processes are killed.
Pinning == INSTANCE Manifest WITH
    Procs <- {Scraper} \cup Readers, PinFails <- TRUE, Concurrent <- TRUE, Torn <- FALSE,
    bin <- pinsBin

\* Scraper, tools and --init, one after the other.
InTurn == INSTANCE Manifest WITH
    Procs <- {Scraper, Initer} \cup Readers, PinFails <- TRUE, Concurrent <- FALSE, Torn <- FALSE,
    K <- TurnK, MaxTime <- TurnTime, MaxKills <- 0, bin <- pinsBin

ASSUME PinningConstants == Pinning!ManifestConstants
ASSUME InTurnConstants == InTurn!ManifestConstants

ManifestInit ==
    \/ part = "pinning" /\ Pinning!Init
    \/ part = "in turn" /\ InTurn!Init

ManifestNext ==
    \/ part = "pinning" /\ Pinning!Next
    \/ part = "in turn" /\ InTurn!Next

ManifestSpec == ManifestInit /\ [][ManifestNext /\ UNCHANGED part]_<<part, Pinning!vars>>

\* pinlib_pinChunk, visitToPin: whatever fails or is killed, a hash that is recorded is
\* of something the pinning service holds, and every chunk that the scraper is done with
\* has its line.  pinlib_readManifest: text or binary copy, a tool finds every chunk by
\* its name, and --init goes through the manifest it has downloaded.
ManifestKept ==
    /\ part = "pinning" => Pinning!TypeOK /\ Pinning!ManifestKept
    /\ part = "in turn" => InTurn!Findable /\ InTurn!FreshRead

-----------------------------------------------------------------------------
(* The names *)

\* Tools that edit a name with care, and others that read, one after the other.
Edits == INSTANCE Names WITH
    Commands <- NameCommands, Careful <- TRUE, Serial <- TRUE,
    MaxCmds <- 1, MaxKills <- 0, MaxClock <- EditTime,
    file <- tab, bin <- namesBin, Torn <- Half

\* Any edits while other tools read, and any of them killed.
AnyEdits == INSTANCE Names WITH
    Editors <- AnyEditors, Commands <- NameCommands, Careful <- FALSE, Serial <- FALSE,
    MaxClock <- AnyTime, file <- tab, bin <- namesBin, Torn <- Half

ASSUME EditsConstants == Edits!NamesConstants
ASSUME AnyEditsConstants == AnyEdits!NamesConstants

NamesInit ==
    \/ part = "edits" /\ Edits!Init
    \/ part = "any edits" /\ AnyEdits!Init

NamesNext ==
    \/ part = "edits" /\ Edits!Next
    \/ part = "any edits" /\ AnyEdits!Next

NamesSpec == NamesInit /\ [][NamesNext /\ UNCHANGED part]_<<part, Edits!vars>>

\* processEditCommand: each command takes effect, no other name changes or goes, and no
\* name is ever in the wrong file.
NamesAsWanted ==
    /\ part = "edits" => Edits!NamesAsWanted
    /\ part = "any edits" => AnyEdits!TypeOK

\* loadNames: a tool has the names of the text files, and a cache that is newer than
\* they are holds them.
NamesAreFresh == part = "edits" => Edits!CacheIsFresh /\ Edits!LoadsAreFresh

-----------------------------------------------------------------------------
(* The caches *)

\* One export after the other, while the block is replaced and gets older.
Exports == INSTANCE DataCache WITH
    Procs <- {Exporter}, Commands <- ExportCommands, MaxKills <- 0,
    MayDesync <- FALSE, Heavy <- FALSE, Big <- FALSE

\* Several of them at once, killed, and their node loses the block.
Racing == INSTANCE DataCache WITH
    Procs <- Users, Commands <- RacingCommands, MaxReorgs <- RaceReorgs,
    MayDesync <- TRUE, Heavy <- FALSE, Big <- FALSE

\* Several getBlocks at once, killed.
Blocks == INSTANCE DataCache WITH
    Procs <- Users, Commands <- BlockCommands, MaxReorgs <- 0, MaxKills <- BlockKills,
    MayDesync <- FALSE, Heavy <- FALSE, Big <- FALSE

\* Every tool; large files, killed while they are written.
Tools == INSTANCE DataCache WITH
    Procs <- {Exporter}, Commands <- ToolCommands, MaxReorgs <- RaceReorgs,
    MayDesync <- TRUE, Heavy <- FALSE, Big <- TRUE

ASSUME ExportsConstants == Exports!CacheConstants
ASSUME RacingConstants == Racing!CacheConstants
ASSUME BlocksConstants == Blocks!CacheConstants
ASSUME ToolsConstants == Tools!CacheConstants

\* Where exports are looked at getTrans only reads, and getBlocks, which may cache what is
\* not ripe, has its own file; where getBlocks is, no raw block is cached.
ASSUME CommandAssumption ==
    /\ \A c \in ExportCommands \cup RacingCommands :
          \/ c.tool = "export"
          \/ c.tool = "trans" /\ c.flags \subseteq {"trace"}
          \/ c.tool = "blocks" /\ c.flags \subseteq {"raw", "cache"}
    /\ \A c \in BlockCommands : c.tool = "blocks" => ~({"raw", "cache"} \subseteq c.flags)

CacheInit ==
    \/ part = "exports" /\ Exports!Init
    \/ part = "racing" /\ Racing!Init
    \/ part = "blocks" /\ Blocks!Init
    \/ part = "tools" /\ Tools!Init

CacheNext ==
    \/ part = "exports" /\ Exports!Next
    \/ part = "racing" /\ Racing!Next
    \/ part = "blocks" /\ Blocks!Next
    \/ part = "tools" /\ Tools!Next

CacheSpec == CacheInit /\ [][CacheNext /\ UNCHANGED part]_<<part, Exports!vars>>

\* loadTx_Func, getTransaction, loadTraces, queryBlock: what is shown is what is on the
\* chain, with receipt and traces, whoever cached it with which options; nothing of a
\* block that was replaced stays in acctExport's caches.
CachesTrue ==
    /\ part = "exports" => Exports!CachesTrue
    /\ part = "blocks" => Blocks!BlocksTrue
    /\ part = "racing" => Racing!NeverStale
    /\ part = "tools" => Tools!TypeOK

-----------------------------------------------------------------------------
(* A chunk of the index *)

\* The scraper writes it, the exporter looks an address up in it.
Chunk == INSTANCE ChunkFile WITH Addrs <- IndexAddrs, l <- lineNo

ASSUME ChunkConstants == Chunk!ChunkFileConstants

ChunkInit == part = "chunk" /\ Chunk!Init

ChunkNext == part = "chunk" /\ Chunk!Next

ChunkSpec == ChunkInit /\ [][ChunkNext /\ UNCHANGED part]_<<part, Chunk!vars>>

\* writeIndexAsBinary and visitBinaryFile together find for every address exactly its
\* appearances; the records of the table tile those that were written.
FindsExactly == part = "chunk" => Chunk!TypeOK /\ Chunk!Tiles /\ Chunk!FindsExactly
=============================================================================
