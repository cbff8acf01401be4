------------------------- MODULE SharedFiles_proofs -------------------------
(***************************************************************************)
(* The manifest, the caches, the names and a chunk as the tools use them.  *)
(* For the first two the theorems of Manifest_proofs and DataCache_proofs, *)
(* which hold for every value of their constants, are taken for each part; *)
(* the names and the chunk are proved about here.                          *)
(***************************************************************************)
EXTENDS SharedFiles, Sequences, FiniteSetTheorems, TLAPS

PinningThms == INSTANCE Manifest_proofs WITH
    Procs <- {Scraper} \cup Readers, PinFails <- TRUE, Concurrent <- TRUE, Torn <- FALSE,
    bin <- pinsBin

InTurnThms == INSTANCE Manifest_proofs WITH
    Procs <- {Scraper, Initer} \cup Readers, PinFails <- TRUE, Concurrent <- FALSE, Torn <- FALSE,
    K <- TurnK, MaxTime <- TurnTime, MaxKills <- 0, bin <- pinsBin

\* The copy that the theorems are about is the module that the part uses.
LEMMA PinningSame ==
    /\ PinningThms!ManifestConstants <=> Pinning!ManifestConstants
    /\ PinningThms!Init <=> Pinning!Init
    /\ PinningThms!Next <=> Pinning!Next
    /\ PinningThms!vars = Pinning!vars
<1> USE DEF Pinning!Tick, Pinning!Start, Pinning!ReadDates, Pinning!ReadBin, Pinning!ReadText,
       Pinning!updateManifest, Pinning!Save, Pinning!ReaderEnds, Pinning!FindChunk,
       Pinning!PinIndex, Pinning!PinBloom, Pinning!PushPin, Pinning!WriteLine,
       Pinning!Download, Pinning!Truncate, Pinning!Put, Pinning!ChunkTaken,
       Pinning!IniterEnds, Pinning!Kill, Pinning!At, Pinning!Goto, Pinning!MayStart,
       Pinning!Line, Pinning!LinesTo, Pinning!NewRecord, Pinning!Set, Pinning!Record,
       Pinning!textVars, Pinning!binVars, Pinning!scrapeVars, PinningThms!Tick,
       PinningThms!Start, PinningThms!ReadDates, PinningThms!ReadBin,
       PinningThms!ReadText, PinningThms!updateManifest, PinningThms!Save,
       PinningThms!ReaderEnds, PinningThms!FindChunk, PinningThms!PinIndex,
       PinningThms!PinBloom, PinningThms!PushPin, PinningThms!WriteLine,
       PinningThms!Download, PinningThms!Truncate, PinningThms!Put,
       PinningThms!ChunkTaken, PinningThms!IniterEnds, PinningThms!Kill, PinningThms!At,
       PinningThms!Goto, PinningThms!MayStart, PinningThms!Line, PinningThms!LinesTo,
       PinningThms!NewRecord, PinningThms!Set, PinningThms!Record, PinningThms!textVars,
       PinningThms!binVars, PinningThms!scrapeVars
<1>1. PinningThms!ManifestConstants <=> Pinning!ManifestConstants
  BY DEF PinningThms!ManifestConstants, Pinning!ManifestConstants
<1>2. PinningThms!Init <=> Pinning!Init
  BY DEF PinningThms!Init, Pinning!Init
<1>3. PinningThms!Next <=> Pinning!Next
  BY DEF PinningThms!Next, Pinning!Next
<1>4. PinningThms!vars = Pinning!vars
  BY DEF PinningThms!vars, Pinning!vars
<1>5. QED
  BY <1>1, <1>2, <1>3, <1>4

\* The copy that the theorems are about is the module that the part uses.
LEMMA InTurnSame ==
    /\ InTurnThms!ManifestConstants <=> InTurn!ManifestConstants
    /\ InTurnThms!Init <=> InTurn!Init
    /\ InTurnThms!Next <=> InTurn!Next
    /\ InTurnThms!vars = InTurn!vars
<1> USE DEF InTurn!Tick, InTurn!Start, InTurn!ReadDates, InTurn!ReadBin, InTurn!ReadText,
       InTurn!updateManifest, InTurn!Save, InTurn!ReaderEnds, InTurn!FindChunk,
       InTurn!PinIndex, InTurn!PinBloom, InTurn!PushPin, InTurn!WriteLine,
       InTurn!Download, InTurn!Truncate, InTurn!Put, InTurn!ChunkTaken, InTurn!IniterEnds,
       InTurn!Kill, InTurn!At, InTurn!Goto, InTurn!MayStart, InTurn!Line, InTurn!LinesTo,
       InTurn!NewRecord, InTurn!Set, InTurn!Record, InTurn!textVars, InTurn!binVars,
       InTurn!scrapeVars, InTurnThms!Tick, InTurnThms!Start, InTurnThms!ReadDates,
       InTurnThms!ReadBin, InTurnThms!ReadText, InTurnThms!updateManifest,
       InTurnThms!Save, InTurnThms!ReaderEnds, InTurnThms!FindChunk, InTurnThms!PinIndex,
       InTurnThms!PinBloom, InTurnThms!PushPin, InTurnThms!WriteLine, InTurnThms!Download,
       InTurnThms!Truncate, InTurnThms!Put, InTurnThms!ChunkTaken, InTurnThms!IniterEnds,
       InTurnThms!Kill, InTurnThms!At, InTurnThms!Goto, InTurnThms!MayStart,
       InTurnThms!Line, InTurnThms!LinesTo, InTurnThms!NewRecord, InTurnThms!Set,
       InTurnThms!Record, InTurnThms!textVars, InTurnThms!binVars, InTurnThms!scrapeVars
<1>1. InTurnThms!ManifestConstants <=> InTurn!ManifestConstants
  BY DEF InTurnThms!ManifestConstants, InTurn!ManifestConstants
<1>2. InTurnThms!Init <=> InTurn!Init
  BY DEF InTurnThms!Init, InTurn!Init
<1>3. InTurnThms!Next <=> InTurn!Next
  BY DEF InTurnThms!Next, InTurn!Next
<1>4. InTurnThms!vars = InTurn!vars
  BY DEF InTurnThms!vars, InTurn!vars
<1>5. QED
  BY <1>1, <1>2, <1>3, <1>4

\* The promises of the two copies are the same as well.
LEMMA PinningPromises ==
    PinningThms!TypeOK /\ PinningThms!ManifestKept <=> Pinning!TypeOK /\ Pinning!ManifestKept
  BY DEF PinningThms!TypeOK, Pinning!TypeOK, PinningThms!ManifestKept, Pinning!ManifestKept,
         PinningThms!PinsAreReal, Pinning!PinsAreReal, PinningThms!Recorded, Pinning!Recorded,
         PinningThms!Record, Pinning!Record, PinningThms!Set, Pinning!Set

LEMMA InTurnPromises ==
    InTurnThms!Findable /\ InTurnThms!FreshRead <=> InTurn!Findable /\ InTurn!FreshRead
  BY DEF InTurnThms!Findable, InTurn!Findable, InTurnThms!FreshRead, InTurn!FreshRead,
         InTurnThms!AllIdle, InTurn!AllIdle, InTurnThms!FoundByName, InTurn!FoundByName,
         InTurnThms!Set, InTurn!Set, InTurnThms!At, InTurn!At

\* pinlib_pinChunk, visitToPin, pinlib_readManifest: while the scraper pins and any number
\* of tools read, with failures of the pinning service and kills, recorded hashes are
\* real and no line is lost; one after the other, a tool finds every chunk by its name.
THEOREM ManifestHolds == ManifestSpec => []ManifestKept
<1>1. part = "pinning" /\ ManifestSpec => []ManifestKept
  <2>1. part = "pinning" /\ ManifestInit => PinningThms!Init
    BY PinningSame DEF ManifestInit
  <2>2. part = "pinning" /\ [ManifestNext /\ UNCHANGED part]_<<part, Pinning!vars>>
          => (part = "pinning")' /\ [PinningThms!Next]_(PinningThms!vars)
    BY PinningSame DEF ManifestNext, Pinning!vars, PinningThms!vars
  <2>3. PinningThms!Spec => [](PinningThms!TypeOK /\ PinningThms!ManifestKept)
    <3>1. PinningThms!ManifestConstants
      BY PinningConstants, PinningSame
    <3>2. Initer \notin {Scraper} \cup Readers
      BY PinningConstants DEF Pinning!ManifestConstants
    <3>3. PinningThms!Spec => [](PinningThms!TypeOK /\ PinningThms!PinsAreReal)
      BY <3>1, PinningThms!PinnedHashesAreReal
    <3>4. PinningThms!Spec => []PinningThms!ManifestKept
      BY <3>1, <3>2, PinningThms!ManifestIsKept
    <3>5. QED
      BY <3>3, <3>4, PTL
  <2>4. part = "pinning" /\ PinningThms!TypeOK /\ PinningThms!ManifestKept => ManifestKept
    BY PinningPromises DEF ManifestKept
  <2>5. QED
    BY <2>1, <2>2, <2>3, <2>4, PTL DEF ManifestSpec, PinningThms!Spec
<1>2. part = "in turn" /\ ManifestSpec => []ManifestKept
  <2>1. part = "in turn" /\ ManifestInit => InTurnThms!Init
    BY InTurnSame DEF ManifestInit
  <2>2. part = "in turn" /\ [ManifestNext /\ UNCHANGED part]_<<part, Pinning!vars>>
          => (part = "in turn")' /\ [InTurnThms!Next]_(InTurnThms!vars)
    BY InTurnSame DEF ManifestNext, Pinning!vars, InTurnThms!vars
  <2>3. InTurnThms!Spec => [](InTurnThms!Findable /\ InTurnThms!FreshRead)
    <3>1. InTurnThms!ManifestConstants
      BY InTurnConstants, InTurnSame
    <3>2. QED
      BY <3>1, InTurnThms!ChunksAreFound
  <2>4. part = "in turn" /\ InTurnThms!Findable /\ InTurnThms!FreshRead => ManifestKept
    BY InTurnPromises DEF ManifestKept
  <2>5. QED
    BY <2>1, <2>2, <2>3, <2>4, PTL DEF ManifestSpec, InTurnThms!Spec
<1>3. ManifestInit => part = "pinning" \/ part = "in turn"
  BY DEF ManifestInit
<1>4. QED
  BY <1>1, <1>2, <1>3, PTL DEF ManifestSpec

-----------------------------------------------------------------------------
(* The caches *)

ExportsThms == INSTANCE DataCache_proofs WITH
    Procs <- {Exporter}, Commands <- ExportCommands, MaxKills <- 0,
    MayDesync <- FALSE, Heavy <- FALSE, Big <- FALSE

RacingThms == INSTANCE DataCache_proofs WITH
    Procs <- Users, Commands <- RacingCommands, MaxReorgs <- RaceReorgs,
    MayDesync <- TRUE, Heavy <- FALSE, Big <- FALSE

BlocksThms == INSTANCE DataCache_proofs WITH
    Procs <- Users, Commands <- BlockCommands, MaxReorgs <- 0, MaxKills <- BlockKills,
    MayDesync <- FALSE, Heavy <- FALSE, Big <- FALSE

ToolsThms == INSTANCE DataCache_proofs WITH
    Procs <- {Exporter}, Commands <- ToolCommands, MaxReorgs <- RaceReorgs,
    MayDesync <- TRUE, Heavy <- FALSE, Big <- TRUE


\* The copy that the theorems are about is the module that the part uses.
LEMMA ExportsSame ==
    /\ ExportsThms!CacheConstants <=> Exports!CacheConstants
    /\ ExportsThms!Init <=> Exports!Init
    /\ ExportsThms!Next <=> Exports!Next
    /\ ExportsThms!CachesTrue <=> Exports!CachesTrue
<1> USE DEF Exports!Begin, Exports!FlagsOf, Exports!InBlockCache, Exports!IsBlockFinal,
       Exports!QueryBlock, Exports!OpenBlock, Exports!FillBlock, Exports!FromNode,
       Exports!GetTransaction, Exports!VisitTransaction, Exports!CacheTransaction,
       Exports!LoadTx, Exports!ExcludeTrace, Exports!TracesOf, Exports!LoadTraces,
       Exports!OpenTrace, Exports!FillTrace, Exports!Articulate, Exports!OpenTx,
       Exports!FillTx, Exports!Flush, Exports!CrashOnTorn, Exports!Kill, Exports!Reorg,
       Exports!Grow, Exports!Desync, Exports!At, Exports!Has, Exports!Goto,
       Exports!GotBlock, Exports!GotTx, Exports!ByNumber, Exports!Knows, Exports!Parsed,
       Exports!Torn, Exports!Versions, Exports!Nothing, Exports!Placeholder,
       Exports!BlockData, Exports!TxData, Exports!NullBlock, Exports!NullTx,
       Exports!world, Exports!files, ExportsThms!Begin, ExportsThms!FlagsOf,
       ExportsThms!InBlockCache, ExportsThms!IsBlockFinal, ExportsThms!QueryBlock,
       ExportsThms!OpenBlock, ExportsThms!FillBlock, ExportsThms!FromNode,
       ExportsThms!GetTransaction, ExportsThms!VisitTransaction,
       ExportsThms!CacheTransaction, ExportsThms!LoadTx, ExportsThms!ExcludeTrace,
       ExportsThms!TracesOf, ExportsThms!LoadTraces, ExportsThms!OpenTrace,
       ExportsThms!FillTrace, ExportsThms!Articulate, ExportsThms!OpenTx,
       ExportsThms!FillTx, ExportsThms!Flush, ExportsThms!CrashOnTorn, ExportsThms!Kill,
       ExportsThms!Reorg, ExportsThms!Grow, ExportsThms!Desync, ExportsThms!At,
       ExportsThms!Has, ExportsThms!Goto, ExportsThms!GotBlock, ExportsThms!GotTx,
       ExportsThms!ByNumber, ExportsThms!Knows, ExportsThms!Parsed, ExportsThms!Torn,
       ExportsThms!Versions, ExportsThms!Nothing, ExportsThms!Placeholder,
       ExportsThms!BlockData, ExportsThms!TxData, ExportsThms!NullBlock,
       ExportsThms!NullTx, ExportsThms!world, ExportsThms!files
<1>1. ExportsThms!CacheConstants <=> Exports!CacheConstants
  BY DEF ExportsThms!CacheConstants, Exports!CacheConstants
<1>2. ExportsThms!Init <=> Exports!Init
  BY DEF ExportsThms!Init, Exports!Init
<1>3. ExportsThms!Next <=> Exports!Next
  BY DEF ExportsThms!Next, Exports!Next
<1>4. ExportsThms!CachesTrue <=> Exports!CachesTrue
  BY DEF Exports!CachesTrue, Exports!TxsTrue, Exports!ReceiptsThere, Exports!TracesTrue,
         Exports!Answers, ExportsThms!CachesTrue, ExportsThms!TxsTrue,
         ExportsThms!ReceiptsThere, ExportsThms!TracesTrue, ExportsThms!Answers
<1>5. QED
  BY <1>1, <1>2, <1>3, <1>4

\* The copy that the theorems are about is the module that the part uses.
LEMMA RacingSame ==
    /\ RacingThms!CacheConstants <=> Racing!CacheConstants
    /\ RacingThms!Init <=> Racing!Init
    /\ RacingThms!Next <=> Racing!Next
    /\ RacingThms!NeverStale <=> Racing!NeverStale
<1> USE DEF Racing!Begin, Racing!FlagsOf, Racing!InBlockCache, Racing!IsBlockFinal,
       Racing!QueryBlock, Racing!OpenBlock, Racing!FillBlock, Racing!FromNode,
       Racing!GetTransaction, Racing!VisitTransaction, Racing!CacheTransaction,
       Racing!LoadTx, Racing!ExcludeTrace, Racing!TracesOf, Racing!LoadTraces,
       Racing!OpenTrace, Racing!FillTrace, Racing!Articulate, Racing!OpenTx,
       Racing!FillTx, Racing!Flush, Racing!CrashOnTorn, Racing!Kill, Racing!Reorg,
       Racing!Grow, Racing!Desync, Racing!At, Racing!Has, Racing!Goto, Racing!GotBlock,
       Racing!GotTx, Racing!ByNumber, Racing!Knows, Racing!Parsed, Racing!Torn,
       Racing!Versions, Racing!Nothing, Racing!Placeholder, Racing!BlockData,
       Racing!TxData, Racing!NullBlock, Racing!NullTx, Racing!world, Racing!files,
       RacingThms!Begin, RacingThms!FlagsOf, RacingThms!InBlockCache,
       RacingThms!IsBlockFinal, RacingThms!QueryBlock, RacingThms!OpenBlock,
       RacingThms!FillBlock, RacingThms!FromNode, RacingThms!GetTransaction,
       RacingThms!VisitTransaction, RacingThms!CacheTransaction, RacingThms!LoadTx,
       RacingThms!ExcludeTrace, RacingThms!TracesOf, RacingThms!LoadTraces,
       RacingThms!OpenTrace, RacingThms!FillTrace, RacingThms!Articulate,
       RacingThms!OpenTx, RacingThms!FillTx, RacingThms!Flush, RacingThms!CrashOnTorn,
       RacingThms!Kill, RacingThms!Reorg, RacingThms!Grow, RacingThms!Desync,
       RacingThms!At, RacingThms!Has, RacingThms!Goto, RacingThms!GotBlock,
       RacingThms!GotTx, RacingThms!ByNumber, RacingThms!Knows, RacingThms!Parsed,
       RacingThms!Torn, RacingThms!Versions, RacingThms!Nothing, RacingThms!Placeholder,
       RacingThms!BlockData, RacingThms!TxData, RacingThms!NullBlock, RacingThms!NullTx,
       RacingThms!world, RacingThms!files
<1>1. RacingThms!CacheConstants <=> Racing!CacheConstants
  BY DEF RacingThms!CacheConstants, Racing!CacheConstants
<1>2. RacingThms!Init <=> Racing!Init
  BY SMTT(40) DEF RacingThms!Init, Racing!Init
<1>3. RacingThms!Next <=> Racing!Next
  BY DEF RacingThms!Next, Racing!Next
<1>4. RacingThms!NeverStale <=> Racing!NeverStale
  BY DEF Racing!NeverStale, RacingThms!NeverStale
<1>5. QED
  BY <1>1, <1>2, <1>3, <1>4

\* The copy that the theorems are about is the module that the part uses.
LEMMA BlocksSame ==
    /\ BlocksThms!CacheConstants <=> Blocks!CacheConstants
    /\ BlocksThms!Init <=> Blocks!Init
    /\ BlocksThms!Next <=> Blocks!Next
    /\ BlocksThms!BlocksTrue <=> Blocks!BlocksTrue
<1> USE DEF Blocks!Begin, Blocks!FlagsOf, Blocks!InBlockCache, Blocks!IsBlockFinal,
       Blocks!QueryBlock, Blocks!OpenBlock, Blocks!FillBlock, Blocks!FromNode,
       Blocks!GetTransaction, Blocks!VisitTransaction, Blocks!CacheTransaction,
       Blocks!LoadTx, Blocks!ExcludeTrace, Blocks!TracesOf, Blocks!LoadTraces,
       Blocks!OpenTrace, Blocks!FillTrace, Blocks!Articulate, Blocks!OpenTx,
       Blocks!FillTx, Blocks!Flush, Blocks!CrashOnTorn, Blocks!Kill, Blocks!Reorg,
       Blocks!Grow, Blocks!Desync, Blocks!At, Blocks!Has, Blocks!Goto, Blocks!GotBlock,
       Blocks!GotTx, Blocks!ByNumber, Blocks!Knows, Blocks!Parsed, Blocks!Torn,
       Blocks!Versions, Blocks!Nothing, Blocks!Placeholder, Blocks!BlockData,
       Blocks!TxData, Blocks!NullBlock, Blocks!NullTx, Blocks!world, Blocks!files,
       BlocksThms!Begin, BlocksThms!FlagsOf, BlocksThms!InBlockCache,
       BlocksThms!IsBlockFinal, BlocksThms!QueryBlock, BlocksThms!OpenBlock,
       BlocksThms!FillBlock, BlocksThms!FromNode, BlocksThms!GetTransaction,
       BlocksThms!VisitTransaction, BlocksThms!CacheTransaction, BlocksThms!LoadTx,
       BlocksThms!ExcludeTrace, BlocksThms!TracesOf, BlocksThms!LoadTraces,
       BlocksThms!OpenTrace, BlocksThms!FillTrace, BlocksThms!Articulate,
       BlocksThms!OpenTx, BlocksThms!FillTx, BlocksThms!Flush, BlocksThms!CrashOnTorn,
       BlocksThms!Kill, BlocksThms!Reorg, BlocksThms!Grow, BlocksThms!Desync,
       BlocksThms!At, BlocksThms!Has, BlocksThms!Goto, BlocksThms!GotBlock,
       BlocksThms!GotTx, BlocksThms!ByNumber, BlocksThms!Knows, BlocksThms!Parsed,
       BlocksThms!Torn, BlocksThms!Versions, BlocksThms!Nothing, BlocksThms!Placeholder,
       BlocksThms!BlockData, BlocksThms!TxData, BlocksThms!NullBlock, BlocksThms!NullTx,
       BlocksThms!world, BlocksThms!files
<1>1. BlocksThms!CacheConstants <=> Blocks!CacheConstants
  BY SMTT(40) DEF BlocksThms!CacheConstants, Blocks!CacheConstants
<1>2. BlocksThms!Init <=> Blocks!Init
  BY DEF BlocksThms!Init, Blocks!Init
<1>3. BlocksThms!Next <=> Blocks!Next
  BY DEF BlocksThms!Next, Blocks!Next
<1>4. BlocksThms!BlocksTrue <=> Blocks!BlocksTrue
  BY DEF Blocks!BlocksTrue, Blocks!Answers, BlocksThms!BlocksTrue, BlocksThms!Answers
<1>5. QED
  BY <1>1, <1>2, <1>3, <1>4

\* The copy that the theorems are about is the module that the part uses.
LEMMA ToolsSame ==
    /\ ToolsThms!CacheConstants <=> Tools!CacheConstants
    /\ ToolsThms!Init <=> Tools!Init
    /\ ToolsThms!Next <=> Tools!Next
    /\ ToolsThms!TypeOK <=> Tools!TypeOK
<1> USE DEF Tools!Begin, Tools!FlagsOf, Tools!InBlockCache, Tools!IsBlockFinal,
       Tools!QueryBlock, Tools!OpenBlock, Tools!FillBlock, Tools!FromNode,
       Tools!GetTransaction, Tools!VisitTransaction, Tools!CacheTransaction, Tools!LoadTx,
       Tools!ExcludeTrace, Tools!TracesOf, Tools!LoadTraces, Tools!OpenTrace,
       Tools!FillTrace, Tools!Articulate, Tools!OpenTx, Tools!FillTx, Tools!Flush,
       Tools!CrashOnTorn, Tools!Kill, Tools!Reorg, Tools!Grow, Tools!Desync, Tools!At,
       Tools!Has, Tools!Goto, Tools!GotBlock, Tools!GotTx, Tools!ByNumber, Tools!Knows,
       Tools!Parsed, Tools!Torn, Tools!Versions, Tools!Nothing, Tools!Placeholder,
       Tools!BlockData, Tools!TxData, Tools!NullBlock, Tools!NullTx, Tools!world,
       Tools!files, ToolsThms!Begin, ToolsThms!FlagsOf, ToolsThms!InBlockCache,
       ToolsThms!IsBlockFinal, ToolsThms!QueryBlock, ToolsThms!OpenBlock,
       ToolsThms!FillBlock, ToolsThms!FromNode, ToolsThms!GetTransaction,
       ToolsThms!VisitTransaction, ToolsThms!CacheTransaction, ToolsThms!LoadTx,
       ToolsThms!ExcludeTrace, ToolsThms!TracesOf, ToolsThms!LoadTraces,
       ToolsThms!OpenTrace, ToolsThms!FillTrace, ToolsThms!Articulate, ToolsThms!OpenTx,
       ToolsThms!FillTx, ToolsThms!Flush, ToolsThms!CrashOnTorn, ToolsThms!Kill,
       ToolsThms!Reorg, ToolsThms!Grow, ToolsThms!Desync, ToolsThms!At, ToolsThms!Has,
       ToolsThms!Goto, ToolsThms!GotBlock, ToolsThms!GotTx, ToolsThms!ByNumber,
       ToolsThms!Knows, ToolsThms!Parsed, ToolsThms!Torn, ToolsThms!Versions,
       ToolsThms!Nothing, ToolsThms!Placeholder, ToolsThms!BlockData, ToolsThms!TxData,
       ToolsThms!NullBlock, ToolsThms!NullTx, ToolsThms!world, ToolsThms!files
<1>1. ToolsThms!CacheConstants <=> Tools!CacheConstants
  BY DEF ToolsThms!CacheConstants, Tools!CacheConstants
<1>2. ToolsThms!Init <=> Tools!Init
  BY DEF ToolsThms!Init, Tools!Init
<1>3. ToolsThms!Next <=> Tools!Next
  BY DEF ToolsThms!Next, Tools!Next
<1>4. ToolsThms!TypeOK <=> Tools!TypeOK
  BY DEF Tools!TypeOK, Tools!Labels, ToolsThms!TypeOK, ToolsThms!Labels
<1>5. QED
  BY <1>1, <1>2, <1>3, <1>4

\* loadTx_Func, getTransaction, loadTraces, queryBlock: for any options, any number of
\* processes, kills and replaced blocks, what a tool shows of a ripe block is what is on
\* the chain, and acctExport leaves nothing of a replaced block in its caches, in the
\* circumstances that SharedFiles names for each.
THEOREM CachesHold == CacheSpec => []CachesTrue
<1>1. part = "exports" /\ CacheSpec => []CachesTrue
  <2>1. part = "exports" /\ CacheInit => ExportsThms!Init
    BY ExportsSame DEF CacheInit
  <2>2. part = "exports" /\ [CacheNext /\ UNCHANGED part]_<<part, Exports!vars>>
          => (part = "exports")' /\ [ExportsThms!Next]_(ExportsThms!vars)
    BY ExportsSame DEF CacheNext, Exports!vars, ExportsThms!vars
  <2>3. ExportsThms!Spec => []ExportsThms!CachesTrue
    <3>1. ExportsThms!CacheConstants
      BY ExportsConstants, ExportsSame
    <3>2. ExportsThms!OnlyOne(Exporter)
      BY CommandAssumption DEF ExportsThms!OnlyOne, ExportsThms!OnlyExportsCache
    <3>3. ExportsThms!Spec => []ExportsThms!CachesTrue
      BY <3>1, <3>2, ExportsThms!ExportsShowTheChain
    <3>4. QED
      BY <3>3, PTL
  <2>4. part = "exports" /\ ExportsThms!CachesTrue => CachesTrue
    BY ExportsSame DEF CachesTrue
  <2>5. QED
    BY <2>1, <2>2, <2>3, <2>4, PTL DEF CacheSpec, ExportsThms!Spec
<1>2. part = "racing" /\ CacheSpec => []CachesTrue
  <2>1. part = "racing" /\ CacheInit => RacingThms!Init
    BY RacingSame DEF CacheInit
  <2>2. part = "racing" /\ [CacheNext /\ UNCHANGED part]_<<part, Exports!vars>>
          => (part = "racing")' /\ [RacingThms!Next]_(RacingThms!vars)
    BY RacingSame DEF CacheNext, Exports!vars, RacingThms!vars
  <2>3. RacingThms!Spec => []RacingThms!NeverStale
    <3>1. RacingThms!CacheConstants
      BY RacingConstants, RacingSame
    <3>2. RacingThms!OnlyExportsCache
      BY CommandAssumption DEF RacingThms!OnlyExportsCache
    <3>3. RacingThms!Spec => [](RacingThms!TypeOK /\ RacingThms!NeverStale)
      BY <3>1, <3>2, RacingThms!ExportsCacheNothingStale
    <3>4. QED
      BY <3>3, PTL
  <2>4. part = "racing" /\ RacingThms!NeverStale => CachesTrue
    BY RacingSame DEF CachesTrue
  <2>5. QED
    BY <2>1, <2>2, <2>3, <2>4, PTL DEF CacheSpec, RacingThms!Spec
<1>3. part = "blocks" /\ CacheSpec => []CachesTrue
  <2>1. part = "blocks" /\ CacheInit => BlocksThms!Init
    BY BlocksSame DEF CacheInit
  <2>2. part = "blocks" /\ [CacheNext /\ UNCHANGED part]_<<part, Exports!vars>>
          => (part = "blocks")' /\ [BlocksThms!Next]_(BlocksThms!vars)
    BY BlocksSame DEF CacheNext, Exports!vars, BlocksThms!vars
  <2>3. BlocksThms!Spec => []BlocksThms!BlocksTrue
    <3>1. BlocksThms!CacheConstants
      BY BlocksConstants, BlocksSame
    <3>2. BlocksThms!Settled
      BY CommandAssumption DEF BlocksThms!Settled
    <3>3. BlocksThms!Spec => []BlocksThms!BlocksTrue
      BY <3>1, <3>2, BlocksThms!BlocksShowTheChain
    <3>4. QED
      BY <3>3, PTL
  <2>4. part = "blocks" /\ BlocksThms!BlocksTrue => CachesTrue
    BY BlocksSame DEF CachesTrue
  <2>5. QED
    BY <2>1, <2>2, <2>3, <2>4, PTL DEF CacheSpec, BlocksThms!Spec
<1>4. part = "tools" /\ CacheSpec => []CachesTrue
  <2>1. part = "tools" /\ CacheInit => ToolsThms!Init
    BY ToolsSame DEF CacheInit
  <2>2. part = "tools" /\ [CacheNext /\ UNCHANGED part]_<<part, Exports!vars>>
          => (part = "tools")' /\ [ToolsThms!Next]_(ToolsThms!vars)
    BY ToolsSame DEF CacheNext, Exports!vars, ToolsThms!vars
  <2>3. ToolsThms!Spec => []ToolsThms!TypeOK
    <3>1. ToolsThms!CacheConstants
      BY ToolsConstants, ToolsSame
    <3>3. ToolsThms!Spec => []ToolsThms!TypeOK
      BY <3>1, ToolsThms!CacheTypesCorrect
    <3>4. QED
      BY <3>3, PTL
  <2>4. part = "tools" /\ ToolsThms!TypeOK => CachesTrue
    BY ToolsSame DEF CachesTrue
  <2>5. QED
    BY <2>1, <2>2, <2>3, <2>4, PTL DEF CacheSpec, ToolsThms!Spec
<1>5. CacheInit => \/ part = "exports" \/ part = "racing" \/ part = "blocks" \/ part = "tools"
  BY DEF CacheInit
<1>6. QED
  BY <1>1, <1>2, <1>3, <1>4, <1>5, PTL DEF CacheSpec

-----------------------------------------------------------------------------
(* The names *)

\* The lines of a text file: what a map says of one of the two, the prefunds left out.
Lines(m, to) == [a \in {x \in DOMAIN m : m[x].cus = to /\ ~m[x].pre} |-> m[a]]

\* A map that loadNames can have made: all the prefunds are in it, and only they are marked.
Whole(m) ==
    /\ m \in Edits!Maps
    /\ Prefunds \subseteq DOMAIN m
    /\ \A a \in DOMAIN m : m[a].pre => a \in Prefunds /\ m[a] = Edits!Prefund

\* A map is a function on addresses, and nothing else.
LEMMA MapIs ==
    ASSUME NEW m
    PROVE  m \in Edits!Maps <=> /\ DOMAIN m \subseteq Addrs
                                /\ m = [a \in DOMAIN m |-> m[a]]
                                /\ \A a \in DOMAIN m : m[a] \in Edits!Entry
<1>1. m \in Edits!Maps <=> \E S \in SUBSET Addrs : m \in [S -> Edits!Entry]
  BY DEF Edits!Maps
<1>2. QED
  BY <1>1

\* The fields of an entry.
LEMMA EntryIs ==
    ASSUME NEW e \in Edits!Entry
    PROVE  /\ e.val \in Values \cup {"Prefund"}
           /\ e.cus \in BOOLEAN /\ e.pre \in BOOLEAN /\ e.del \in BOOLEAN
           /\ e = [val |-> e.val, cus |-> e.cus, pre |-> e.pre, del |-> e.del]
           /\ e.cus = TRUE => [e EXCEPT !.cus = TRUE] = e
           /\ [e EXCEPT !.cus = TRUE] \in Edits!Entry
           /\ \A d \in BOOLEAN : [e EXCEPT !.del = d] \in Edits!Entry
BY DEF Edits!Entry

LEMMA PrefundIsEntry ==
    /\ Edits!Prefund \in Edits!Entry
    /\ Edits!Prefund.pre = TRUE
BY DEF Edits!Prefund, Edits!Entry

\* Merge, and so AddCustom and AddPrefunds, give maps.
LEMMA MergeGives ==
    ASSUME NEW m, NEW f
    PROVE  /\ DOMAIN Edits!Merge(m, f) = DOMAIN m \cup DOMAIN f
           /\ \A a \in DOMAIN m : Edits!Merge(m, f)[a] = m[a]
           /\ \A a \in DOMAIN f \ DOMAIN m : Edits!Merge(m, f)[a] = f[a]
           /\ Edits!Merge(m, f) = [a \in DOMAIN Edits!Merge(m, f) |-> Edits!Merge(m, f)[a]]
BY DEF Edits!Merge

LEMMA MergedMaps ==
    ASSUME NEW m \in Edits!Maps, NEW f \in Edits!Maps
    PROVE  Edits!Merge(m, f) \in Edits!Maps
<1> DEFINE g == Edits!Merge(m, f)
<1>1. /\ DOMAIN g = DOMAIN m \cup DOMAIN f
      /\ \A a \in DOMAIN m : g[a] = m[a]
      /\ \A a \in DOMAIN f \ DOMAIN m : g[a] = f[a]
      /\ g = [a \in DOMAIN g |-> g[a]]
  BY MergeGives
<1> HIDE DEF g
<1>2. /\ DOMAIN m \subseteq Addrs /\ \A a \in DOMAIN m : m[a] \in Edits!Entry
      /\ DOMAIN f \subseteq Addrs /\ \A a \in DOMAIN f : f[a] \in Edits!Entry
  BY MapIs
<1>3. g \in Edits!Maps
  BY <1>1, <1>2, MapIs
<1>4. QED
  BY <1>3 DEF g

LEMMA AddedMaps ==
    ASSUME NEW m \in Edits!Maps, NEW f \in Edits!Maps, Prefunds \subseteq Addrs
    PROVE  /\ Edits!AddCustom(m, f) \in Edits!Maps
           /\ Edits!AddPrefunds(m) \in Edits!Maps
<1> DEFINE c == [a \in DOMAIN f |-> [f[a] EXCEPT !.cus = TRUE]]
           d == [a \in Prefunds |-> Edits!Prefund]
<1>1. c \in Edits!Maps
  <2>1. DOMAIN f \subseteq Addrs /\ \A a \in DOMAIN f : f[a] \in Edits!Entry
    BY MapIs
  <2>2. \A a \in DOMAIN f : [f[a] EXCEPT !.cus = TRUE] \in Edits!Entry
    BY <2>1, EntryIs
  <2>3. DOMAIN c = DOMAIN f /\ (\A a \in DOMAIN c : c[a] \in Edits!Entry)
           /\ c = [a \in DOMAIN c |-> c[a]]
    BY <2>2
  <2>4. QED
    BY <2>1, <2>3, MapIs
<1>2. d \in Edits!Maps
  <2>1. DOMAIN d = Prefunds /\ (\A a \in DOMAIN d : d[a] \in Edits!Entry)
           /\ d = [a \in DOMAIN d |-> d[a]]
    BY PrefundIsEntry
  <2>2. QED
    BY <2>1, MapIs
<1>3. QED
  BY <1>1, <1>2, MergedMaps DEF Edits!AddCustom, Edits!AddPrefunds

\* What Lines has of a map.
LEMMA LinesOf ==
    ASSUME NEW m \in Edits!Maps, NEW to \in BOOLEAN
    PROVE  /\ Lines(m, to) \in Edits!Maps
           /\ DOMAIN Lines(m, to) = {x \in DOMAIN m : m[x].cus = to /\ ~m[x].pre}
           /\ \A a \in DOMAIN Lines(m, to) : Lines(m, to)[a] = m[a]
<1> DEFINE l == Lines(m, to)
<1>1. /\ DOMAIN l = {x \in DOMAIN m : m[x].cus = to /\ ~m[x].pre}
      /\ \A a \in DOMAIN l : l[a] = m[a]
      /\ l = [a \in DOMAIN l |-> l[a]]
  BY DEF Lines
<1>2. DOMAIN m \subseteq Addrs /\ \A a \in DOMAIN m : m[a] \in Edits!Entry
  BY MapIs
<1>3. l \in Edits!Maps
  <2> HIDE DEF l
  <2>1. DOMAIN l \subseteq Addrs /\ \A a \in DOMAIN l : l[a] \in Edits!Entry
    BY <1>1, <1>2
  <2>2. QED
    BY <2>1, <1>1, MapIs
<1>4. QED
  BY <1>1, <1>3

\* Two maps that say the same are the same.
LEMMA SameMap ==
    ASSUME NEW m, NEW n, m = [a \in DOMAIN m |-> m[a]], n = [a \in DOMAIN n |-> n[a]],
           DOMAIN m = DOMAIN n, \A a \in DOMAIN m : m[a] = n[a]
    PROVE  m = n
<1>1. m = [a \in DOMAIN n |-> n[a]]
  BY Zenon
<1>2. QED
  BY <1>1

\* What loadNames makes of two files, the second of which is marked custom.
LEMMA ViewIs ==
    ASSUME NEW f, f["regular"] \in Edits!Maps, f["custom"] \in Edits!Maps,
           \A a \in DOMAIN f["custom"] : f["custom"][a].cus = TRUE
    PROVE  /\ DOMAIN Edits!View(f) = DOMAIN f["regular"] \cup DOMAIN f["custom"] \cup Prefunds
           /\ \A a \in DOMAIN f["regular"] : Edits!View(f)[a] = f["regular"][a]
           /\ \A a \in DOMAIN f["custom"] \ DOMAIN f["regular"] :
                 Edits!View(f)[a] = f["custom"][a]
           /\ \A a \in Prefunds \ (DOMAIN f["regular"] \cup DOMAIN f["custom"]) :
                 Edits!View(f)[a] = Edits!Prefund
           /\ Edits!View(f) \in Edits!Maps
<1> DEFINE r == f["regular"]
           c == f["custom"]
           u == [a \in DOMAIN c |-> [c[a] EXCEPT !.cus = TRUE]]
           g == Edits!Merge(r, u)
           d == [a \in Prefunds |-> Edits!Prefund]
           v == Edits!Merge(g, d)
<1>1. c = [a \in DOMAIN c |-> c[a]] /\ \A a \in DOMAIN c : c[a] \in Edits!Entry
  BY MapIs
<1>2. u = c
  <2>1. \A a \in DOMAIN c : [c[a] EXCEPT !.cus = TRUE] = c[a]
    BY <1>1, EntryIs
  <2>2. DOMAIN u = DOMAIN c /\ \A a \in DOMAIN u : u[a] = c[a]
    BY <2>1
  <2>3. u = [a \in DOMAIN u |-> u[a]]
    OBVIOUS
  <2>4. QED
    BY <1>1, <2>2, <2>3, SameMap
<1>3. Edits!View(f) = v
  BY DEF Edits!View, Edits!AddRegular, Edits!AddCustom, Edits!AddPrefunds
<1>4. /\ DOMAIN g = DOMAIN r \cup DOMAIN c
      /\ \A a \in DOMAIN r : g[a] = r[a]
      /\ \A a \in DOMAIN c \ DOMAIN r : g[a] = c[a]
  BY <1>2 DEF Edits!Merge
<1> HIDE DEF u, g
<1>5. DOMAIN d = Prefunds /\ \A a \in Prefunds : d[a] = Edits!Prefund
  OBVIOUS
<1> HIDE DEF d
<1>6. /\ DOMAIN v = DOMAIN g \cup DOMAIN d
      /\ \A a \in DOMAIN g : v[a] = g[a]
      /\ \A a \in DOMAIN d \ DOMAIN g : v[a] = d[a]
  BY DEF Edits!Merge
<1>7. v \in Edits!Maps
  <2>1. Prefunds \subseteq Addrs
    BY EditsConstants DEF Edits!NamesConstants
  <2>2. Edits!AddCustom(r, c) \in Edits!Maps
    BY <2>1, AddedMaps
  <2>3. Edits!AddPrefunds(Edits!AddCustom(r, c)) \in Edits!Maps
    BY <2>1, <2>2, AddedMaps
  <2>4. QED
    BY <2>3, <1>3 DEF Edits!View, Edits!AddRegular
<1> HIDE DEF v
<1>8. QED
  BY <1>3, <1>4, <1>5, <1>6, <1>7

\* loadNames of the lines of a map gives the map again.
LEMMA ViewOfLines ==
    ASSUME NEW m, Whole(m), NEW f, f["regular"] = Lines(m, FALSE), f["custom"] = Lines(m, TRUE)
    PROVE  Edits!View(f) = m
<1> DEFINE r == f["regular"]
           c == f["custom"]
           v == Edits!View(f)
<1>1. m \in Edits!Maps /\ Prefunds \subseteq DOMAIN m
      /\ \A a \in DOMAIN m : m[a].pre => a \in Prefunds /\ m[a] = Edits!Prefund
  BY DEF Whole
<1>2. /\ m = [a \in DOMAIN m |-> m[a]]
      /\ \A a \in DOMAIN m : m[a].cus \in BOOLEAN /\ m[a].pre \in BOOLEAN
  BY <1>1, MapIs, EntryIs
<1>3. /\ r \in Edits!Maps
      /\ DOMAIN r = {x \in DOMAIN m : m[x].cus = FALSE /\ ~m[x].pre}
      /\ \A a \in DOMAIN r : r[a] = m[a]
  <2> HIDE DEF r
  <2>1. r = Lines(m, FALSE)
    BY DEF r
  <2>2. QED
    BY <1>1, <2>1, LinesOf
<1>4. /\ c \in Edits!Maps
      /\ DOMAIN c = {x \in DOMAIN m : m[x].cus = TRUE /\ ~m[x].pre}
      /\ \A a \in DOMAIN c : c[a] = m[a]
  <2> HIDE DEF c
  <2>1. c = Lines(m, TRUE)
    BY DEF c
  <2>2. QED
    BY <1>1, <2>1, LinesOf
<1>5. /\ DOMAIN v = DOMAIN r \cup DOMAIN c \cup Prefunds
      /\ \A a \in DOMAIN r : v[a] = r[a]
      /\ \A a \in DOMAIN c \ DOMAIN r : v[a] = c[a]
      /\ \A a \in Prefunds \ (DOMAIN r \cup DOMAIN c) : v[a] = Edits!Prefund
      /\ v \in Edits!Maps
  <2>1. \A a \in DOMAIN c : c[a].cus = TRUE
    BY <1>4
  <2>2. r \in Edits!Maps /\ c \in Edits!Maps
    BY <1>3, <1>4
  <2>3. QED
    BY <2>1, <2>2, ViewIs, Zenon
<1> HIDE DEF r, c, v
<1>6. DOMAIN v = DOMAIN m
  BY <1>1, <1>2, <1>3, <1>4, <1>5
<1>7. \A a \in DOMAIN m : v[a] = m[a]
  BY <1>1, <1>2, <1>3, <1>4, <1>5
<1>8. v = m
  <2>1. v = [a \in DOMAIN v |-> v[a]]
    BY <1>5, MapIs
  <2>2. QED
    BY <1>2, <1>6, <1>7, <2>1, SameMap
<1>9. QED
  BY <1>8 DEF v

\* What a command changes of a map.
LEMMA PutGives ==
    ASSUME NEW m \in Edits!Maps, NEW a \in Addrs, NEW e \in Edits!Entry
    PROVE  /\ Edits!Put(m, a, e) \in Edits!Maps
           /\ DOMAIN Edits!Put(m, a, e) = DOMAIN m \cup {a}
           /\ Edits!Put(m, a, e)[a] = e
           /\ \A x \in DOMAIN m \ {a} : Edits!Put(m, a, e)[x] = m[x]
<1> DEFINE g == Edits!Put(m, a, e)
<1>1. /\ DOMAIN g = DOMAIN m \cup {a}
      /\ g[a] = e
      /\ \A x \in DOMAIN m \ {a} : g[x] = m[x]
      /\ g = [x \in DOMAIN g |-> g[x]]
  BY DEF Edits!Put
<1>2. DOMAIN m \subseteq Addrs /\ \A x \in DOMAIN m : m[x] \in Edits!Entry
  BY MapIs
<1> HIDE DEF g
<1>3. DOMAIN g \subseteq Addrs /\ \A x \in DOMAIN g : g[x] \in Edits!Entry
  BY <1>1, <1>2
<1>4. g \in Edits!Maps
  BY <1>1, <1>3, MapIs
<1>5. QED
  BY <1>1, <1>4 DEF g

LEMMA WithoutGives ==
    ASSUME NEW m \in Edits!Maps, NEW a
    PROVE  [x \in DOMAIN m \ {a} |-> m[x]] \in Edits!Maps
<1> DEFINE g == [x \in DOMAIN m \ {a} |-> m[x]]
<1>1. DOMAIN g = DOMAIN m \ {a} /\ (\A x \in DOMAIN g : g[x] = m[x]) /\ g = [x \in DOMAIN g |-> g[x]]
  OBVIOUS
<1>2. DOMAIN m \subseteq Addrs /\ \A x \in DOMAIN m : m[x] \in Edits!Entry
  BY MapIs
<1> HIDE DEF g
<1>3. DOMAIN g \subseteq Addrs /\ \A x \in DOMAIN g : g[x] \in Edits!Entry
  BY <1>1, <1>2
<1>4. g \in Edits!Maps
  BY <1>1, <1>3, MapIs
<1>5. QED
  BY <1>4 DEF g

LEMMA DeletedGives ==
    ASSUME NEW m \in Edits!Maps, NEW a \in DOMAIN m, NEW d \in BOOLEAN
    PROVE  /\ [m EXCEPT ![a].del = d] \in Edits!Maps
           /\ DOMAIN [m EXCEPT ![a].del = d] = DOMAIN m
           /\ [m EXCEPT ![a].del = d][a].cus = m[a].cus
           /\ [m EXCEPT ![a].del = d][a].pre = m[a].pre
           /\ \A x \in DOMAIN m \ {a} : [m EXCEPT ![a].del = d][x] = m[x]
<1> DEFINE g == [m EXCEPT ![a].del = d]
<1>1. DOMAIN m \subseteq Addrs /\ \A x \in DOMAIN m : m[x] \in Edits!Entry
  BY MapIs
<1>2. /\ DOMAIN g = DOMAIN m
      /\ g[a] = [m[a] EXCEPT !.del = d]
      /\ \A x \in DOMAIN m \ {a} : g[x] = m[x]
      /\ g = [x \in DOMAIN g |-> g[x]]
  OBVIOUS
<1> HIDE DEF g
<1>3. m[a] \in Edits!Entry /\ [m[a] EXCEPT !.del = d] \in Edits!Entry
  BY <1>1, EntryIs
<1>4. [m[a] EXCEPT !.del = d].cus = m[a].cus /\ [m[a] EXCEPT !.del = d].pre = m[a].pre
  BY <1>3 DEF Edits!Entry
<1>5. DOMAIN g \subseteq Addrs /\ \A x \in DOMAIN g : g[x] \in Edits!Entry
  BY <1>1, <1>2, <1>3
<1>6. g \in Edits!Maps
  BY <1>2, <1>5, MapIs
<1>7. QED
  BY <1>2, <1>4, <1>6 DEF g

\* A command gives a map again.
LEMMA EditedIsMap ==
    ASSUME NEW p, NEW c \in NameCommands, map[p] \in Edits!Maps, pf[p] \in BOOLEAN
    PROVE  Edits!Edited(p, c) \in Edits!Maps
<1>1. c.addr \in Addrs /\ c.val \in Values /\ c.env \in BOOLEAN /\ c.to \in BOOLEAN
  BY EditsConstants DEF Edits!NamesConstants
<1>2. Edits!Target(p, c) \in Edits!Entry
  BY <1>1 DEF Edits!Target, Edits!Entry
<1>3. Edits!Put(map[p], c.addr, Edits!Target(p, c)) \in Edits!Maps
  BY <1>1, <1>2, PutGives
<1>4. [a \in DOMAIN map[p] \ {c.addr} |-> map[p][a]] \in Edits!Maps
  BY WithoutGives
<1>5. c.addr \in DOMAIN map[p] => [map[p] EXCEPT ![c.addr].del = (crud[p] = "delete")] \in Edits!Maps
  BY DeletedGives
<1>6. QED
  BY <1>3, <1>4, <1>5 DEF Edits!Edited

\* The lines are the same where the two maps have the same lines.
LEMMA SameLines ==
    ASSUME NEW m \in Edits!Maps, NEW n \in Edits!Maps, NEW to \in BOOLEAN,
           \A x : (x \in DOMAIN m /\ m[x].cus = to /\ ~m[x].pre)
                     <=> (x \in DOMAIN n /\ n[x].cus = to /\ ~n[x].pre),
           \A x \in DOMAIN m : m[x].cus = to /\ ~m[x].pre => m[x] = n[x]
    PROVE  Lines(m, to) = Lines(n, to)
<1>1. /\ DOMAIN Lines(m, to) = {x \in DOMAIN m : m[x].cus = to /\ ~m[x].pre}
      /\ \A a \in DOMAIN Lines(m, to) : Lines(m, to)[a] = m[a]
      /\ Lines(m, to) = [a \in DOMAIN Lines(m, to) |-> Lines(m, to)[a]]
  BY LinesOf, MapIs, ZenonT(60)
<1>2. /\ DOMAIN Lines(n, to) = {x \in DOMAIN n : n[x].cus = to /\ ~n[x].pre}
      /\ \A a \in DOMAIN Lines(n, to) : Lines(n, to)[a] = n[a]
      /\ Lines(n, to) = [a \in DOMAIN Lines(n, to) |-> Lines(n, to)[a]]
  BY LinesOf, MapIs
<1>3. DOMAIN Lines(m, to) = DOMAIN Lines(n, to)
  BY <1>1, <1>2
<1>4. \A a \in DOMAIN Lines(m, to) : Lines(m, to)[a] = Lines(n, to)[a]
  BY <1>1, <1>2, <1>3
<1>5. QED
  BY <1>1, <1>2, <1>3, <1>4, SameMap

\* processEditCommand of a careful user: the lines written are those of the names that the
\* user then wants, and the other file has those lines already.
LEMMA EditIsWanted ==
    ASSUME NEW p, NEW c \in NameCommands, Whole(want), map[p] = want,
           crud[p] = c.crud, pf[p] = FALSE, Edits!Proper(p, c)
    PROVE  /\ Whole(Edits!Wanted(c))
           /\ Edits!Output(p, c) = Lines(Edits!Wanted(c), c.to)
           /\ Lines(Edits!Wanted(c), ~c.to) = Lines(want, ~c.to)
<1> DEFINE E == Edits!Edited(p, c)
           W == Edits!Wanted(c)
           without == [a \in DOMAIN want \ {c.addr} |-> want[a]]
           given == [val |-> c.val, cus |-> c.to, pre |-> FALSE, del |-> FALSE]
<1>1. /\ c.addr \in Addrs /\ c.val \in Values /\ c.env \in BOOLEAN /\ c.to \in BOOLEAN
      /\ c.crud \in {"create", "update", "delete", "undelete", "remove"}
      /\ Prefunds \subseteq Addrs
  BY EditsConstants DEF Edits!NamesConstants
<1>2. /\ want \in Edits!Maps /\ Prefunds \subseteq DOMAIN want
      /\ \A a \in DOMAIN want : want[a].pre => a \in Prefunds /\ want[a] = Edits!Prefund
  BY DEF Whole
<1>3. \A a \in DOMAIN want : want[a] \in Edits!Entry /\ want[a].cus \in BOOLEAN /\ want[a].pre \in BOOLEAN
  BY <1>2, MapIs, EntryIs
<1>4. /\ c.env => c.to
      /\ c.addr \in DOMAIN want /\ ~want[c.addr].pre => want[c.addr].cus = c.to
      /\ c.crud \in {"delete", "undelete", "remove"} => c.addr \in DOMAIN want /\ ~want[c.addr].pre
  BY DEF Edits!Proper
<1>5. Edits!Target(p, c) = given
  <2>1. (c.env \/ c.to) = c.to
    BY <1>1, <1>4
  <2>2. (pf[p] /\ c.addr \in Prefunds) = FALSE
    OBVIOUS
  <2>3. QED
    BY <2>1, <2>2 DEF Edits!Target
<1>6. given \in Edits!Entry /\ given.pre = FALSE /\ given.cus = c.to
  BY <1>1 DEF Edits!Entry
<1>7. Edits!Output(p, c) = Lines(E, c.to)
  BY DEF Edits!Output, Lines
<1> HIDE DEF given
\* What the four kinds of commands have in common.
<1> DEFINE Common ==
      /\ E \in Edits!Maps
      /\ Whole(W)
      /\ \A x : (x \in DOMAIN E /\ ~E[x].pre) <=> (x \in DOMAIN W /\ ~W[x].pre)
      /\ \A x \in DOMAIN E : ~E[x].pre => E[x] = W[x]
      /\ \A x : x # c.addr => ((x \in DOMAIN W /\ ~W[x].pre) <=> (x \in DOMAIN want /\ ~want[x].pre))
      /\ \A x \in DOMAIN want : x # c.addr /\ ~want[x].pre => W[x] = want[x]
      /\ c.addr \in DOMAIN W /\ ~W[c.addr].pre => W[c.addr].cus = c.to
<1>8. ASSUME c.crud = "remove"
      PROVE  Common
  <2>1. E = without /\ W = Edits!AddPrefunds(without)
    BY <1>8 DEF Edits!Edited, Edits!Wanted
  <2>2. without \in Edits!Maps /\ DOMAIN without = DOMAIN want \ {c.addr}
        /\ \A x \in DOMAIN without : without[x] = want[x]
    BY <1>2, WithoutGives
  <2> HIDE DEF without
  <2>3. W \in Edits!Maps
    BY <1>1, <2>1, <2>2, AddedMaps
  <2> DEFINE d == [a \in Prefunds |-> Edits!Prefund]
  <2>4. DOMAIN d = Prefunds /\ \A x \in Prefunds : d[x] = Edits!Prefund
    OBVIOUS
  <2>5. Edits!AddPrefunds(without) = Edits!Merge(without, d)
    BY DEF Edits!AddPrefunds
  <2> HIDE DEF d
  <2>6. /\ DOMAIN W = DOMAIN without \cup Prefunds
        /\ \A x \in DOMAIN without : W[x] = without[x]
        /\ \A x \in Prefunds \ DOMAIN without : W[x] = Edits!Prefund
    <3> DEFINE v == Edits!Merge(without, d)
    <3>1. /\ DOMAIN v = DOMAIN without \cup DOMAIN d
          /\ \A x \in DOMAIN without : v[x] = without[x]
          /\ \A x \in DOMAIN d \ DOMAIN without : v[x] = d[x]
          /\ v = [x \in DOMAIN v |-> v[x]]
      BY MergeGives, Zenon
    <3>2. W = v
      BY <2>1, <2>5
    <3> HIDE DEF v, W
    <3>3. QED
      BY <3>1, <3>2, <2>4
  <2> HIDE DEF E, W
  <2>7. Whole(W)
    BY <1>2, <2>2, <2>3, <2>6 DEF Whole
  <2>8. Common
    BY <1>2, <1>3, <1>4, <1>8, <2>1, <2>2, <2>6, <2>7, PrefundIsEntry
  <2>9. QED
    BY <2>8
<1>9. ASSUME c.crud \in {"delete", "undelete"}
      PROVE  Common
  <2>1. c.addr \in DOMAIN want /\ ~want[c.addr].pre /\ want[c.addr].cus = c.to
    BY <1>4, <1>9
  <2> DEFINE b == (c.crud = "delete")
             g == [want EXCEPT ![c.addr].del = b]
  <2>2. E = g /\ W = g
    BY <1>9, <2>1 DEF Edits!Edited, Edits!Wanted
  <2>3. /\ g \in Edits!Maps /\ DOMAIN g = DOMAIN want
        /\ g[c.addr].cus = want[c.addr].cus /\ g[c.addr].pre = want[c.addr].pre
        /\ \A x \in DOMAIN want \ {c.addr} : g[x] = want[x]
    <3>1. b \in BOOLEAN
      OBVIOUS
    <3> HIDE DEF b
    <3>2. QED
      BY <1>2, <2>1, <3>1, DeletedGives
  <2> HIDE DEF g, E, W
  <2>4. Whole(W)
    BY <1>2, <2>1, <2>2, <2>3 DEF Whole
  <2>5. Common
    BY <2>1, <2>2, <2>3, <2>4
  <2>6. QED
    BY <2>5
<1>10. ASSUME c.crud = "create" \/ (c.crud = "update" /\ c.addr \in DOMAIN want)
      PROVE  Common
  <2> DEFINE g == Edits!Put(want, c.addr, given)
  <2>1. E = g
    BY <1>5, <1>10 DEF Edits!Edited
  <2>2. W = g
    BY <1>10 DEF Edits!Wanted, given
  <2>3. /\ g \in Edits!Maps
        /\ DOMAIN g = DOMAIN want \cup {c.addr}
        /\ g[c.addr] = given
        /\ \A x \in DOMAIN want \ {c.addr} : g[x] = want[x]
    <3>1. want \in Edits!Maps /\ c.addr \in Addrs /\ given \in Edits!Entry
      BY <1>1, <1>2, <1>6
    <3> HIDE DEF given
    <3>2. QED
      BY <3>1, PutGives
  <2> HIDE DEF g, E, W
  <2>4. Whole(W)
    BY <1>2, <1>6, <2>2, <2>3 DEF Whole
  <2>5. Common
    BY <1>6, <2>1, <2>2, <2>3, <2>4
  <2>6. QED
    BY <2>5
<1>11. ASSUME c.crud = "update" /\ c.addr \notin DOMAIN want
      PROVE  Common
  <2>1. E = want /\ W = want
    BY <1>11 DEF Edits!Edited, Edits!Wanted
  <2> HIDE DEF E, W
  <2>2. Common
    BY <1>2, <1>11, <2>1
  <2>3. QED
    BY <2>2
<1>12. Common
  BY <1>1, <1>8, <1>9, <1>10, <1>11
<1> HIDE DEF E, W
<1>13. W \in Edits!Maps
  BY <1>12 DEF Whole
<1>14. \A x \in DOMAIN W : W[x].cus \in BOOLEAN /\ W[x].pre \in BOOLEAN
  BY <1>13, MapIs, EntryIs
<1>15. Lines(E, c.to) = Lines(W, c.to)
  <2>1. \A x : (x \in DOMAIN E /\ E[x].cus = c.to /\ ~E[x].pre)
                     <=> (x \in DOMAIN W /\ W[x].cus = c.to /\ ~W[x].pre)
    BY <1>12
  <2>2. \A x \in DOMAIN E : E[x].cus = c.to /\ ~E[x].pre => E[x] = W[x]
    BY <1>12
  <2>3. QED
    BY <1>1, <1>12, <1>13, <2>1, <2>2, SameLines
<1>16. Lines(W, ~c.to) = Lines(want, ~c.to)
  <2> DEFINE to == ~c.to
  <2>0. to \in BOOLEAN /\ to # c.to
    BY <1>1
  <2> HIDE DEF to
  <2>1. \A x : (x \in DOMAIN W /\ W[x].cus = to /\ ~W[x].pre)
                     <=> (x \in DOMAIN want /\ want[x].cus = to /\ ~want[x].pre)
    BY <1>4, <1>12, <2>0
  <2>2. \A x \in DOMAIN W : W[x].cus = to /\ ~W[x].pre => W[x] = want[x]
    BY <1>4, <1>12, <2>0
  <2>3. Lines(W, to) = Lines(want, to)
    BY <1>2, <1>13, <2>0, <2>1, <2>2, SameLines
  <2>4. QED
    BY <2>3 DEF to
<1>17. QED
  BY <1>7, <1>12, <1>15, <1>16 DEF E, W

-----------------------------------------------------------------------------
(* Careful edits, one tool after the other: the inductive invariant *)

Resting == {"off", "done"}
Places == Resting \cup {"dates", "bin", "regular", "custom", "cutbin", "fillbin", "ready",
                        "cuttext", "puttext", "rmbin"}

EditTypes ==
    /\ tab \in [Edits!Files -> Edits!Maps \cup {Half}]
    /\ pc \in [Edits!Procs -> Places]
    /\ map \in [Edits!Procs -> Edits!Maps]
    /\ DOMAIN cmd = Edits!Procs /\ DOMAIN crud = Edits!Procs
    /\ cmds \in [Edits!Procs -> Nat]
    /\ DOMAIN pf = Edits!Procs
    /\ kills = 0
    /\ Whole(want)
    /\ \A p \in Edits!Procs : cmds[p] = 0 => crud[p] = "none" /\ pf[p] = FALSE

\* The two text files hold what the user wants; so does the cache, if there is one.
TextSays(m) == tab["regular"] = Lines(m, FALSE) /\ tab["custom"] = Lines(m, TRUE)
CacheSays == namesBin \in {None, want}

\* One text file is cut, the other one holds what the user wants.
HalfWritten(to) ==
    /\ tab[IF to THEN "custom" ELSE "regular"] = Half
    /\ tab[IF to THEN "regular" ELSE "custom"] = Lines(want, ~to)

\* What holds of the files, and of the map and the command of a process, at each place.
AtPlace(p) ==
    /\ pc[p] \notin {"puttext", "rmbin"} => TextSays(want) /\ lck = {}
    /\ pc[p] # "fillbin" => CacheSays
    /\ pc[p] = "bin" => namesBin = want
    /\ pc[p] = "custom" => map[p] = Lines(want, FALSE)
    /\ pc[p] \in {"cutbin", "fillbin", "ready", "cuttext", "puttext", "rmbin"} => map[p] = want
    /\ pc[p] \in {"cuttext", "puttext", "rmbin"} =>
         /\ cmd[p] \in NameCommands /\ crud[p] = cmd[p].crud /\ pf[p] = FALSE
         /\ Edits!Proper(p, cmd[p])
    /\ pc[p] = "puttext" => HalfWritten(cmd[p].to) /\ lck = {Edits!Dest(cmd[p])}
    /\ pc[p] = "rmbin" => TextSays(Edits!Wanted(cmd[p])) /\ lck = {}

\* Only one tool runs; when none does, the files are at rest.
EditInv ==
    /\ EditTypes
    /\ \A p, q \in Edits!Procs : pc[p] \notin Resting /\ pc[q] \notin Resting => p = q
    /\ \A p \in Edits!Procs : pc[p] \notin Resting => AtPlace(p)
    /\ (\A p \in Edits!Procs : pc[p] \in Resting) => TextSays(want) /\ lck = {} /\ CacheSays

\* loadNames of two files that share no address, each with its own mark: the names that it
\* makes of them have the lines of the two.
LEMMA LinesOfView ==
    ASSUME NEW f, f["regular"] \in Edits!Maps, f["custom"] \in Edits!Maps,
           \A a \in DOMAIN f["regular"] : f["regular"][a].cus = FALSE /\ f["regular"][a].pre = FALSE,
           \A a \in DOMAIN f["custom"] : f["custom"][a].cus = TRUE /\ f["custom"][a].pre = FALSE,
           DOMAIN f["regular"] \cap DOMAIN f["custom"] = {}
    PROVE  /\ Whole(Edits!View(f))
           /\ Lines(Edits!View(f), FALSE) = f["regular"]
           /\ Lines(Edits!View(f), TRUE) = f["custom"]
<1> DEFINE r == f["regular"]
           c == f["custom"]
           v == Edits!View(f)
<1>1. Edits!Prefund \in Edits!Entry /\ Edits!Prefund.pre = TRUE
  BY PrefundIsEntry
<1>2. /\ DOMAIN v = DOMAIN r \cup DOMAIN c \cup Prefunds
      /\ \A a \in DOMAIN r : v[a] = r[a]
      /\ \A a \in DOMAIN c \ DOMAIN r : v[a] = c[a]
      /\ \A a \in Prefunds \ (DOMAIN r \cup DOMAIN c) : v[a] = Edits!Prefund
      /\ v \in Edits!Maps
  <2>1. \A a \in DOMAIN c : c[a].cus = TRUE
    OBVIOUS
  <2>2. QED
    BY <2>1, ViewIs, Zenon
<1> HIDE DEF v
<1>3. /\ \A a \in DOMAIN r : v[a].cus = FALSE /\ ~v[a].pre
      /\ \A a \in DOMAIN c : v[a] = c[a] /\ v[a].cus = TRUE /\ ~v[a].pre
      /\ \A a \in DOMAIN v : ~v[a].pre => a \in DOMAIN r \cup DOMAIN c
      /\ \A a \in DOMAIN v : v[a].pre => a \in Prefunds /\ v[a] = Edits!Prefund
  BY <1>1, <1>2
<1>5. Whole(v)
  BY <1>2, <1>3 DEF Whole
<1>6. Lines(v, FALSE) = r
  <2> DEFINE l == Lines(v, FALSE)
  <2>1. /\ DOMAIN l = {x \in DOMAIN v : v[x].cus = FALSE /\ ~v[x].pre}
        /\ \A a \in DOMAIN l : l[a] = v[a]
        /\ l \in Edits!Maps
    BY <1>2, LinesOf
  <2>2. l = [a \in DOMAIN l |-> l[a]] /\ r = [a \in DOMAIN r |-> r[a]]
    BY <2>1, MapIs
  <2> HIDE DEF l
  <2>3. DOMAIN l = DOMAIN r /\ \A a \in DOMAIN l : l[a] = r[a]
    <3>1. \A x : x \in DOMAIN l <=> x \in DOMAIN r
      BY <1>2, <1>3, <2>1
    <3>2. QED
      BY <1>2, <1>3, <2>1, <3>1
  <2>4. l = r
    BY <2>2, <2>3, SameMap
  <2>5. QED
    BY <2>4 DEF l
<1>7. Lines(v, TRUE) = c
  <2> DEFINE l == Lines(v, TRUE)
  <2>1. /\ DOMAIN l = {x \in DOMAIN v : v[x].cus = TRUE /\ ~v[x].pre}
        /\ \A a \in DOMAIN l : l[a] = v[a]
        /\ l \in Edits!Maps
    BY <1>2, LinesOf
  <2>2. l = [a \in DOMAIN l |-> l[a]] /\ c = [a \in DOMAIN c |-> c[a]]
    BY <2>1, MapIs
  <2> HIDE DEF l
  <2>3. DOMAIN l = DOMAIN c /\ \A a \in DOMAIN l : l[a] = c[a]
    <3>1. \A x : x \in DOMAIN l <=> x \in DOMAIN c
      BY <1>2, <1>3, <2>1
    <3>2. QED
      BY <1>2, <1>3, <2>1, <3>1
  <2>4. l = c
    BY <2>2, <2>3, SameMap
  <2>5. QED
    BY <2>4 DEF l
<1>8. QED
  BY <1>5, <1>6, <1>7 DEF v

\* The empty map.
LEMMA NoNamesIsMap == Edits!NoNames \in Edits!Maps
<1>1. DOMAIN Edits!NoNames = {} /\ Edits!NoNames = [a \in DOMAIN Edits!NoNames |-> Edits!NoNames[a]]
  BY DEF Edits!NoNames
<1>2. QED
  BY <1>1, MapIs

LEMMA EditStarts == Edits!Init => EditInv
<1> SUFFICES ASSUME Edits!Init PROVE EditInv
  OBVIOUS
<1> DEFINE r == tab["regular"]
           c == tab["custom"]
<1>1. /\ r \in Edits!Maps /\ c \in Edits!Maps
      /\ tab = [regular |-> r, custom |-> c]
      /\ \A a \in DOMAIN r : ~r[a].cus /\ ~r[a].pre
      /\ \A a \in DOMAIN c : c[a].cus /\ ~c[a].pre
      /\ DOMAIN r \cap DOMAIN c = {}
  BY DEF Edits!Init, Edits!Shipped
<1>2. /\ \A a \in DOMAIN r : r[a].cus = FALSE /\ r[a].pre = FALSE
      /\ \A a \in DOMAIN c : c[a].cus = TRUE /\ c[a].pre = FALSE
  <2>1. /\ \A a \in DOMAIN r : r[a].cus \in BOOLEAN /\ r[a].pre \in BOOLEAN
        /\ \A a \in DOMAIN c : c[a].cus \in BOOLEAN /\ c[a].pre \in BOOLEAN
    BY <1>1, MapIs, EntryIs
  <2>2. QED
    BY <1>1, <2>1
<1>3. want = Edits!View(tab)
  BY DEF Edits!Init
<1>4. /\ Whole(want)
      /\ Lines(want, FALSE) = r
      /\ Lines(want, TRUE) = c
  BY <1>1, <1>2, <1>3, LinesOfView
<1>5. tab \in [Edits!Files -> Edits!Maps \cup {Half}]
  BY <1>1 DEF Edits!Files
<1>6. EditTypes
  BY <1>4, <1>5, NoNamesIsMap DEF EditTypes, Edits!Init, Places, Resting
<1>7. TextSays(want) /\ lck = {} /\ CacheSays
  BY <1>4 DEF TextSays, CacheSays, Edits!Init
<1>8. \A p \in Edits!Procs : pc[p] \in Resting
  BY DEF Edits!Init, Resting
<1>9. QED
  BY <1>6, <1>7, <1>8 DEF EditInv

\* It is enough to look at the process that has made a step.
LEMMA EditConclude ==
    ASSUME NEW p \in Edits!Procs, EditTypes', AtPlace(p)',
           \A q \in Edits!Procs \ {p} : pc'[q] \in Resting
    PROVE  EditInv'
<1>1. \A q, s \in Edits!Procs : pc'[q] \notin Resting /\ pc'[s] \notin Resting => q = s
  OBVIOUS
<1>2. \A q \in Edits!Procs : pc'[q] \notin Resting => AtPlace(q)'
  <2> SUFFICES ASSUME NEW q \in Edits!Procs, pc'[q] \notin Resting PROVE AtPlace(q)'
    OBVIOUS
  <2>1. q = p
    OBVIOUS
  <2>2. QED
    BY <2>1
<1>3. (\A q \in Edits!Procs : pc'[q] \in Resting) => (TextSays(want) /\ lck = {} /\ CacheSays)'
  BY DEF AtPlace, Resting
<1>4. QED
  BY <1>1, <1>2, <1>3 DEF EditInv

\* What is known of the process that makes a step, and of the others.
LEMMA EditAlone ==
    ASSUME EditInv, NEW p \in Edits!Procs, pc[p] \notin Resting, NEW s \in Places,
           pc' = [pc EXCEPT ![p] = s]
    PROVE  /\ AtPlace(p)
           /\ pc' \in [Edits!Procs -> Places] /\ pc'[p] = s
           /\ \A q \in Edits!Procs \ {p} : pc'[q] \in Resting
BY DEF EditInv, EditTypes

\* The steps of loadNames.
LEMMA EditStart ==
    ASSUME EditInv, NEW p \in Edits!Procs, Edits!Start(p)
    PROVE  EditInv'
<1> USE DEF Edits!Start
<1>1. \A q \in Edits!Procs : pc[q] \in Resting
  BY DEF Resting
<1>2. TextSays(want) /\ lck = {} /\ CacheSays
  BY <1>1 DEF EditInv
<1>3. /\ pc' \in [Edits!Procs -> Places] /\ pc'[p] = "dates"
      /\ \A q \in Edits!Procs \ {p} : pc'[q] \in Resting
  BY <1>1 DEF EditInv, EditTypes, Places
<1>4. EditTypes'
  BY <1>3 DEF EditInv, EditTypes, Whole
<1>5. AtPlace(p)'
  BY <1>2, <1>3 DEF AtPlace, TextSays, CacheSays
<1>6. QED
  BY <1>3, <1>4, <1>5, EditConclude

LEMMA EditDates ==
    ASSUME EditInv, NEW p \in Edits!Procs, Edits!Dates(p)
    PROVE  EditInv'
<1> DEFINE s == IF Edits!BinIsNewer THEN "bin" ELSE "regular"
<1>1. pc[p] = "dates" /\ pc' = [pc EXCEPT ![p] = s] /\ s \in Places
      /\ UNCHANGED <<tab, namesBin, lck, map, cmd, crud, cmds, pf, kills, want>>
  BY DEF Edits!Dates, Places
<1>2. Edits!BinIsNewer => namesBin # None
  BY DEF Edits!BinIsNewer
<1> DEFINE n == Edits!BinIsNewer
<1> HIDE DEF n
<1>3. s = (IF n THEN "bin" ELSE "regular") /\ (n => namesBin # None)
  BY <1>2 DEF n
<1> HIDE DEF s
<1>4. /\ AtPlace(p)
      /\ pc' \in [Edits!Procs -> Places] /\ pc'[p] = s
      /\ \A q \in Edits!Procs \ {p} : pc'[q] \in Resting
  BY <1>1, EditAlone DEF Resting
<1>5. EditTypes'
  BY <1>1, <1>4 DEF EditInv, EditTypes, Whole
<1>6. AtPlace(p)'
  BY <1>1, <1>3, <1>4 DEF AtPlace, TextSays, CacheSays
<1>7. QED
  BY <1>4, <1>5, <1>6, EditConclude

LEMMA EditReadBin ==
    ASSUME EditInv, NEW p \in Edits!Procs, Edits!ReadBin(p)
    PROVE  EditInv'
<1>1. pc[p] = "bin" /\ UNCHANGED <<tab, namesBin, lck, cmd, crud, cmds, pf, kills, want>>
  BY DEF Edits!ReadBin
<1>2. AtPlace(p)
  BY <1>1 DEF EditInv, Resting
<1>3. namesBin = want /\ want \in Edits!Maps
  BY <1>1, <1>2 DEF AtPlace, EditInv, EditTypes, Whole
<1>4. namesBin # None /\ namesBin # Half
  BY <1>3, EditsConstants DEF Edits!NamesConstants
<1>5. map' = [map EXCEPT ![p] = want] /\ pc' = [pc EXCEPT ![p] = "ready"]
  BY <1>3, <1>4 DEF Edits!ReadBin
<1>6. /\ pc' \in [Edits!Procs -> Places] /\ pc'[p] = "ready"
      /\ \A q \in Edits!Procs \ {p} : pc'[q] \in Resting
  BY <1>1, <1>5, EditAlone DEF Resting, Places
<1>7. map' \in [Edits!Procs -> Edits!Maps] /\ map'[p] = want
  BY <1>3, <1>5 DEF EditInv, EditTypes
<1>8. EditTypes'
  BY <1>1, <1>6, <1>7 DEF EditInv, EditTypes, Whole
<1>9. AtPlace(p)'
  BY <1>1, <1>2, <1>6, <1>7 DEF AtPlace, TextSays, CacheSays
<1>10. QED
  BY <1>6, <1>8, <1>9, EditConclude

LEMMA EditReadRegular ==
    ASSUME EditInv, NEW p \in Edits!Procs, Edits!ReadRegular(p)
    PROVE  EditInv'
<1>1. pc[p] = "regular" /\ UNCHANGED <<tab, namesBin, lck, cmd, crud, cmds, pf, kills, want>>
  BY DEF Edits!ReadRegular
<1>2. AtPlace(p)
  BY <1>1 DEF EditInv, Resting
<1>3. tab["regular"] = Lines(want, FALSE)
  BY <1>1, <1>2 DEF AtPlace, TextSays
<1>4. Lines(want, FALSE) \in Edits!Maps /\ Lines(want, FALSE) # Half
  <2>1. want \in Edits!Maps
    BY DEF EditInv, EditTypes, Whole
  <2>2. QED
    BY <2>1, LinesOf, EditsConstants DEF Edits!NamesConstants
<1>5. map' = [map EXCEPT ![p] = Lines(want, FALSE)] /\ pc' = [pc EXCEPT ![p] = "custom"]
  BY <1>3, <1>4 DEF Edits!ReadRegular, Edits!AddRegular
<1>6. /\ pc' \in [Edits!Procs -> Places] /\ pc'[p] = "custom"
      /\ \A q \in Edits!Procs \ {p} : pc'[q] \in Resting
  BY <1>1, <1>5, EditAlone DEF Resting, Places
<1>7. map' \in [Edits!Procs -> Edits!Maps] /\ map'[p] = Lines(want, FALSE)
  BY <1>4, <1>5 DEF EditInv, EditTypes
<1>8. EditTypes'
  BY <1>1, <1>6, <1>7 DEF EditInv, EditTypes, Whole
<1>9. AtPlace(p)'
  BY <1>1, <1>2, <1>6, <1>7 DEF AtPlace, TextSays, CacheSays
<1>10. QED
  BY <1>6, <1>8, <1>9, EditConclude

LEMMA EditReadCustom ==
    ASSUME EditInv, NEW p \in Edits!Procs, Edits!ReadCustom(p)
    PROVE  EditInv'
<1>1. pc[p] = "custom" /\ UNCHANGED <<tab, namesBin, lck, cmd, crud, cmds, pf, kills, want>>
  BY DEF Edits!ReadCustom
<1>2. AtPlace(p)
  BY <1>1 DEF EditInv, Resting
<1>3. /\ tab["regular"] = Lines(want, FALSE) /\ tab["custom"] = Lines(want, TRUE)
      /\ map[p] = tab["regular"]
  BY <1>1, <1>2 DEF AtPlace, TextSays
<1>4. Whole(want) /\ want \in Edits!Maps
  BY DEF EditInv, EditTypes, Whole
<1>5. Lines(want, TRUE) # Half
  BY <1>4, LinesOf, EditsConstants DEF Edits!NamesConstants
<1>6. Edits!View(tab) = want
  BY <1>3, <1>4, ViewOfLines
<1>7. map' = [map EXCEPT ![p] = want] /\ pc' = [pc EXCEPT ![p] = "cutbin"]
  <2>1. Edits!AddPrefunds(Edits!AddCustom(map[p], tab["custom"])) = want
    BY <1>3, <1>6 DEF Edits!View, Edits!AddRegular
  <2>2. tab["custom"] # Half
    BY <1>3, <1>5
  <2>3. QED
    BY <2>1, <2>2 DEF Edits!ReadCustom
<1>8. /\ pc' \in [Edits!Procs -> Places] /\ pc'[p] = "cutbin"
      /\ \A q \in Edits!Procs \ {p} : pc'[q] \in Resting
  BY <1>1, <1>7, EditAlone DEF Resting, Places
<1>9. map' \in [Edits!Procs -> Edits!Maps] /\ map'[p] = want
  BY <1>4, <1>7 DEF EditInv, EditTypes
<1>10. EditTypes'
  BY <1>1, <1>8, <1>9 DEF EditInv, EditTypes, Whole
<1>11. AtPlace(p)'
  BY <1>1, <1>2, <1>8, <1>9 DEF AtPlace, TextSays, CacheSays
<1>12. QED
  BY <1>8, <1>10, <1>11, EditConclude

LEMMA EditCutBin ==
    ASSUME EditInv, NEW p \in Edits!Procs, Edits!CutBin(p)
    PROVE  EditInv'
<1>1. /\ pc[p] = "cutbin" /\ pc' = [pc EXCEPT ![p] = "fillbin"]
      /\ UNCHANGED <<tab, lck, map, cmd, crud, cmds, pf, kills, want>>
  BY DEF Edits!CutBin
<1>2. /\ AtPlace(p)
      /\ pc' \in [Edits!Procs -> Places] /\ pc'[p] = "fillbin"
      /\ \A q \in Edits!Procs \ {p} : pc'[q] \in Resting
  BY <1>1, EditAlone DEF Resting, Places
<1>3. EditTypes'
  BY <1>1, <1>2 DEF EditInv, EditTypes, Whole
<1>4. AtPlace(p)'
  BY <1>1, <1>2 DEF AtPlace, TextSays
<1>5. QED
  BY <1>2, <1>3, <1>4, EditConclude

LEMMA EditFillBin ==
    ASSUME EditInv, NEW p \in Edits!Procs, Edits!FillBin(p)
    PROVE  EditInv'
<1>1. /\ pc[p] = "fillbin" /\ pc' = [pc EXCEPT ![p] = "ready"] /\ namesBin' = map[p]
      /\ UNCHANGED <<tab, lck, map, cmd, crud, cmds, pf, kills, want>>
  BY DEF Edits!FillBin
<1>2. /\ AtPlace(p)
      /\ pc' \in [Edits!Procs -> Places] /\ pc'[p] = "ready"
      /\ \A q \in Edits!Procs \ {p} : pc'[q] \in Resting
  BY <1>1, EditAlone DEF Resting, Places
<1>3. EditTypes'
  BY <1>1, <1>2 DEF EditInv, EditTypes, Whole
<1>4. AtPlace(p)'
  BY <1>1, <1>2 DEF AtPlace, TextSays, CacheSays
<1>5. QED
  BY <1>2, <1>3, <1>4, EditConclude

\* The steps of processEditCommand.
LEMMA EditCommand ==
    ASSUME EditInv, NEW p \in Edits!Procs, NEW c \in NameCommands, Edits!processEditCommand(p, c)
    PROVE  EditInv'
<1>1. /\ pc[p] = "ready" /\ pc' = [pc EXCEPT ![p] = "cuttext"] /\ cmds[p] < 1
      /\ Edits!Proper(p, c)
      /\ cmd' = [cmd EXCEPT ![p] = c] /\ cmds' = [cmds EXCEPT ![p] = cmds[p] + 1]
      /\ crud' = [crud EXCEPT ![p] = IF crud[p] = "none" THEN c.crud ELSE crud[p]]
      /\ UNCHANGED <<tab, namesBin, lck, map, pf, kills, want>>
  BY DEF Edits!processEditCommand
<1>2. /\ AtPlace(p)
      /\ pc' \in [Edits!Procs -> Places] /\ pc'[p] = "cuttext"
      /\ \A q \in Edits!Procs \ {p} : pc'[q] \in Resting
  BY <1>1, EditAlone DEF Resting, Places
<1>3. cmds[p] = 0 /\ crud[p] = "none" /\ pf[p] = FALSE
  BY <1>1 DEF EditInv, EditTypes
<1>4. /\ DOMAIN cmd' = Edits!Procs /\ cmd'[p] = c
      /\ DOMAIN crud' = Edits!Procs /\ crud'[p] = c.crud
      /\ \A q \in Edits!Procs \ {p} : crud'[q] = crud[q]
      /\ cmds' \in [Edits!Procs -> Nat] /\ cmds'[p] = 1
      /\ \A q \in Edits!Procs \ {p} : cmds'[q] = cmds[q]
  BY <1>1, <1>3 DEF EditInv, EditTypes
<1>5. EditTypes'
  <2>1. \A q \in Edits!Procs : cmds'[q] = 0 => crud'[q] = "none" /\ pf'[q] = FALSE
    BY <1>1, <1>4 DEF EditInv, EditTypes
  <2>2. QED
    BY <1>1, <1>2, <1>4, <2>1 DEF EditInv, EditTypes, Whole
<1>6. Edits!Proper(p, cmd[p])'
  BY <1>1, <1>4 DEF Edits!Proper
<1>7. AtPlace(p)'
  BY <1>1, <1>2, <1>3, <1>4, <1>6 DEF AtPlace, TextSays, CacheSays
<1>8. QED
  BY <1>2, <1>5, <1>7, EditConclude

LEMMA EditCutText ==
    ASSUME EditInv, NEW p \in Edits!Procs, Edits!CutText(p)
    PROVE  EditInv'
<1> DEFINE c == cmd[p]
<1>1. /\ pc[p] = "cuttext"
      /\ UNCHANGED <<namesBin, map, cmd, crud, cmds, pf, kills, want>>
  BY DEF Edits!CutText
<1>2. AtPlace(p)
  BY <1>1 DEF EditInv, Resting
<1>3. lck = {}
  BY <1>1, <1>2 DEF AtPlace
<1>4. /\ tab' = [tab EXCEPT ![Edits!Dest(c)] = Half] /\ lck' = {Edits!Dest(c)}
      /\ pc' = [pc EXCEPT ![p] = "puttext"]
  BY <1>3 DEF Edits!CutText
<1>5. /\ pc' \in [Edits!Procs -> Places] /\ pc'[p] = "puttext"
      /\ \A q \in Edits!Procs \ {p} : pc'[q] \in Resting
  BY <1>1, <1>4, EditAlone DEF Resting, Places
<1>6. c \in NameCommands /\ c.to \in BOOLEAN
  BY <1>1, <1>2, EditsConstants DEF AtPlace, Edits!NamesConstants
<1>7. tab' \in [Edits!Files -> Edits!Maps \cup {Half}]
  BY <1>4, <1>6 DEF EditInv, EditTypes, Edits!Dest, Edits!Files
<1>8. HalfWritten(c.to)'
  <2>1. DOMAIN tab = {"regular", "custom"} /\ tab["regular"] = Lines(want, FALSE)
        /\ tab["custom"] = Lines(want, TRUE)
    BY <1>1, <1>2 DEF EditInv, EditTypes, AtPlace, TextSays, Edits!Files
  <2>2. CASE c.to = TRUE
    <3>1. tab'["custom"] = Half /\ tab'["regular"] = Lines(want, FALSE)
      BY <1>4, <2>1, <2>2 DEF Edits!Dest
    <3>2. cmd'[p].to = TRUE /\ (~cmd'[p].to) = FALSE /\ want' = want
      BY <1>1, <2>2
    <3>3. QED
      BY <3>1, <3>2 DEF HalfWritten
  <2>3. CASE c.to = FALSE
    <3>1. tab'["regular"] = Half /\ tab'["custom"] = Lines(want, TRUE)
      BY <1>4, <2>1, <2>3 DEF Edits!Dest
    <3>2. cmd'[p].to = FALSE /\ (~cmd'[p].to) = TRUE /\ want' = want
      BY <1>1, <2>3
    <3>3. QED
      BY <3>1, <3>2 DEF HalfWritten
  <2>4. QED
    BY <1>6, <2>2, <2>3
<1>9. EditTypes'
  BY <1>1, <1>5, <1>7 DEF EditInv, EditTypes, Whole
<1>10. Edits!Proper(p, cmd[p])'
  BY <1>1, <1>2 DEF AtPlace, Edits!Proper
<1>11. Edits!Dest(cmd[p])' = Edits!Dest(c)
  BY <1>1 DEF Edits!Dest
<1>12. AtPlace(p)'
  BY <1>1, <1>2, <1>4, <1>5, <1>8, <1>10, <1>11 DEF AtPlace, CacheSays
<1>13. QED
  BY <1>5, <1>9, <1>12, EditConclude

\* A command does not touch what the user wants before it is done.
LEMMA WantedKept ==
    ASSUME want' = want, NEW c
    PROVE  Edits!Wanted(c)' = Edits!Wanted(c)
BY DEF Edits!Wanted, Edits!Put, Edits!AddPrefunds, Edits!Merge, Edits!Prefund

LEMMA EditPutText ==
    ASSUME EditInv, NEW p \in Edits!Procs, Edits!PutText(p)
    PROVE  EditInv'
<1> DEFINE c == cmd[p]
           w == Edits!Wanted(c)
<1>1. /\ pc[p] = "puttext" /\ pc' = [pc EXCEPT ![p] = "rmbin"]
      /\ tab' = [tab EXCEPT ![Edits!Dest(c)] = Edits!Output(p, c)]
      /\ lck' = lck \ {Edits!Dest(c)}
      /\ UNCHANGED <<namesBin, map, cmd, crud, cmds, pf, kills, want>>
  BY DEF Edits!PutText
<1>2. /\ AtPlace(p)
      /\ pc' \in [Edits!Procs -> Places] /\ pc'[p] = "rmbin"
      /\ \A q \in Edits!Procs \ {p} : pc'[q] \in Resting
  BY <1>1, EditAlone DEF Resting, Places
<1>3. /\ c \in NameCommands /\ crud[p] = c.crud /\ pf[p] = FALSE /\ map[p] = want
      /\ Edits!Proper(p, c) /\ HalfWritten(c.to) /\ lck = {Edits!Dest(c)}
  BY <1>1, <1>2 DEF AtPlace
<1>4. /\ Whole(w)
      /\ Edits!Output(p, c) = Lines(w, c.to)
      /\ Lines(w, ~c.to) = Lines(want, ~c.to)
  <2>1. Whole(want)
    BY DEF EditInv, EditTypes
  <2>2. QED
    BY <1>3, <2>1, EditIsWanted
<1>5. c.to \in BOOLEAN /\ DOMAIN tab = {"regular", "custom"}
  BY <1>3, EditsConstants DEF Edits!NamesConstants, EditInv, EditTypes, Edits!Files
<1> HIDE DEF w
<1>6. tab'["regular"] = Lines(w, FALSE) /\ tab'["custom"] = Lines(w, TRUE)
  <2>1. CASE c.to = TRUE
    <3>1. (~c.to) = FALSE /\ Edits!Dest(c) = "custom"
      BY <2>1 DEF Edits!Dest
    <3>2. tab["regular"] = Lines(w, FALSE) /\ Edits!Output(p, c) = Lines(w, TRUE)
      BY <1>3, <1>4, <2>1, <3>1 DEF HalfWritten
    <3>3. QED
      BY <1>1, <1>5, <3>1, <3>2
  <2>2. CASE c.to = FALSE
    <3>1. (~c.to) = TRUE /\ Edits!Dest(c) = "regular"
      BY <2>2 DEF Edits!Dest
    <3>2. tab["custom"] = Lines(w, TRUE) /\ Edits!Output(p, c) = Lines(w, FALSE)
      BY <1>3, <1>4, <2>2, <3>1 DEF HalfWritten
    <3>3. QED
      BY <1>1, <1>5, <3>1, <3>2
  <2>3. QED
    BY <1>5, <2>1, <2>2
<1>7. tab' \in [Edits!Files -> Edits!Maps \cup {Half}]
  <2>1. Lines(w, FALSE) \in Edits!Maps /\ Lines(w, TRUE) \in Edits!Maps
    BY <1>4, LinesOf DEF Whole
  <2>2. DOMAIN tab' = Edits!Files /\ tab' = [f \in Edits!Files |-> tab'[f]]
    BY <1>1 DEF EditInv, EditTypes
  <2>3. QED
    BY <1>6, <2>1, <2>2 DEF Edits!Files
<1>8. EditTypes'
  BY <1>1, <1>2, <1>7 DEF EditInv, EditTypes, Whole
<1>9. TextSays(Edits!Wanted(cmd[p]))'
  <2>1. Edits!Wanted(cmd[p])' = w
    <3>1. Edits!Wanted(c)' = Edits!Wanted(c)
      BY <1>1, WantedKept
    <3>2. QED
      BY <1>1, <3>1 DEF w, Edits!Wanted, Edits!Put, Edits!AddPrefunds, Edits!Merge, Edits!Prefund
  <2>2. QED
    BY <1>6, <2>1 DEF TextSays
<1>10. Edits!Proper(p, cmd[p])'
  BY <1>1, <1>3 DEF Edits!Proper
<1>11. lck' = {}
  BY <1>1, <1>3
<1>12. AtPlace(p)'
  BY <1>1, <1>2, <1>9, <1>10, <1>11 DEF AtPlace, CacheSays
<1>13. QED
  BY <1>2, <1>8, <1>12, EditConclude

LEMMA EditRemoveBin ==
    ASSUME EditInv, NEW p \in Edits!Procs, Edits!RemoveBin(p)
    PROVE  EditInv'
<1> DEFINE c == cmd[p]
           w == Edits!Wanted(c)
<1>1. /\ pc[p] = "rmbin" /\ pc' = [pc EXCEPT ![p] = "dates"] /\ namesBin' = None
      /\ map' = [map EXCEPT ![p] = Edits!NoNames] /\ pf' = [pf EXCEPT ![p] = TRUE]
      /\ want' = w
      /\ UNCHANGED <<tab, lck, cmd, crud, cmds, kills>>
  BY DEF Edits!RemoveBin
<1>2. /\ AtPlace(p)
      /\ pc' \in [Edits!Procs -> Places] /\ pc'[p] = "dates"
      /\ \A q \in Edits!Procs \ {p} : pc'[q] \in Resting
  BY <1>1, EditAlone DEF Resting, Places
<1>3. /\ c \in NameCommands /\ crud[p] = c.crud /\ pf[p] = FALSE /\ map[p] = want
      /\ Edits!Proper(p, c) /\ TextSays(w) /\ lck = {}
  BY <1>1, <1>2 DEF AtPlace
<1>4. Whole(w)
  <2>1. Whole(want)
    BY DEF EditInv, EditTypes
  <2>2. QED
    BY <1>3, <2>1, EditIsWanted
<1>5. cmds[p] # 0
  <2>1. c.crud # "none"
    BY <1>3, EditsConstants DEF Edits!NamesConstants
  <2>2. QED
    BY <1>3, <2>1 DEF EditInv, EditTypes
<1> HIDE DEF w
<1>6. EditTypes'
  <2>1. Whole(want)'
    BY <1>1, <1>4 DEF Whole
  <2>2. map' \in [Edits!Procs -> Edits!Maps]
    BY <1>1, NoNamesIsMap DEF EditInv, EditTypes
  <2>3. DOMAIN pf' = Edits!Procs /\ \A q \in Edits!Procs \ {p} : pf'[q] = pf[q]
    BY <1>1 DEF EditInv, EditTypes
  <2>4. \A q \in Edits!Procs : cmds'[q] = 0 => crud'[q] = "none" /\ pf'[q] = FALSE
    BY <1>1, <1>5, <2>3 DEF EditInv, EditTypes
  <2>5. QED
    BY <1>1, <1>2, <2>1, <2>2, <2>3, <2>4 DEF EditInv, EditTypes
<1>7. AtPlace(p)'
  BY <1>1, <1>2, <1>3 DEF AtPlace, TextSays, CacheSays
<1>8. QED
  BY <1>2, <1>6, <1>7, EditConclude

LEMMA EditEnd ==
    ASSUME EditInv, NEW p \in Edits!Procs, Edits!End(p)
    PROVE  EditInv'
<1>1. /\ pc[p] = "ready" /\ pc' = [pc EXCEPT ![p] = "done"]
      /\ UNCHANGED <<tab, namesBin, lck, map, cmd, crud, cmds, pf, kills, want>>
  BY DEF Edits!End
<1>2. /\ AtPlace(p)
      /\ pc' \in [Edits!Procs -> Places] /\ pc'[p] = "done"
      /\ \A q \in Edits!Procs \ {p} : pc'[q] \in Resting
  BY <1>1, EditAlone DEF Resting, Places
<1>3. EditTypes'
  BY <1>1, <1>2 DEF EditInv, EditTypes, Whole
<1>4. AtPlace(p)'
  BY <1>1, <1>2 DEF AtPlace, TextSays, CacheSays
<1>5. QED
  BY <1>2, <1>3, <1>4, EditConclude

\* The clock, and no step at all.
LEMMA EditIdle ==
    ASSUME EditInv,
           UNCHANGED <<tab, namesBin, lck, pc, map, cmd, crud, cmds, pf, kills, want>>
    PROVE  EditInv'
<1>1. EditTypes'
  BY DEF EditInv, EditTypes, Whole
<1>2. \A p \in Edits!Procs : AtPlace(p) => AtPlace(p)'
  <2> SUFFICES ASSUME NEW p \in Edits!Procs, AtPlace(p) PROVE AtPlace(p)'
    OBVIOUS
  <2>1. Edits!Wanted(cmd[p])' = Edits!Wanted(cmd[p])
    BY DEF Edits!Wanted, Edits!Put, Edits!AddPrefunds, Edits!Merge, Edits!Prefund
  <2>2. Edits!Proper(p, cmd[p])' <=> Edits!Proper(p, cmd[p])
    BY DEF Edits!Proper
  <2>3. QED
    BY <2>1, <2>2 DEF AtPlace, TextSays, CacheSays, HalfWritten, Edits!Dest
<1>3. QED
  BY <1>1, <1>2 DEF EditInv, TextSays, CacheSays

LEMMA EditStep == EditInv /\ [Edits!Next]_(Edits!vars) => EditInv'
<1> SUFFICES ASSUME EditInv, [Edits!Next]_(Edits!vars) PROVE EditInv'
  OBVIOUS
<1>1. CASE UNCHANGED Edits!vars
  BY <1>1, EditIdle DEF Edits!vars
<1>2. CASE Edits!Tick
  BY <1>2, EditIdle DEF Edits!Tick
<1>3. ASSUME NEW p \in Edits!Procs,
             \/ Edits!Start(p) \/ Edits!Dates(p) \/ Edits!ReadBin(p) \/ Edits!ReadRegular(p)
             \/ Edits!ReadCustom(p) \/ Edits!CutBin(p) \/ Edits!FillBin(p)
             \/ \E c \in NameCommands : Edits!processEditCommand(p, c)
             \/ Edits!CutText(p) \/ Edits!PutText(p) \/ Edits!RemoveBin(p)
             \/ Edits!End(p) \/ Edits!Kill(p)
      PROVE  EditInv'
  <2>1. ~Edits!Kill(p)
    BY DEF EditInv, EditTypes, Edits!Kill
  <2>2. QED
    BY <1>3, <2>1, EditStart, EditDates, EditReadBin, EditReadRegular, EditReadCustom,
       EditCutBin, EditFillBin, EditCommand, EditCutText, EditPutText, EditRemoveBin, EditEnd
<1>4. QED
  BY <1>1, <1>2, <1>3 DEF Edits!Next

\* What the invariant says of the properties.
LEMMA EditInvGives ==
    ASSUME EditInv
    PROVE  Edits!NamesAsWanted /\ Edits!CacheIsFresh /\ Edits!LoadsAreFresh
<1>1. Edits!NamesAsWanted
  <2> SUFFICES ASSUME \A p \in Edits!Procs : pc[p] \notin {"cuttext", "puttext", "rmbin"}
               PROVE  (\A f \in Edits!Files : tab[f] # Half) /\ Edits!View(tab) = want
    BY DEF Edits!NamesAsWanted
  <2>1. TextSays(want)
    BY DEF EditInv, AtPlace
  <2>2. Whole(want) /\ want \in Edits!Maps
    BY DEF EditInv, EditTypes, Whole
  <2>3. Edits!View(tab) = want
    BY <2>1, <2>2, ViewOfLines DEF TextSays
  <2>4. \A f \in Edits!Files : tab[f] \in Edits!Maps
    <3>1. Lines(want, FALSE) \in Edits!Maps /\ Lines(want, TRUE) \in Edits!Maps
      BY <2>2, LinesOf
    <3>2. QED
      BY <2>1, <3>1 DEF TextSays, Edits!Files
  <2>5. QED
    BY <2>3, <2>4, EditsConstants DEF Edits!NamesConstants
<1>2. Edits!CacheIsFresh
  <2> SUFFICES ASSUME \A p \in Edits!Procs : pc[p] \notin {"cuttext", "puttext", "rmbin", "fillbin"},
                      Edits!BinIsNewer
               PROVE  namesBin = want
    BY DEF Edits!CacheIsFresh
  <2>1. CacheSays
    BY DEF EditInv, AtPlace
  <2>2. QED
    BY <2>1 DEF CacheSays, Edits!BinIsNewer
<1>3. Edits!LoadsAreFresh
  BY DEF EditInv, AtPlace, Resting, Edits!LoadsAreFresh
<1>4. QED
  BY <1>1, <1>2, <1>3

-----------------------------------------------------------------------------
(* Any edits, at any moment, and kills *)

\* Both parts mean the same by a map and by what a command does to it.
LEMMA AnySame ==
    /\ AnyEdits!Maps = Edits!Maps /\ AnyEdits!Files = Edits!Files
    /\ AnyEdits!NoNames = Edits!NoNames
    /\ \A m, f : AnyEdits!AddPrefunds(AnyEdits!AddCustom(m, f))
                     = Edits!AddPrefunds(Edits!AddCustom(m, f))
    /\ \A p, c : AnyEdits!Output(p, c) = Lines(Edits!Edited(p, c), c.to)
<1>1. /\ AnyEdits!Maps = Edits!Maps /\ AnyEdits!Files = Edits!Files
      /\ AnyEdits!NoNames = Edits!NoNames
  BY DEF AnyEdits!Maps, Edits!Maps, AnyEdits!Entry, Edits!Entry, AnyEdits!Files, Edits!Files,
         AnyEdits!NoNames, Edits!NoNames
<1>2. \A m, f : AnyEdits!AddPrefunds(AnyEdits!AddCustom(m, f))
                     = Edits!AddPrefunds(Edits!AddCustom(m, f))
  BY DEF AnyEdits!AddPrefunds, Edits!AddPrefunds, AnyEdits!AddCustom, Edits!AddCustom,
         AnyEdits!Merge, Edits!Merge, AnyEdits!Prefund, Edits!Prefund
<1>3. \A p, c : AnyEdits!Output(p, c) = Lines(Edits!Edited(p, c), c.to)
  <2>1. \A p, c : AnyEdits!Edited(p, c) = Edits!Edited(p, c)
    BY DEF AnyEdits!Edited, Edits!Edited, AnyEdits!Put, Edits!Put, AnyEdits!Target, Edits!Target
  <2>2. QED
    BY <2>1 DEF AnyEdits!Output, Lines
<1>4. QED
  BY <1>1, <1>2, <1>3

\* The lines of a file are marked as those of that file.
Marked(m, to) == \A a \in DOMAIN m : m[a].cus = to /\ ~m[a].pre

LEMMA LinesMarked ==
    ASSUME NEW m \in Edits!Maps, NEW to \in BOOLEAN
    PROVE  Lines(m, to) \in Edits!Maps /\ Marked(Lines(m, to), to)
<1> DEFINE l == Lines(m, to)
<1>1. /\ l \in Edits!Maps
      /\ DOMAIN l = {x \in DOMAIN m : m[x].cus = to /\ ~m[x].pre}
      /\ \A a \in DOMAIN l : l[a] = m[a]
  BY LinesOf
<1> HIDE DEF l
<1>2. Marked(l, to)
  BY <1>1 DEF Marked
<1>3. QED
  BY <1>1, <1>2 DEF l

\* The inductive invariant: the types, and where every command and every line comes from.
AnyInv ==
    /\ tab \in [Edits!Files -> Edits!Maps \cup {Half}]
    /\ tab["regular"] # Half => Marked(tab["regular"], FALSE)
    /\ tab["custom"] # Half => Marked(tab["custom"], TRUE)
    /\ namesBin \in Edits!Maps \cup {Half, None}
    /\ clock \in 1 .. AnyTime
    /\ date \in [Edits!Files \cup {"bin"} -> 0 .. AnyTime]
    /\ lck \subseteq Edits!Files
    /\ pc \in [AnyEdits!Procs -> Places]
    /\ map \in [AnyEdits!Procs -> Edits!Maps]
    /\ pf \in [AnyEdits!Procs -> BOOLEAN]
    /\ DOMAIN cmd = AnyEdits!Procs
    /\ \A p \in AnyEdits!Procs :
          pc[p] \in {"cuttext", "puttext", "rmbin"} => cmd[p] \in NameCommands

LEMMA AnyStarts == AnyEdits!Init => AnyInv
<1> SUFFICES ASSUME AnyEdits!Init PROVE AnyInv
  OBVIOUS
<1> USE AnySame
<1>1. /\ tab["regular"] \in Edits!Maps /\ tab["custom"] \in Edits!Maps
      /\ tab = [regular |-> tab["regular"], custom |-> tab["custom"]]
      /\ \A a \in DOMAIN tab["regular"] : ~tab["regular"][a].cus /\ ~tab["regular"][a].pre
      /\ \A a \in DOMAIN tab["custom"] : tab["custom"][a].cus /\ ~tab["custom"][a].pre
  BY DEF AnyEdits!Init, AnyEdits!Shipped
<1>2. Marked(tab["regular"], FALSE) /\ Marked(tab["custom"], TRUE)
  <2>1. /\ \A a \in DOMAIN tab["regular"] : tab["regular"][a].cus \in BOOLEAN
        /\ \A a \in DOMAIN tab["custom"] : tab["custom"][a].cus \in BOOLEAN
    BY <1>1, MapIs, EntryIs
  <2>2. QED
    BY <1>1, <2>1 DEF Marked
<1>3. tab \in [Edits!Files -> Edits!Maps \cup {Half}]
  BY <1>1 DEF Edits!Files
<1>4. AnyTime \in Nat \ {0}
  BY AnyEditsConstants DEF AnyEdits!NamesConstants
<1>5. clock \in 1 .. AnyTime /\ date \in [Edits!Files \cup {"bin"} -> 0 .. AnyTime]
  BY <1>4 DEF AnyEdits!Init
<1>6. map \in [AnyEdits!Procs -> Edits!Maps]
  BY NoNamesIsMap DEF AnyEdits!Init
<1>7. QED
  BY <1>2, <1>3, <1>5, <1>6 DEF AnyInv, AnyEdits!Init, Places, Resting

LEMMA AnyStep == AnyInv /\ [AnyEdits!Next]_(AnyEdits!vars) => AnyInv'
<1> SUFFICES ASSUME AnyInv, [AnyEdits!Next]_(AnyEdits!vars) PROVE AnyInv'
  OBVIOUS
<1> USE DEF AnyInv
<1>1. CASE UNCHANGED AnyEdits!vars
  BY <1>1 DEF AnyEdits!vars, Marked
<1>2. CASE AnyEdits!Tick
  <2>1. AnyTime \in Nat
    BY AnyEditsConstants DEF AnyEdits!NamesConstants
  <2>2. clock' \in 1 .. AnyTime
    BY <1>2, <2>1 DEF AnyEdits!Tick
  <2>3. QED
    BY <1>2, <2>2 DEF AnyEdits!Tick, Marked
<1>3. ASSUME NEW p \in AnyEdits!Procs,
             \/ AnyEdits!Start(p) \/ AnyEdits!Dates(p) \/ AnyEdits!End(p) \/ AnyEdits!Kill(p)
      PROVE  AnyInv'
  <2>1. PICK s \in {"dates", "bin", "regular", "done"} : pc' = [pc EXCEPT ![p] = s]
    BY <1>3 DEF AnyEdits!Start, AnyEdits!Dates, AnyEdits!End, AnyEdits!Kill
  <2>2. UNCHANGED <<tab, namesBin, date, clock, lck, map, cmd, pf>>
    BY <1>3 DEF AnyEdits!Start, AnyEdits!Dates, AnyEdits!End, AnyEdits!Kill
  <2>3. pc' \in [AnyEdits!Procs -> Places] /\ pc'[p] = s
        /\ \A q \in AnyEdits!Procs \ {p} : pc'[q] = pc[q]
    BY <2>1 DEF Places, Resting
  <2>4. QED
    BY <2>2, <2>3 DEF Marked
<1>4. ASSUME NEW p \in AnyEdits!Procs,
             AnyEdits!ReadBin(p) \/ AnyEdits!ReadRegular(p) \/ AnyEdits!ReadCustom(p)
      PROVE  AnyInv'
  <2>1. UNCHANGED <<tab, namesBin, date, clock, lck, cmd, pf>>
    BY <1>4 DEF AnyEdits!ReadBin, AnyEdits!ReadRegular, AnyEdits!ReadCustom
  <2>2. PICK s \in {"ready", "regular", "custom", "cutbin", "done"} : pc' = [pc EXCEPT ![p] = s]
    BY <1>4 DEF AnyEdits!ReadBin, AnyEdits!ReadRegular, AnyEdits!ReadCustom
  <2>3. map' \in [AnyEdits!Procs -> Edits!Maps]
    <3>1. CASE AnyEdits!ReadBin(p)
      BY <3>1, AnySame, NoNamesIsMap DEF AnyEdits!ReadBin
    <3>2. CASE AnyEdits!ReadRegular(p)
      BY <3>2 DEF AnyEdits!ReadRegular, AnyEdits!AddRegular, Edits!Files
    <3>3. CASE AnyEdits!ReadCustom(p)
      <4>1. CASE tab["custom"] = Half
        BY <3>3, <4>1 DEF AnyEdits!ReadCustom
      <4>2. CASE tab["custom"] # Half
        <5>1. tab["custom"] \in Edits!Maps /\ Prefunds \subseteq Addrs
          BY <4>2, EditsConstants DEF Edits!Files, Edits!NamesConstants
        <5>2. Edits!AddCustom(map[p], tab["custom"]) \in Edits!Maps
          BY <5>1, AddedMaps
        <5>3. Edits!AddPrefunds(Edits!AddCustom(map[p], tab["custom"])) \in Edits!Maps
          BY <5>1, <5>2, AddedMaps
        <5>4. map' = [map EXCEPT ![p] = Edits!AddPrefunds(Edits!AddCustom(map[p], tab["custom"]))]
          BY <3>3, <4>2, AnySame DEF AnyEdits!ReadCustom
        <5>5. QED
          BY <5>3, <5>4
      <4>3. QED
        BY <4>1, <4>2
    <3>4. QED
      BY <1>4, <3>1, <3>2, <3>3
  <2>4. pc' \in [AnyEdits!Procs -> Places] /\ pc'[p] = s
        /\ \A q \in AnyEdits!Procs \ {p} : pc'[q] = pc[q]
    BY <2>2 DEF Places, Resting
  <2>5. QED
    BY <2>1, <2>3, <2>4 DEF Marked
<1>5. ASSUME NEW p \in AnyEdits!Procs,
             AnyEdits!CutBin(p) \/ AnyEdits!FillBin(p) \/ AnyEdits!RemoveBin(p)
      PROVE  AnyInv'
  <2>1. UNCHANGED <<tab, clock, lck, cmd>>
    BY <1>5 DEF AnyEdits!CutBin, AnyEdits!FillBin, AnyEdits!RemoveBin
  <2>2. PICK s \in {"fillbin", "ready", "dates"} : pc' = [pc EXCEPT ![p] = s]
    BY <1>5 DEF AnyEdits!CutBin, AnyEdits!FillBin, AnyEdits!RemoveBin
  <2>3. namesBin' \in {Half, None, map[p]} /\ (date' = [date EXCEPT !["bin"] = clock] \/ date' = date)
    BY <1>5 DEF AnyEdits!CutBin, AnyEdits!FillBin, AnyEdits!RemoveBin
  <2>4. date' \in [Edits!Files \cup {"bin"} -> 0 .. AnyTime]
    BY <2>3
  <2>5. /\ map' = map \/ map' = [map EXCEPT ![p] = Edits!NoNames]
        /\ pf' = pf \/ pf' = [pf EXCEPT ![p] = TRUE]
    BY <1>5, AnySame DEF AnyEdits!CutBin, AnyEdits!FillBin, AnyEdits!RemoveBin
  <2>6. map' \in [AnyEdits!Procs -> Edits!Maps] /\ pf' \in [AnyEdits!Procs -> BOOLEAN]
    BY <2>5, NoNamesIsMap
  <2>7. pc' \in [AnyEdits!Procs -> Places] /\ pc'[p] = s
        /\ \A q \in AnyEdits!Procs \ {p} : pc'[q] = pc[q]
    BY <2>2 DEF Places, Resting
  <2>8. QED
    BY <2>1, <2>3, <2>4, <2>6, <2>7 DEF Marked
<1>6. ASSUME NEW p \in AnyEdits!Procs, NEW c \in NameCommands, AnyEdits!processEditCommand(p, c)
      PROVE  AnyInv'
  <2>1. /\ UNCHANGED <<tab, namesBin, date, clock, lck, map, pf>>
        /\ pc' = [pc EXCEPT ![p] = "cuttext"] /\ cmd' = [cmd EXCEPT ![p] = c]
    BY <1>6 DEF AnyEdits!processEditCommand
  <2>2. /\ pc' \in [AnyEdits!Procs -> Places] /\ \A q \in AnyEdits!Procs \ {p} : pc'[q] = pc[q]
        /\ DOMAIN cmd' = AnyEdits!Procs /\ cmd'[p] = c
        /\ \A q \in AnyEdits!Procs \ {p} : cmd'[q] = cmd[q]
    BY <2>1 DEF Places, Resting
  <2>3. QED
    BY <2>1, <2>2 DEF Marked
<1>7. ASSUME NEW p \in AnyEdits!Procs, AnyEdits!CutText(p) \/ AnyEdits!PutText(p)
      PROVE  AnyInv'
  <2> DEFINE c == cmd[p]
             f == AnyEdits!Dest(c)
  <2>1. /\ UNCHANGED <<namesBin, clock, map, cmd, pf>>
        /\ pc[p] \in {"cuttext", "puttext"}
    BY <1>7 DEF AnyEdits!CutText, AnyEdits!PutText
  <2>2. PICK s \in {"puttext", "rmbin"} : pc' = [pc EXCEPT ![p] = s]
    BY <1>7 DEF AnyEdits!CutText, AnyEdits!PutText
  <2>3. c \in NameCommands /\ c.to \in BOOLEAN
    BY <2>1, EditsConstants DEF Edits!NamesConstants
  <2>4. f = (IF c.to THEN "custom" ELSE "regular") /\ f \in Edits!Files
    BY <2>3 DEF AnyEdits!Dest, Edits!Files
  <2>5. PICK l \in {Half, Lines(Edits!Edited(p, c), c.to), tab[f]} :
           /\ tab' = [tab EXCEPT ![f] = l]
           /\ date' = [date EXCEPT ![f] = clock] \/ date' = date
           /\ lck' \subseteq lck \cup {f}
    <3>1. CASE AnyEdits!CutText(p) /\ f \in lck
      <4>1. tab' = tab /\ date' = date /\ lck' = lck
        BY <3>1 DEF AnyEdits!CutText
      <4>2. tab' = [tab EXCEPT ![f] = tab[f]]
        BY <4>1
      <4>3. QED
        BY <4>1, <4>2
    <3>2. CASE AnyEdits!CutText(p) /\ f \notin lck
      BY <3>2 DEF AnyEdits!CutText
    <3>3. CASE AnyEdits!PutText(p)
      BY <3>3, AnySame DEF AnyEdits!PutText
    <3>4. QED
      BY <1>7, <3>1, <3>2, <3>3
  <2>6. Lines(Edits!Edited(p, c), c.to) \in Edits!Maps /\ Marked(Lines(Edits!Edited(p, c), c.to), c.to)
    <3>1. Edits!Edited(p, c) \in Edits!Maps
      BY <2>3, EditedIsMap
    <3>2. QED
      BY <2>3, <3>1, LinesMarked
  <2> HIDE DEF f
  <2>7. tab' \in [Edits!Files -> Edits!Maps \cup {Half}]
    BY <2>4, <2>5, <2>6
  <2>8. /\ tab'["regular"] # Half => Marked(tab'["regular"], FALSE)
        /\ tab'["custom"] # Half => Marked(tab'["custom"], TRUE)
    <3>1. CASE c.to = TRUE
      BY <2>4, <2>5, <2>6, <3>1 DEF Edits!Files
    <3>2. CASE c.to = FALSE
      BY <2>4, <2>5, <2>6, <3>2 DEF Edits!Files
    <3>3. QED
      BY <2>3, <3>1, <3>2
  <2>9. date' \in [Edits!Files \cup {"bin"} -> 0 .. AnyTime] /\ lck' \subseteq Edits!Files
    BY <2>4, <2>5
  <2>10. pc' \in [AnyEdits!Procs -> Places] /\ pc'[p] = s
         /\ \A q \in AnyEdits!Procs \ {p} : pc'[q] = pc[q]
    BY <2>2 DEF Places, Resting
  <2>11. QED
    BY <2>1, <2>3, <2>7, <2>8, <2>9, <2>10
<1>8. QED
  BY <1>1, <1>2, <1>3, <1>4, <1>5, <1>6, <1>7 DEF AnyEdits!Next

LEMMA AnyInvGives == AnyInv => AnyEdits!TypeOK
<1> SUFFICES ASSUME AnyInv PROVE AnyEdits!TypeOK
  OBVIOUS
<1>1. \A f \in Edits!Files : tab[f] \in Edits!Maps \cup {Half}
  BY DEF AnyInv
<1>2. \A f \in Edits!Files : tab[f] # Half =>
           \A a \in DOMAIN tab[f] : tab[f][a].cus = (f = "custom") /\ ~tab[f][a].pre
  BY DEF AnyInv, Marked, Edits!Files
<1>3. QED
  BY <1>1, <1>2, AnySame DEF AnyInv, AnyEdits!TypeOK

-----------------------------------------------------------------------------
\* processEditCommand, loadNames: with tools that run one after the other, and commands
\* that edit a name in the file it came from, every command takes effect and no other name
\* changes or goes; whoever edits what, and is killed when, no name gets into the wrong file.
\* For all addresses, prefunds, names, commands, editors and readers.
THEOREM NamesHold == NamesSpec => []NamesAsWanted
<1>1. part = "edits" /\ NamesSpec => []NamesAsWanted
  <2>1. part = "edits" /\ NamesInit => EditInv
    BY EditStarts DEF NamesInit
  <2>2. part = "edits" /\ EditInv /\ [NamesNext /\ UNCHANGED part]_<<part, Edits!vars>>
          => (part = "edits")' /\ EditInv'
    BY EditStep DEF NamesNext, Edits!vars
  <2>3. part = "edits" /\ EditInv => NamesAsWanted
    BY EditInvGives DEF NamesAsWanted
  <2>4. QED
    BY <2>1, <2>2, <2>3, PTL DEF NamesSpec
<1>2. part = "any edits" /\ NamesSpec => []NamesAsWanted
  <2>1. part = "any edits" /\ NamesInit => AnyInv
    BY AnyStarts DEF NamesInit
  <2>2. part = "any edits" /\ AnyInv /\ [NamesNext /\ UNCHANGED part]_<<part, Edits!vars>>
          => (part = "any edits")' /\ AnyInv'
    BY AnyStep DEF NamesNext, Edits!vars, AnyEdits!vars
  <2>3. part = "any edits" /\ AnyInv => NamesAsWanted
    BY AnyInvGives DEF NamesAsWanted
  <2>4. QED
    BY <2>1, <2>2, <2>3, PTL DEF NamesSpec
<1>3. NamesInit => part = "edits" \/ part = "any edits"
  BY DEF NamesInit
<1>4. QED
  BY <1>1, <1>2, <1>3, PTL DEF NamesSpec

\* loadNames: the cache names.bin, when the dates say that it is newer, and the map of a
\* tool that has loaded the names, are those of the text files: for all addresses,
\* prefunds, names, commands, editors and readers, one tool after the other.
THEOREM NamesFresh == NamesSpec => []NamesAreFresh
<1>1. part = "edits" /\ NamesInit => EditInv
  BY EditStarts DEF NamesInit
<1>2. part = "edits" /\ EditInv /\ [NamesNext /\ UNCHANGED part]_<<part, Edits!vars>>
        => (part = "edits")' /\ EditInv'
  BY EditStep DEF NamesNext, Edits!vars
<1>3. part = "edits" /\ EditInv => NamesAreFresh
  BY EditInvGives DEF NamesAreFresh
<1>4. part = "any edits" /\ NamesSpec => []NamesAreFresh
  <2>1. part = "any edits" => NamesAreFresh
    BY DEF NamesAreFresh
  <2>2. part = "any edits" /\ [NamesNext /\ UNCHANGED part]_<<part, Edits!vars>>
          => (part = "any edits")'
    BY ZenonT(60)
  <2>3. QED
    BY <2>1, <2>2, PTL DEF NamesSpec
<1>5. NamesInit => part = "edits" \/ part = "any edits"
  BY DEF NamesInit
<1>6. QED
  BY <1>1, <1>2, <1>3, <1>4, <1>5, PTL DEF NamesSpec

-----------------------------------------------------------------------------
(* A chunk of the index *)

\* The cardinality and the finiteness that the module is written with are those that the
\* theorems of finite sets are about.
LEMMA SameCardinality ==
    ASSUME NEW S
    PROVE  /\ Chunk!Cardinality(S) = Cardinality(S)
           /\ Chunk!IsFiniteSet(S) <=> IsFiniteSet(S)
<1>1. Chunk!Cardinality(S) = Cardinality(S)
  BY Zenon DEF Chunk!Cardinality, Cardinality
<1>2. Chunk!IsFiniteSet(S) <=> IsFiniteSet(S)
  BY Zenon DEF Chunk!IsFiniteSet, IsFiniteSet
<1>3. QED
  BY <1>1, <1>2

\* Lines are strictly ordered, by address and then by appearance.
LEMMA LineOrder ==
    ASSUME NEW x \in Nat \X Nat, NEW y \in Nat \X Nat, NEW z \in Nat \X Nat
    PROVE  /\ ~Chunk!LineBefore(x, x)
           /\ Chunk!LineBefore(x, y) /\ Chunk!LineBefore(y, z) => Chunk!LineBefore(x, z)
           /\ x # y => Chunk!LineBefore(x, y) \/ Chunk!LineBefore(y, x)
<1>1. PICK x1 \in Nat, x2 \in Nat : x = <<x1, x2>>
  OBVIOUS
<1>2. PICK y1 \in Nat, y2 \in Nat : y = <<y1, y2>>
  OBVIOUS
<1>3. PICK z1 \in Nat, z2 \in Nat : z = <<z1, z2>>
  OBVIOUS
<1>4. QED
  BY <1>1, <1>2, <1>3 DEF Chunk!LineBefore

\* The number of lines of S before one is its place, and no two lines have the same.
LEMMA LinePlaces ==
    ASSUME NEW S, S \subseteq Nat \X Nat, IsFiniteSet(S)
    PROVE  /\ \A x \in S : Cardinality({y \in S : Chunk!LineBefore(y, x)}) \in 0 .. (Cardinality(S) - 1)
           /\ \A x, y \in S : Chunk!LineBefore(x, y) =>
                Cardinality({z \in S : Chunk!LineBefore(z, x)})
                  < Cardinality({z \in S : Chunk!LineBefore(z, y)})
<1> DEFINE Below(x) == {y \in S : Chunk!LineBefore(y, x)}
<1>1. Cardinality(S) \in Nat
  BY FS_CardinalityType
<1>2. ASSUME NEW x \in S
      PROVE  /\ IsFiniteSet(Below(x)) /\ Cardinality(Below(x)) \in Nat
             /\ Cardinality(Below(x)) < Cardinality(S)
  <2>1. x \notin Below(x)
    BY LineOrder
  <2>2. Below(x) \in SUBSET S
    OBVIOUS
  <2> HIDE DEF Below
  <2>3. /\ IsFiniteSet(Below(x)) /\ Cardinality(Below(x)) <= Cardinality(S)
        /\ Cardinality(S) = Cardinality(Below(x)) => S = Below(x)
    BY <2>2, FS_Subset
  <2>4. Cardinality(Below(x)) \in Nat
    BY <2>3, FS_CardinalityType
  <2>5. QED
    BY <2>1, <2>3, <2>4, <1>1
<1>3. ASSUME NEW x \in S, NEW y \in S, Chunk!LineBefore(x, y)
      PROVE  Cardinality(Below(x)) < Cardinality(Below(y))
  <2>1. x \notin Below(x) /\ x \in Below(y)
    BY LineOrder, <1>3
  <2>2. \A z \in Below(x) : z \in Below(y)
    BY LineOrder, <1>3
  <2> HIDE DEF Below
  <2>3. Below(x) \in SUBSET Below(y)
    BY <2>2
  <2>4. /\ Cardinality(Below(x)) <= Cardinality(Below(y))
        /\ Cardinality(Below(y)) = Cardinality(Below(x)) => Below(y) = Below(x)
    BY <2>3, <1>2, FS_Subset
  <2>5. QED
    BY <2>1, <2>4, <1>2
<1> HIDE DEF Below
<1>4. /\ \A x \in S : Cardinality(Below(x)) \in 0 .. (Cardinality(S) - 1)
      /\ \A x, y \in S : Chunk!LineBefore(x, y) =>
           Cardinality(Below(x)) < Cardinality(Below(y))
  BY <1>1, <1>2, <1>3
<1>5. QED
  BY <1>4 DEF Below

\* Every place is taken.
LEMMA PlaceTaken ==
    ASSUME NEW S, S \subseteq Nat \X Nat, IsFiniteSet(S), NEW k \in 1 .. Cardinality(S)
    PROVE  \E x \in S : Cardinality({y \in S : Chunk!LineBefore(y, x)}) = k - 1
<1> DEFINE Rank(x) == Cardinality({y \in S : Chunk!LineBefore(y, x)})
           n == Cardinality(S)
           f == [x \in S |-> Rank(x)]
<1>1. n \in Nat /\ n # 0
  BY FS_CardinalityType
<1>2. \A x \in S : Rank(x) \in 0 .. (n - 1)
  BY LinePlaces
<1>3. \A x, y \in S : Chunk!LineBefore(x, y) => Rank(x) < Rank(y)
  BY LinePlaces
<1> HIDE DEF Rank, n
<1>4. \A x, y \in S : Rank(x) = Rank(y) => x = y
  BY <1>2, <1>3, <1>1, LineOrder
<1>5. f \in Injection(S, 0 .. (n - 1))
  BY <1>2, <1>4 DEF Injection, IsInjective
<1>6. IsFiniteSet(0 .. (n - 1)) /\ Cardinality(0 .. (n - 1)) = n
  BY FS_Interval, <1>1
<1> HIDE DEF f
<1>7. f \in Surjection(S, 0 .. (n - 1))
  BY <1>5, <1>6, FS_Injection DEF n
<1>8. \E x \in S : f[x] = k - 1
  BY <1>7, <1>1 DEF Surjection, n
<1>9. QED
  BY <1>8 DEF f, Rank

\* write_chunks hands over lines in ascending order.
LEMMA SortedAscends ==
    ASSUME NEW S, S \subseteq Nat \X Nat, IsFiniteSet(S), S # {}
    PROVE  /\ Chunk!Sorted(S) \in Seq(S) /\ Len(Chunk!Sorted(S)) # 0
           /\ \A i, j \in 1 .. Len(Chunk!Sorted(S)) :
                i <= j => Chunk!Sorted(S)[i][1] <= Chunk!Sorted(S)[j][1]
<1> DEFINE Rank(x) == Cardinality({y \in S : Chunk!LineBefore(y, x)})
           n == Cardinality(S)
           At(i) == CHOOSE x \in S : Rank(x) = i - 1
           sq == Chunk!Sorted(S)
<1>1. n \in Nat /\ n # 0
  BY FS_CardinalityType, FS_EmptySet
<1>2. \A i \in 1 .. n : \E x \in S : Rank(x) = i - 1
  BY PlaceTaken
<1>3. \A x, y \in S : Chunk!LineBefore(x, y) => Rank(x) < Rank(y)
  BY LinePlaces
<1>4. /\ sq = [i \in 1 .. n |-> sq[i]]
      /\ \A i \in 1 .. n : sq[i] = At(i)
  <2>1. \A T : Chunk!Cardinality(T) = Cardinality(T)
    BY SameCardinality
  <2>2. DOMAIN sq = 1 .. n
    BY <2>1 DEF Chunk!Sorted
  <2>3. sq = [i \in DOMAIN sq |-> sq[i]]
    <3> DEFINE Pick(i) == CHOOSE x \in S :
                            Chunk!Cardinality({y \in S : Chunk!LineBefore(y, x)}) = i - 1
    <3>1. sq = [i \in 1 .. Chunk!Cardinality(S) |-> Pick(i)]
      BY Zenon DEF Chunk!Sorted
    <3> HIDE DEF Pick, sq
    <3>2. QED
      BY <3>1
  <2>4. ASSUME NEW i \in 1 .. n
        PROVE  sq[i] = At(i)
    BY <2>1 DEF Chunk!Sorted
  <2> HIDE DEF sq, At, n
  <2>5. QED
    BY <2>2, <2>3, <2>4
<1> HIDE DEF Rank, n, sq
<1>5. \A i \in 1 .. n : At(i) \in S /\ Rank(At(i)) = i - 1
  BY <1>2
<1> HIDE DEF At
<1>6. sq \in Seq(S) /\ Len(sq) = n
  <2>1. \A i \in 1 .. n : sq[i] \in S
    BY <1>4, <1>5
  <2>2. sq \in [1 .. n -> S]
    BY <1>4, <2>1
  <2>3. QED
    BY <2>2, <1>1
<1>7. ASSUME NEW i \in 1 .. n, NEW j \in 1 .. n, i <= j
      PROVE  At(i)[1] <= At(j)[1]
  <2>1. ~Chunk!LineBefore(At(j), At(i))
    BY <1>3, <1>5, <1>7, <1>1
  <2>2. At(i) \in Nat \X Nat /\ At(j) \in Nat \X Nat
    BY <1>5
  <2>3. QED
    BY <2>1, <2>2 DEF Chunk!LineBefore
<1>8. QED
  BY <1>1, <1>4, <1>6, <1>7 DEF sq

-----------------------------------------------------------------------------
\* A record of the table, and a filter.
Records == [addr : IndexAddrs, offset : Nat, cnt : Nat]
Filters == [n : 0 .. (MAX_ADDRS_IN_BLOOM + 1), bits : SUBSET UNION {Bits[a] : a \in IndexAddrs}]

\* The appearances of record r are those of the lines after its offset.
InRecord(r, k) == r.offset < k /\ k <= r.offset + r.cnt

\* The records of table t tile the first c of the lines ls, each of a line's address.
Tiled(ls, t, c) ==
    /\ \A i \in DOMAIN t :
         /\ t[i].offset = IF i = 1 THEN 0 ELSE t[i - 1].offset + t[i - 1].cnt
         /\ t[i].offset + t[i].cnt <= c
         /\ \A k \in 1 .. Len(ls) : InRecord(t[i], k) => ls[k][1] = t[i].addr
    /\ c = IF t = <<>> THEN 0 ELSE t[Len(t)].offset + t[Len(t)].cnt
    /\ Len(t) <= c
    /\ \A k \in 1 .. c : \E i \in DOMAIN t : InRecord(t[i], k)

Ascending(t) == \A i, j \in DOMAIN t : i < j => t[i].addr < t[j].addr

\* The filters bs have every address of table t, and the last one is not full.
Hold(bs, t) ==
    /\ bs # <<>> => bs[Len(bs)].n <= MAX_ADDRS_IN_BLOOM
    /\ \A i \in DOMAIN t : Chunk!isMember(bs, t[i].addr)

\* The lines are in order; those the loop is done with are written, and the last of them
\* are of the address that is open.
LinesWritten ==
    /\ lines \in Seq(IndexAddrs \X Apps) /\ Len(lines) # 0
    /\ \A i, j \in 1 .. Len(lines) : i <= j => lines[i][1] <= lines[j][1]
    /\ Len(blockTable) = lineNo
    /\ \A i \in 1 .. lineNo : blockTable[i] = lines[i][2]
    /\ offset + cnt = lineNo
    /\ prev = 0 <=> lineNo = 0
    /\ lineNo # 0 => cnt # 0
    /\ \A i \in (offset + 1) .. lineNo : lines[i][1] = prev

Covered == IF pc \in {"write", "trap"} THEN offset ELSE lineNo

TableRight ==
    /\ Tiled(lines, table, Covered)
    /\ Ascending(table)
    /\ pc \in {"write", "trap"} => \A i \in DOMAIN table : table[i].addr < prev
    /\ Hold(blooms, table)

SearchRight ==
    /\ pc \notin {"write", "trap"} => lineNo = Len(lines)
    /\ pc # "end" => items = <<>>
    /\ pc = "bsearch" =>
         /\ lo <= hi /\ hi <= Len(table)
         /\ \A i \in DOMAIN table : table[i].addr = search => lo < i /\ i <= hi

\* The inductive invariant.
ChunkInv ==
    /\ part = "chunk"
    /\ Chunk!TypeOK /\ LinesWritten /\ TableRight /\ SearchRight /\ Chunk!FindsExactly

\* addToSet lights the bits of the address and puts none out, and leaves room.
LEMMA BloomAdds ==
    ASSUME NEW bs \in Seq(Filters), bs # <<>> => bs[Len(bs)].n <= MAX_ADDRS_IN_BLOOM,
           NEW a \in IndexAddrs
    PROVE  /\ Chunk!addToSet(bs, a) \in Seq(Filters)
           /\ Chunk!addToSet(bs, a) # <<>>
           /\ Chunk!addToSet(bs, a)[Len(Chunk!addToSet(bs, a))].n <= MAX_ADDRS_IN_BLOOM
           /\ Chunk!isMember(Chunk!addToSet(bs, a), a)
           /\ \A b \in IndexAddrs : Chunk!isMember(bs, b) => Chunk!isMember(Chunk!addToSet(bs, a), b)
<1> DEFINE some == IF bs = <<>> THEN <<Chunk!zeroBloom>> ELSE bs
           last == [n |-> some[Len(some)].n + 1, bits |-> some[Len(some)].bits \cup Bits[a]]
           lit  == [some EXCEPT ![Len(some)] = last]
           new  == Chunk!addToSet(bs, a)
<1>0. MAX_ADDRS_IN_BLOOM \in Nat \ {0}
  BY ChunkConstants DEF Chunk!ChunkFileConstants
<1>1. Chunk!zeroBloom \in Filters /\ Chunk!zeroBloom.n = 0
  BY <1>0 DEF Chunk!zeroBloom, Filters
<1>2. new = IF last.n > MAX_ADDRS_IN_BLOOM THEN Append(lit, Chunk!zeroBloom) ELSE lit
  BY DEF Chunk!addToSet
<1>3. /\ some \in Seq(Filters) /\ Len(some) \in Nat \ {0}
      /\ some[Len(some)].n <= MAX_ADDRS_IN_BLOOM
      /\ some[Len(some)] \in Filters
  BY <1>0, <1>1
<1>4. \A i \in DOMAIN bs : i \in DOMAIN some /\ some[i] = bs[i]
  OBVIOUS
<1> HIDE DEF some
<1>5. last \in Filters /\ Bits[a] \subseteq last.bits /\ some[Len(some)].bits \subseteq last.bits
      /\ last.n = some[Len(some)].n + 1
  BY <1>0, <1>3 DEF Filters
<1> HIDE DEF last
<1>6. /\ lit \in Seq(Filters) /\ Len(lit) = Len(some) /\ lit[Len(some)] = last
      /\ \A i \in 1 .. Len(some) : some[i].bits \subseteq lit[i].bits
  BY <1>3, <1>5
<1> HIDE DEF lit, new
<1>7. /\ new \in Seq(Filters) /\ Len(new) \in Nat /\ Len(some) <= Len(new)
      /\ \A i \in 1 .. Len(some) : new[i] = lit[i]
      /\ new[Len(new)].n <= MAX_ADDRS_IN_BLOOM
  <2>1. CASE last.n > MAX_ADDRS_IN_BLOOM
    BY <2>1, <1>0, <1>1, <1>2, <1>3, <1>6
  <2>2. CASE ~(last.n > MAX_ADDRS_IN_BLOOM)
    <3>1. new = lit /\ last.n <= MAX_ADDRS_IN_BLOOM
      BY <2>2, <1>2, <1>0, <1>3, <1>5 DEF Filters
    <3>2. QED
      BY <3>1, <1>3, <1>6
  <2>3. QED
    BY <2>1, <2>2
<1>8. \A i \in 1 .. Len(some) : i \in DOMAIN new
  BY <1>7, <1>3
<1>9. Chunk!isMember(new, a)
  <2>1. Len(some) \in 1 .. Len(some)
    BY <1>3
  <2>2. Bits[a] \subseteq new[Len(some)].bits /\ Len(some) \in DOMAIN new
    BY <2>1, <1>5, <1>6, <1>7, <1>8
  <2>3. QED
    BY <2>2 DEF Chunk!isMember
<1>10. ASSUME NEW b \in IndexAddrs, Chunk!isMember(bs, b)
       PROVE  Chunk!isMember(new, b)
  <2>1. PICK i \in DOMAIN bs : Bits[b] \subseteq bs[i].bits
    BY <1>10 DEF Chunk!isMember
  <2>2. i \in 1 .. Len(some) /\ some[i] = bs[i]
    BY <1>3, <1>4
  <2>3. Bits[b] \subseteq new[i].bits /\ i \in DOMAIN new
    BY <2>1, <2>2, <1>6, <1>7, <1>8
  <2>4. QED
    BY <2>3 DEF Chunk!isMember
<1>11. new # <<>>
  BY <1>7, <1>3
<1>12. QED
  BY <1>7, <1>9, <1>10, <1>11 DEF new

\* After addToSet the filters have every address of the table with the new record.
LEMMA BloomsStillHold ==
    ASSUME NEW bs \in Seq(Filters), NEW t \in Seq(Records), NEW a \in IndexAddrs, NEW o \in Nat,
           NEW c \in Nat, Hold(bs, t)
    PROVE  /\ Chunk!addToSet(bs, a) \in Seq(Filters)
           /\ Hold(Chunk!addToSet(bs, a), Append(t, [addr |-> a, offset |-> o, cnt |-> c]))
<1> DEFINE new == Chunk!addToSet(bs, a)
           r == [addr |-> a, offset |-> o, cnt |-> c]
           u == Append(t, r)
<1>1. /\ new \in Seq(Filters) /\ new[Len(new)].n <= MAX_ADDRS_IN_BLOOM
      /\ Chunk!isMember(new, a)
      /\ \A b \in IndexAddrs : Chunk!isMember(bs, b) => Chunk!isMember(new, b)
  BY BloomAdds DEF Hold
<1>2. \A i \in DOMAIN t : t[i] \in Records
  OBVIOUS
<1>3. \A i \in DOMAIN t : t[i].addr \in IndexAddrs /\ Chunk!isMember(new, t[i].addr)
  BY <1>1, <1>2 DEF Hold, Records
<1>4. r.addr = a /\ r \in Records
  BY DEF Records
<1>5. \A i \in DOMAIN u : u[i] = r \/ (i \in DOMAIN t /\ u[i] = t[i])
  BY <1>4
<1> HIDE DEF new, r, u
<1>6. \A i \in DOMAIN u : Chunk!isMember(new, u[i].addr)
  BY <1>1, <1>3, <1>4, <1>5
<1>7. QED
  BY <1>1, <1>6 DEF Hold, new, u, r

\* The record of the address that is closed follows those of the table.
LEMMA RecordAdded ==
    ASSUME NEW ls \in Seq(IndexAddrs \X Apps), NEW t \in Seq(Records),
           NEW o \in Nat, NEW c \in Nat, c # 0, NEW a \in IndexAddrs,
           Tiled(ls, t, o), Ascending(t),
           \A i \in DOMAIN t : t[i].addr < a,
           \A k \in (o + 1) .. (o + c) : ls[k][1] = a,
           NEW r, r = [addr |-> a, offset |-> o, cnt |-> c]
    PROVE  /\ Append(t, r) \in Seq(Records)
           /\ Tiled(ls, Append(t, r), o + c)
           /\ Ascending(Append(t, r))
           /\ \A i \in DOMAIN Append(t, r) : Append(t, r)[i].addr <= a
<1> DEFINE u == Append(t, r)
           n == Len(t)
<1>0. IndexAddrs \subseteq Nat
  BY ChunkConstants DEF Chunk!ChunkFileConstants
<1>1. /\ r \in Records /\ r.addr = a /\ r.offset = o /\ r.cnt = c
  BY DEF Records
<1>2. /\ u \in Seq(Records) /\ Len(u) = n + 1 /\ n \in Nat /\ u[n + 1] = r
      /\ DOMAIN t = 1 .. n /\ DOMAIN u = 1 .. (n + 1)
      /\ \A i \in 1 .. n : u[i] = t[i] /\ t[i] \in Records
  BY <1>1
<1>3. \A i \in 1 .. n : t[i].addr \in Nat /\ t[i].offset \in Nat /\ t[i].cnt \in Nat
  BY <1>0, <1>2 DEF Records
<1>4. n = 0 <=> t = <<>>
  BY <1>2
<1> HIDE DEF u, n
<1>5. Ascending(u)
  <2>1. ASSUME NEW i \in 1 .. (n + 1), NEW j \in 1 .. (n + 1), i < j
        PROVE  u[i].addr < u[j].addr
    <3>1. i \in 1 .. n /\ u[i] = t[i]
      BY <2>1, <1>2
    <3>2. CASE j = n + 1
      BY <3>1, <3>2, <1>1, <1>2
    <3>3. CASE j # n + 1
      <4>1. j \in 1 .. n /\ u[j] = t[j]
        BY <3>3, <1>2
      <4>2. QED
        BY <2>1, <3>1, <4>1, <1>2 DEF Ascending
    <3>4. QED
      BY <3>2, <3>3
  <2>2. QED
    BY <2>1, <1>2 DEF Ascending
<1>6. \A i \in DOMAIN u : u[i].addr <= a
  <2>1. a \in Nat
    BY <1>0
  <2>2. ASSUME NEW i \in 1 .. n
        PROVE  u[i].addr <= a
    <3>1. u[i] = t[i] /\ t[i].addr \in Nat /\ t[i].addr < a
      BY <1>2, <1>3
    <3>2. QED
      BY <3>1, <2>1
  <2>3. u[n + 1].addr <= a
    BY <2>1, <1>1, <1>2
  <2>4. \A i \in DOMAIN u : i \in 1 .. n \/ i = n + 1
    BY <1>2
  <2>5. QED
    BY <2>2, <2>3, <2>4
<1>7. /\ \A i \in 1 .. n : t[i].offset = IF i = 1 THEN 0 ELSE t[i - 1].offset + t[i - 1].cnt
      /\ \A i \in 1 .. n : t[i].offset + t[i].cnt <= o
      /\ \A i \in 1 .. n : \A k \in 1 .. Len(ls) : InRecord(t[i], k) => ls[k][1] = t[i].addr
      /\ o = IF t = <<>> THEN 0 ELSE t[n].offset + t[n].cnt
      /\ n <= o
      /\ \A k \in 1 .. o : \E i \in 1 .. n : InRecord(t[i], k)
  BY <1>2 DEF Tiled, n
<1>8. ASSUME NEW i \in 1 .. (n + 1)
      PROVE  /\ u[i].offset = IF i = 1 THEN 0 ELSE u[i - 1].offset + u[i - 1].cnt
             /\ u[i].offset + u[i].cnt <= o + c
             /\ \A k \in 1 .. Len(ls) : InRecord(u[i], k) => ls[k][1] = u[i].addr
  <2>1. CASE i = n + 1
    <3>1. u[i].offset = IF i = 1 THEN 0 ELSE u[i - 1].offset + u[i - 1].cnt
      BY <2>1, <1>1, <1>2, <1>4, <1>7
    <3>2. \A k \in 1 .. Len(ls) : InRecord(u[i], k) => ls[k][1] = u[i].addr
      BY <2>1, <1>1, <1>2 DEF InRecord
    <3>3. QED
      BY <3>1, <3>2, <2>1, <1>1, <1>2
  <2>2. CASE i # n + 1
    <3>1. i \in 1 .. n /\ (i # 1 => i - 1 \in 1 .. n)
      BY <2>2, <1>2
    <3>2. u[i] = t[i] /\ (i # 1 => u[i - 1] = t[i - 1])
      BY <3>1, <1>2
    <3>3. t[i].offset + t[i].cnt <= o + c
      <4>1. t[i].offset + t[i].cnt <= o
        BY <3>1, <1>7
      <4>2. t[i].offset \in Nat /\ t[i].cnt \in Nat
        BY <3>1, <1>3
      <4>3. \A x, y \in Nat : x + y <= o => x + y <= o + c
        OBVIOUS
      <4>4. QED
        BY <4>1, <4>2, <4>3
    <3>4. QED
      BY <3>1, <3>2, <3>3, <1>7, ZenonT(60)
  <2>3. QED
    BY <2>1, <2>2
<1>9. ASSUME NEW k \in 1 .. (o + c)
      PROVE  \E i \in 1 .. (n + 1) : InRecord(u[i], k)
  <2>1. CASE k <= o
    BY <2>1, <1>2, <1>7
  <2>2. CASE k > o
    <3>1. InRecord(r, k)
      BY <2>2, <1>1 DEF InRecord
    <3>2. n + 1 \in 1 .. (n + 1) /\ u[n + 1] = r
      BY <1>2
    <3>3. QED
      BY <3>1, <3>2
  <2>3. QED
    BY <2>1, <2>2
<1>10. u # <<>> /\ u[Len(u)].offset + u[Len(u)].cnt = o + c /\ Len(u) <= o + c
  BY <1>1, <1>2, <1>7
<1>11. Tiled(ls, u, o + c)
  BY <1>2, <1>8, <1>9, <1>10 DEF Tiled
<1>12. QED
  BY <1>2, <1>5, <1>6, <1>11 DEF u

\* What a record of a table that tiles the lines has is what the lines of its address say.
LEMMA RecordFinds ==
    ASSUME NEW ls \in Seq(IndexAddrs \X Apps), NEW t \in Seq(Records),
           Tiled(ls, t, Len(ls)), Ascending(t)
    PROVE  /\ \A i \in DOMAIN t : /\ t[i].offset + t[i].cnt <= Len(ls)
                                  /\ {k \in DOMAIN ls : ls[k][1] = t[i].addr}
                                       = (t[i].offset + 1) .. (t[i].offset + t[i].cnt)
           /\ \A a : (\A i \in DOMAIN t : t[i].addr # a) => \A k \in DOMAIN ls : ls[k][1] # a
<1>0. IndexAddrs \subseteq Nat
  BY ChunkConstants DEF Chunk!ChunkFileConstants
<1>1. DOMAIN ls = 1 .. Len(ls) /\ Len(ls) \in Nat
  OBVIOUS
<1>2. \A i \in DOMAIN t : t[i].addr \in Nat /\ t[i].offset \in Nat /\ t[i].cnt \in Nat
  <2>1. \A i \in DOMAIN t : t[i] \in Records
    OBVIOUS
  <2>2. QED
    BY <2>1, <1>0 DEF Records
<1>3. \A k \in DOMAIN ls : \E i \in DOMAIN t : InRecord(t[i], k) /\ ls[k][1] = t[i].addr
  BY <1>1 DEF Tiled
<1>4. \A i, j \in DOMAIN t : t[i].addr = t[j].addr => i = j
  <2>1. \A i, j \in DOMAIN t : i \in Int /\ j \in Int
    OBVIOUS
  <2>2. QED
    BY <2>1, <1>2 DEF Ascending
<1>5. ASSUME NEW i \in DOMAIN t
      PROVE  /\ t[i].offset + t[i].cnt <= Len(ls)
             /\ {k \in DOMAIN ls : ls[k][1] = t[i].addr}
                  = (t[i].offset + 1) .. (t[i].offset + t[i].cnt)
  <2>1. t[i].offset + t[i].cnt <= Len(ls)
    BY DEF Tiled
  <2>2. \A k \in DOMAIN ls : ls[k][1] = t[i].addr <=> InRecord(t[i], k)
    BY <1>1, <1>3, <1>4 DEF Tiled
  <2>3. QED
    BY <2>1, <2>2, <1>1, <1>2 DEF InRecord
<1>6. QED
  BY <1>3, <1>5

-----------------------------------------------------------------------------
LEMMA ChunkStart == ChunkInit => ChunkInv
<1> SUFFICES ASSUME ChunkInit PROVE ChunkInv
  OBVIOUS
<1>1. /\ IndexAddrs \subseteq Nat \ {0} /\ Apps \subseteq Nat /\ MAX_ADDRS_IN_BLOOM \in Nat \ {0}
  BY ChunkConstants DEF Chunk!ChunkFileConstants
<1>2. /\ part = "chunk" /\ pc = "write" /\ lineNo = 0 /\ prev = 0 /\ offset = 0 /\ cnt = 0
      /\ table = <<>> /\ blockTable = <<>> /\ blooms = <<>>
      /\ search \in IndexAddrs /\ lo = 0 /\ hi = 0 /\ items = <<>>
  BY DEF ChunkInit, Chunk!Init
<1>3. PICK S \in SUBSET (IndexAddrs \X Apps) :
         S # {} /\ Chunk!IsFiniteSet(S) /\ lines = Chunk!Sorted(S)
  BY DEF ChunkInit, Chunk!Init
<1>4. /\ lines \in Seq(S) /\ Len(lines) # 0
      /\ \A i, j \in 1 .. Len(lines) : i <= j => lines[i][1] <= lines[j][1]
  <2>1. S \subseteq Nat \X Nat /\ IsFiniteSet(S)
    BY <1>1, <1>3, SameCardinality
  <2>2. QED
    BY <2>1, <1>3, SortedAscends
<1>5. lines \in Seq(IndexAddrs \X Apps)
  BY <1>3, <1>4
<1>6. LinesWritten
  BY <1>2, <1>4, <1>5 DEF LinesWritten
<1>7. TableRight
  BY <1>2 DEF TableRight, Covered, Tiled, Ascending, Hold
<1>8. SearchRight /\ Chunk!FindsExactly
  BY <1>2 DEF SearchRight, Chunk!FindsExactly
<1>9. Chunk!TypeOK
  BY <1>1, <1>2, <1>5 DEF Chunk!TypeOK
<1>10. QED
  BY <1>2, <1>6, <1>7, <1>8, <1>9 DEF ChunkInv

\* What the steps of the proof use of the invariant and of the constants.
LEMMA ChunkFacts ==
    ASSUME ChunkInv
    PROVE  /\ IndexAddrs \subseteq Nat \ {0} /\ Apps \subseteq Nat
           /\ MAX_ADDRS_IN_BLOOM \in Nat \ {0}
           /\ lines \in Seq(IndexAddrs \X Apps) /\ Len(lines) \in Nat
           /\ DOMAIN lines = 1 .. Len(lines)
           /\ \A i \in 1 .. Len(lines) : lines[i][1] \in IndexAddrs /\ lines[i][2] \in Apps
           /\ lineNo \in 0 .. Len(lines) /\ offset \in 0 .. Len(lines) /\ cnt \in 0 .. Len(lines)
           /\ table \in Seq(Records) /\ blooms \in Seq(Filters) /\ blockTable \in Seq(Apps)
           /\ search \in IndexAddrs /\ prev \in IndexAddrs \cup {0}
           /\ lo \in 0 .. Len(lines) /\ hi \in 0 .. Len(lines) /\ items \in Seq(Apps)
<1>1. /\ IndexAddrs \subseteq Nat \ {0} /\ Apps \subseteq Nat /\ MAX_ADDRS_IN_BLOOM \in Nat \ {0}
  BY ChunkConstants DEF Chunk!ChunkFileConstants
<1>2. lines \in Seq(IndexAddrs \X Apps) /\ Len(lines) \in Nat /\ DOMAIN lines = 1 .. Len(lines)
  BY DEF ChunkInv, LinesWritten
<1>3. \A i \in 1 .. Len(lines) : lines[i][1] \in IndexAddrs /\ lines[i][2] \in Apps
  <2>1. \A i \in 1 .. Len(lines) : lines[i] \in IndexAddrs \X Apps
    BY <1>2
  <2>2. QED
    BY <2>1
<1>4. /\ lineNo \in 0 .. Len(lines) /\ offset \in 0 .. Len(lines) /\ cnt \in 0 .. Len(lines)
      /\ table \in Seq(Records) /\ blooms \in Seq(Filters) /\ blockTable \in Seq(Apps)
      /\ search \in IndexAddrs /\ prev \in IndexAddrs \cup {0}
      /\ lo \in 0 .. Len(lines) /\ hi \in 0 .. Len(lines) /\ items \in Seq(Apps)
  BY DEF ChunkInv, Chunk!TypeOK, Records, Filters
<1>5. QED
  BY <1>1, <1>2, <1>3, <1>4

\* A line is written, and with it the record of the address before it when it is another.
LEMMA WriteLineKeeps ==
    ASSUME ChunkInv, Chunk!WriteLine, UNCHANGED part
    PROVE  ChunkInv'
<1>num. /\ Len(lines) \in Nat /\ lineNo \in Nat /\ offset \in Nat /\ cnt \in Nat
        /\ lineNo <= Len(lines) /\ offset <= Len(lines) /\ cnt <= Len(lines)
  BY ChunkFacts
<1>line. \A i \in 1 .. Len(lines) : lines[i][1] \in IndexAddrs /\ lines[i][2] \in Apps
  BY ChunkFacts
<1>type. /\ IndexAddrs \subseteq Nat \ {0} /\ prev \in IndexAddrs \cup {0}
         /\ lines \in Seq(IndexAddrs \X Apps)
         /\ table \in Seq(Records) /\ blooms \in Seq(Filters) /\ blockTable \in Seq(Apps)
  BY ChunkFacts
<1> DEFINE a == lines[lineNo + 1][1]
           closes == prev # 0 /\ a # prev
<1>1. /\ pc = "write" /\ lineNo < Len(lines)
      /\ blockTable' = Append(blockTable, lines[lineNo + 1][2])
      /\ prev' = a /\ lineNo' = lineNo + 1
      /\ UNCHANGED <<lines, pc, search, lo, hi, items>>
  BY DEF Chunk!WriteLine, Chunk!readVars
<1>2. closes => /\ blooms' = Chunk!addToSet(blooms, prev)
                /\ table' = Append(table, [addr |-> prev, offset |-> offset, cnt |-> cnt])
                /\ offset' = offset + cnt /\ cnt' = 1
  BY DEF Chunk!WriteLine, Chunk!CloseAddress
<1>3. ~closes => cnt' = cnt + 1 /\ UNCHANGED <<table, blooms, offset>>
  BY DEF Chunk!WriteLine
<1>4. /\ a \in IndexAddrs /\ a # 0 /\ a \in Nat /\ prev \in Nat
      /\ lineNo + 1 \in 1 .. Len(lines) /\ lineNo \in Nat
  <2>1. lineNo \in Nat /\ Len(lines) \in Nat /\ lineNo + 1 \in 1 .. Len(lines)
    BY <1>1, <1>num
  <2>2. a \in IndexAddrs
    BY <2>1, <1>line
  <2>3. QED
    <3>1. a \in Nat \ {0}
      BY <2>2, <1>type
    <3>2. prev \in Nat
      BY <1>type
    <3>3. QED
      BY <2>1, <2>2, <3>1, <3>2
<1> HIDE DEF closes, a
<1>5. /\ Len(blockTable) = lineNo /\ offset + cnt = lineNo
      /\ \A i \in 1 .. lineNo : blockTable[i] = lines[i][2]
      /\ prev = 0 <=> lineNo = 0
      /\ lineNo # 0 => cnt # 0
      /\ \A i \in (offset + 1) .. lineNo : lines[i][1] = prev
      /\ \A i, j \in 1 .. Len(lines) : i <= j => lines[i][1] <= lines[j][1]
      /\ Len(lines) # 0
  BY DEF ChunkInv, LinesWritten
<1>6. /\ Len(blockTable') = lineNo' /\ blockTable' \in Seq(Apps)
      /\ \A i \in 1 .. lineNo' : blockTable'[i] = lines[i][2]
  <2>1. lines[lineNo + 1][2] \in Apps
    BY <1>4, <1>line
  <2> DEFINE x == lines[lineNo + 1][2]
  <2> HIDE DEF x
  <2>2. /\ Len(Append(blockTable, x)) = lineNo + 1 /\ Append(blockTable, x) \in Seq(Apps)
        /\ Append(blockTable, x)[lineNo + 1] = x
        /\ \A i \in 1 .. lineNo : Append(blockTable, x)[i] = blockTable[i]
    BY <2>1, <1>4, <1>5, <1>type DEF x
  <2>3. QED
    BY <2>2, <1>1, <1>4, <1>5 DEF x
<1>7. closes => /\ prev < a /\ cnt # 0 /\ prev \in IndexAddrs /\ lineNo # 0
  <2> SUFFICES ASSUME closes PROVE prev < a /\ cnt # 0 /\ prev \in IndexAddrs /\ lineNo # 0
    OBVIOUS
  <2>1. prev # 0 /\ a # prev /\ lineNo # 0 /\ cnt # 0 /\ prev \in IndexAddrs
    BY <1>5, <1>type DEF closes
  <2>2. lineNo \in (offset + 1) .. lineNo /\ lineNo \in 1 .. Len(lines)
    BY <2>1, <1>4, <1>5, <1>num
  <2>3. lines[lineNo][1] = prev /\ lines[lineNo][1] <= a
    BY <2>2, <1>4, <1>5 DEF a
  <2>4. QED
    BY <2>1, <2>3, <1>4
<1>8. ~closes => prev = 0 \/ prev = a
  BY DEF closes
<1>9. /\ offset' + cnt' = lineNo' /\ cnt' # 0 /\ prev' # 0 /\ lineNo' # 0
      /\ offset' \in 0 .. Len(lines) /\ cnt' \in 0 .. Len(lines) /\ lineNo' \in 0 .. Len(lines)
  <2>1. lineNo' = lineNo + 1 /\ prev' # 0
    BY <1>1, <1>4
  <2>2. /\ offset \in Nat /\ cnt \in Nat /\ Len(lines) \in Nat /\ lineNo \in Nat
        /\ lineNo + 1 <= Len(lines) /\ offset + cnt = lineNo
    BY <1>1, <1>4, <1>5, <1>num
  <2>3. CASE closes
    BY <2>1, <2>2, <2>3, <1>2
  <2>4. CASE ~closes
    BY <2>1, <2>2, <2>4, <1>3
  <2>5. QED
    BY <2>3, <2>4
<1>10. \A i \in (offset' + 1) .. lineNo' : lines[i][1] = prev'
  <2>1. CASE closes
    <3>1. offset' = lineNo /\ lineNo' = lineNo + 1
      BY <2>1, <1>1, <1>2, <1>5, <1>num
    <3>2. QED
      BY <3>1, <1>1, <1>4, <1>num DEF a
  <2>2. CASE ~closes
    <3> SUFFICES ASSUME NEW i \in (offset + 1) .. (lineNo + 1) PROVE lines[i][1] = a
      BY <2>2, <1>1, <1>3
    <3>1. CASE i = lineNo + 1
      BY <3>1 DEF a
    <3>2. CASE i # lineNo + 1
      <4>1. i \in (offset + 1) .. lineNo
        BY <3>2, <1>4, <1>num
      <4>2. lines[i][1] = prev /\ prev # 0
        BY <4>1, <1>4, <1>5, <1>num
      <4>3. QED
        BY <4>2, <2>2, <1>8
    <3>3. QED
      BY <3>1, <3>2
  <2>3. QED
    BY <2>1, <2>2
<1>11. LinesWritten'
  BY <1>1, <1>5, <1>6, <1>9, <1>10, <1>type DEF LinesWritten
<1>12. /\ Tiled(lines, table, offset) /\ Ascending(table)
       /\ \A i \in DOMAIN table : table[i].addr < prev
       /\ Hold(blooms, table)
  BY <1>1 DEF ChunkInv, TableRight, Covered
<1>13. /\ table' \in Seq(Records) /\ blooms' \in Seq(Filters)
       /\ Tiled(lines, table', offset') /\ Ascending(table') /\ Hold(blooms', table')
       /\ \A i \in DOMAIN table' : table'[i].addr < a
  <2>1. CASE closes
    <3> DEFINE r == [addr |-> prev, offset |-> offset, cnt |-> cnt]
    <3>1. \A k \in (offset + 1) .. (offset + cnt) : lines[k][1] = prev
      BY <1>5, <1>num
    <3>2. offset \in Nat /\ cnt \in Nat /\ cnt # 0 /\ prev \in IndexAddrs /\ prev < a
      BY <2>1, <1>7, <1>num
    <3>3. /\ Append(table, r) \in Seq(Records)
          /\ Tiled(lines, Append(table, r), offset + cnt)
          /\ Ascending(Append(table, r))
          /\ \A i \in DOMAIN Append(table, r) : Append(table, r)[i].addr <= prev
      BY <3>1, <3>2, <1>12, <1>type, RecordAdded
    <3>4. /\ Chunk!addToSet(blooms, prev) \in Seq(Filters)
          /\ Hold(Chunk!addToSet(blooms, prev), Append(table, r))
      BY <3>2, <1>12, <1>type, BloomsStillHold
    <3>5. table' = Append(table, r) /\ blooms' = Chunk!addToSet(blooms, prev) /\ offset' = offset + cnt
      BY <2>1, <1>2
    <3>6. \A i \in DOMAIN table' : table'[i].addr \in Nat /\ table'[i].addr <= prev
      <4>1. \A i \in DOMAIN table' : table'[i] \in Records
        BY <3>3, <3>5
      <4>2. QED
        BY <4>1, <3>3, <3>5, <1>type DEF Records
    <3>7. \A i \in DOMAIN table' : table'[i].addr < a
      BY <3>2, <3>6, <1>4
    <3> HIDE DEF r
    <3>8. QED
      BY <3>3, <3>4, <3>5, <3>7
  <2>2. CASE ~closes
    <3>1. \A i \in DOMAIN table : table[i].addr < a
      <4>1. CASE prev = 0
        <5>1. \A i \in DOMAIN table : table[i] \in Records
          BY <1>type
        <5>2. \A i \in DOMAIN table : table[i].addr \in Nat
          BY <5>1, <1>type DEF Records
        <5>3. QED
          BY <4>1, <5>2, <1>12
      <4>2. CASE prev = a
        BY <4>2, <1>12
      <4>3. QED
        BY <4>1, <4>2, <2>2, <1>8
    <3>2. QED
      BY <3>1, <2>2, <1>3, <1>12, <1>type
  <2>3. QED
    BY <2>1, <2>2
<1>14. TableRight'
  BY <1>1, <1>13 DEF TableRight, Covered
<1>15. SearchRight' /\ Chunk!FindsExactly'
  BY <1>1 DEF ChunkInv, SearchRight, Chunk!FindsExactly
<1>16. Chunk!TypeOK'
  BY <1>1, <1>4, <1>6, <1>9, <1>13 DEF ChunkInv, Chunk!TypeOK, Records, Filters
<1>17. part' = "chunk"
  BY DEF ChunkInv
<1>18. QED
  BY <1>11, <1>14, <1>15, <1>16, <1>17 DEF ChunkInv

\* The address that is open after the last line is closed.
LEMMA WriteLastKeeps ==
    ASSUME ChunkInv, Chunk!WriteLast, UNCHANGED part
    PROVE  ChunkInv'
<1> DEFINE r == [addr |-> prev, offset |-> offset, cnt |-> cnt]
<1>1. /\ pc = "write" /\ pc' = "written" /\ lineNo = Len(lines)
      /\ blooms' = Chunk!addToSet(blooms, prev) /\ table' = Append(table, r)
      /\ UNCHANGED <<lines, lineNo, prev, offset, cnt, blockTable, search, lo, hi, items>>
  BY DEF Chunk!WriteLast, Chunk!CloseAddress, Chunk!readVars
<1>num. /\ Len(lines) \in Nat /\ offset \in Nat /\ cnt \in Nat
  BY ChunkFacts
<1>type. /\ prev \in IndexAddrs \cup {0} /\ lines \in Seq(IndexAddrs \X Apps)
         /\ table \in Seq(Records) /\ blooms \in Seq(Filters)
  BY ChunkFacts
<1>2. /\ offset + cnt = lineNo /\ (prev = 0 <=> lineNo = 0) /\ (lineNo # 0 => cnt # 0)
      /\ \A i \in (offset + 1) .. lineNo : lines[i][1] = prev
      /\ Len(lines) # 0
  BY DEF ChunkInv, LinesWritten
<1>3. /\ prev \in IndexAddrs /\ cnt # 0 /\ offset + cnt = Len(lines)
      /\ \A i \in (offset + 1) .. (offset + cnt) : lines[i][1] = prev
  BY <1>1, <1>2, <1>type
<1>4. /\ Tiled(lines, table, offset) /\ Ascending(table)
      /\ \A i \in DOMAIN table : table[i].addr < prev
      /\ Hold(blooms, table)
  BY <1>1 DEF ChunkInv, TableRight, Covered
<1>5. /\ Append(table, r) \in Seq(Records)
      /\ Tiled(lines, Append(table, r), offset + cnt)
      /\ Ascending(Append(table, r))
  BY <1>num, <1>type, <1>3, <1>4, RecordAdded
<1>6. /\ Chunk!addToSet(blooms, prev) \in Seq(Filters)
      /\ Hold(Chunk!addToSet(blooms, prev), Append(table, r))
  BY <1>num, <1>type, <1>3, <1>4, BloomsStillHold
<1> HIDE DEF r
<1>7. TableRight'
  BY <1>1, <1>3, <1>5, <1>6 DEF TableRight, Covered
<1>8. LinesWritten'
  BY <1>1 DEF ChunkInv, LinesWritten
<1>9. SearchRight' /\ Chunk!FindsExactly'
  BY <1>1 DEF ChunkInv, SearchRight, Chunk!FindsExactly
<1>10. Chunk!TypeOK'
  BY <1>1, <1>5, <1>6 DEF ChunkInv, Chunk!TypeOK, Records, Filters
<1>11. part' = "chunk"
  BY DEF ChunkInv
<1>12. QED
  BY <1>7, <1>8, <1>9, <1>10, <1>11 DEF ChunkInv

\* Without the address in any record there is no line of it, and nothing is to be found.
LEMMA NothingToFind ==
    ASSUME ChunkInv, pc \notin {"write", "trap"}, \A i \in DOMAIN table : table[i].addr # search,
           UNCHANGED <<lines, search>>, items' = <<>>
    PROVE  Chunk!FindsExactly'
<1>1. \A k \in DOMAIN lines : lines[k][1] # search
  <2>1. Tiled(lines, table, Len(lines)) /\ Ascending(table)
    BY DEF ChunkInv, TableRight, Covered, SearchRight
  <2>2. lines \in Seq(IndexAddrs \X Apps) /\ table \in Seq(Records)
    BY ChunkFacts
  <2>3. QED
    BY <2>1, <2>2, RecordFinds
<1>2. {i \in DOMAIN lines : lines[i][1] = search} = (0 + 1) .. (0 + Len(<<>>))
  BY <1>1
<1>3. 0 \in 0 .. Len(lines)
  BY ChunkFacts
<1>4. \E o \in 0 .. Len(lines') :
         /\ {i \in DOMAIN lines' : lines'[i][1] = search'} = (o + 1) .. (o + Len(items'))
         /\ \A k \in DOMAIN items' : items'[k] = lines'[o + k][2]
  BY <1>2, <1>3
<1>5. QED
  BY <1>4 DEF Chunk!FindsExactly

\* An address that the filters do not have is in no record.
LEMMA AskBloomKeeps ==
    ASSUME ChunkInv, Chunk!AskBloom, UNCHANGED part
    PROVE  ChunkInv'
<1>1. /\ pc = "written" /\ hi' = Len(table) /\ lo' = 0
      /\ pc' = IF Chunk!isMember(blooms, search) THEN "bsearch" ELSE "end"
      /\ UNCHANGED <<lines, lineNo, prev, offset, cnt, table, blockTable, blooms, search, items>>
  BY DEF Chunk!AskBloom, Chunk!fileVars
<1>2. /\ lineNo = Len(lines) /\ items = <<>>
  BY <1>1 DEF ChunkInv, SearchRight
<1>3. /\ table \in Seq(Records) /\ Len(lines) \in Nat /\ search \in IndexAddrs
  BY ChunkFacts
<1>4. /\ Tiled(lines, table, Len(lines)) /\ Hold(blooms, table)
  BY <1>1, <1>2 DEF ChunkInv, TableRight, Covered
<1>5. Len(table) \in 0 .. Len(lines) /\ 0 \in 0 .. Len(lines) /\ DOMAIN table = 1 .. Len(table)
  BY <1>3, <1>4 DEF Tiled
<1>6. TableRight' /\ LinesWritten'
  BY <1>1, <1>2 DEF ChunkInv, TableRight, LinesWritten, Covered
<1>7. Chunk!TypeOK'
  BY <1>1, <1>5 DEF ChunkInv, Chunk!TypeOK
<1>8. SearchRight'
  BY <1>1, <1>2, <1>5 DEF SearchRight
<1>9. Chunk!FindsExactly'
  <2>1. CASE Chunk!isMember(blooms, search)
    BY <2>1, <1>1 DEF Chunk!FindsExactly
  <2>2. CASE ~Chunk!isMember(blooms, search)
    <3>1. \A i \in DOMAIN table : table[i].addr # search
      BY <2>2, <1>4 DEF Hold
    <3>2. QED
      BY <3>1, <1>1, <1>2, NothingToFind
  <2>3. QED
    BY <2>1, <2>2
<1>10. part' = "chunk"
  BY DEF ChunkInv
<1>11. QED
  BY <1>6, <1>7, <1>8, <1>9, <1>10 DEF ChunkInv

\* bsearch leaves out no part of the table where the address may be, and takes the slice
\* of the record that it finds.
LEMMA ProbeKeeps ==
    ASSUME ChunkInv, Chunk!Probe, UNCHANGED part
    PROVE  ChunkInv'
<1> DEFINE m == (lo + hi) \div 2
           rec == table[m + 1]
<1>1. /\ pc = "bsearch" /\ lo < hi
      /\ UNCHANGED <<lines, lineNo, prev, offset, cnt, table, blockTable, blooms, search>>
      /\ \/ search < rec.addr /\ hi' = m /\ UNCHANGED <<lo, items, pc>>
         \/ search > rec.addr /\ lo' = m + 1 /\ UNCHANGED <<hi, items, pc>>
         \/ /\ search = rec.addr /\ pc' = "end" /\ UNCHANGED <<lo, hi>>
            /\ items' = SubSeq(blockTable, rec.offset + 1, rec.offset + rec.cnt)
  BY DEF Chunk!Probe, Chunk!Middle, Chunk!Slice, Chunk!fileVars
<1>2. /\ lineNo = Len(lines) /\ items = <<>> /\ hi <= Len(table)
      /\ \A i \in DOMAIN table : table[i].addr = search => lo < i /\ i <= hi
  BY <1>1 DEF ChunkInv, SearchRight
<1>3. /\ table \in Seq(Records) /\ Len(lines) \in Nat /\ search \in IndexAddrs
      /\ lo \in 0 .. Len(lines) /\ hi \in 0 .. Len(lines) /\ lines \in Seq(IndexAddrs \X Apps)
      /\ blockTable \in Seq(Apps) /\ IndexAddrs \subseteq Nat
  BY ChunkFacts
<1>4. /\ m \in Nat /\ lo <= m /\ m < hi /\ m + 1 \in 1 .. Len(table) /\ m + 1 \in 0 .. Len(lines)
      /\ DOMAIN table = 1 .. Len(table)
  BY <1>1, <1>2, <1>3
<1>5. /\ Tiled(lines, table, Len(lines)) /\ Ascending(table)
  BY <1>1, <1>2 DEF ChunkInv, TableRight, Covered
<1>6. rec \in Records
  BY <1>3, <1>4
<1>7. rec.addr \in Nat /\ rec.offset \in Nat /\ rec.cnt \in Nat /\ search \in Nat
  BY <1>6, <1>3 DEF Records
<1>8. \A i \in DOMAIN table : /\ i < m + 1 => table[i].addr < rec.addr
                              /\ m + 1 < i => rec.addr < table[i].addr
  BY <1>4, <1>5 DEF Ascending
<1> HIDE DEF m, rec
<1>9. TableRight' /\ LinesWritten'
  BY <1>1, <1>2 DEF ChunkInv, TableRight, LinesWritten, Covered
<1>10. part' = "chunk"
  BY DEF ChunkInv
<1>11. CASE search < rec.addr /\ hi' = m /\ UNCHANGED <<lo, items, pc>>
  <2>1. \A i \in DOMAIN table : table[i].addr = search => lo < i /\ i <= m
    <3> SUFFICES ASSUME NEW i \in 1 .. Len(table), table[i].addr = search
                 PROVE  lo < i /\ i <= m
      BY <1>4
    <3>1. i # m + 1 /\ i \in Int
      BY <1>7, <1>11 DEF rec
    <3>2. QED
      BY <3>1, <1>2, <1>4, <1>7, <1>8, <1>11
  <2>2. SearchRight'
    BY <2>1, <1>1, <1>2, <1>3, <1>4, <1>11 DEF SearchRight
  <2>3. Chunk!TypeOK' /\ Chunk!FindsExactly'
    BY <1>1, <1>3, <1>4, <1>11 DEF ChunkInv, Chunk!TypeOK, Chunk!FindsExactly
  <2>4. QED
    BY <2>2, <2>3, <1>9, <1>10 DEF ChunkInv
<1>12. CASE search > rec.addr /\ lo' = m + 1 /\ UNCHANGED <<hi, items, pc>>
  <2>1. \A i \in DOMAIN table : table[i].addr = search => m + 1 < i /\ i <= hi
    <3> SUFFICES ASSUME NEW i \in 1 .. Len(table), table[i].addr = search
                 PROVE  m + 1 < i /\ i <= hi
      BY <1>4
    <3>1. i # m + 1 /\ i \in Int
      BY <1>7, <1>12 DEF rec
    <3>2. QED
      BY <3>1, <1>2, <1>4, <1>7, <1>8, <1>12
  <2>2. SearchRight'
    BY <2>1, <1>1, <1>2, <1>3, <1>4, <1>12 DEF SearchRight
  <2>3. Chunk!TypeOK' /\ Chunk!FindsExactly'
    BY <1>1, <1>3, <1>4, <1>12 DEF ChunkInv, Chunk!TypeOK, Chunk!FindsExactly
  <2>4. QED
    BY <2>2, <2>3, <1>9, <1>10 DEF ChunkInv
<1>13. CASE /\ search = rec.addr /\ pc' = "end" /\ UNCHANGED <<lo, hi>>
            /\ items' = SubSeq(blockTable, rec.offset + 1, rec.offset + rec.cnt)
  <2> DEFINE o == rec.offset
             c == rec.cnt
  <2>1. /\ {k \in DOMAIN lines : lines[k][1] = search} = (o + 1) .. (o + c)
        /\ o + c <= Len(lines)
    <3>1. \A i \in DOMAIN table : /\ table[i].offset + table[i].cnt <= Len(lines)
                                  /\ {k \in DOMAIN lines : lines[k][1] = table[i].addr}
                                       = (table[i].offset + 1) .. (table[i].offset + table[i].cnt)
      BY <1>3, <1>5, RecordFinds
    <3>2. QED
      BY <3>1, <1>4, <1>13 DEF rec
  <2>2. Len(blockTable) = Len(lines) /\ \A i \in 1 .. Len(lines) : blockTable[i] = lines[i][2]
    BY <1>2 DEF ChunkInv, LinesWritten
  <2> HIDE DEF o, c
  <2>3. o \in Nat /\ c \in Nat /\ items' = SubSeq(blockTable, o + 1, o + c)
    BY <1>7, <1>13 DEF o, c
  <2>4. /\ items' \in Seq(Apps) /\ Len(items') = c
        /\ \A k \in 1 .. c : items'[k] = blockTable[o + k]
    BY <2>1, <2>2, <2>3, <1>3
  <2>5. \A k \in DOMAIN items' : items'[k] = lines[o + k][2]
    <3>1. DOMAIN items' = 1 .. c
      BY <2>4
    <3>2. ASSUME NEW k \in 1 .. c
          PROVE  items'[k] = lines[o + k][2]
      <4>1. o + k \in 1 .. Len(lines)
        BY <2>1, <2>3, <1>3
      <4>2. QED
        BY <4>1, <2>2, <2>4
    <3>3. QED
      BY <3>1, <3>2
  <2>6. Chunk!FindsExactly'
    <3>1. o \in 0 .. Len(lines')
      BY <2>1, <2>3, <1>1, <1>3
    <3>2. {i \in DOMAIN lines' : lines'[i][1] = search'} = (o + 1) .. (o + Len(items'))
      BY <2>1, <2>4, <1>1
    <3>3. QED
      BY <3>1, <3>2, <2>5, <1>1 DEF Chunk!FindsExactly
  <2>7. SearchRight'
    BY <1>1, <1>2, <1>13 DEF SearchRight
  <2>8. Chunk!TypeOK'
    BY <2>4, <1>1, <1>13 DEF ChunkInv, Chunk!TypeOK
  <2>9. QED
    BY <2>6, <2>7, <2>8, <1>9, <1>10 DEF ChunkInv
<1>14. QED
  BY <1>1, <1>11, <1>12, <1>13

LEMMA ChunkStep ==
    ASSUME ChunkInv, [ChunkNext /\ UNCHANGED part]_<<part, Chunk!vars>>
    PROVE  ChunkInv'
<1>1. CASE UNCHANGED <<part, Chunk!vars>>
  <2>1. UNCHANGED <<part, pc, lines, lineNo, prev, offset, cnt, table, blockTable, blooms,
                    search, lo, hi, items>>
    BY <1>1 DEF Chunk!vars, Chunk!fileVars, Chunk!readVars
  <2>2. LinesWritten' /\ TableRight' /\ SearchRight'
    BY <2>1 DEF ChunkInv, LinesWritten, TableRight, Covered, SearchRight
  <2>3. Chunk!TypeOK' /\ Chunk!FindsExactly' /\ part' = "chunk"
    BY <2>1 DEF ChunkInv, Chunk!TypeOK, Chunk!FindsExactly
  <2>4. QED
    BY <2>2, <2>3 DEF ChunkInv
<1>2. CASE Chunk!WriteLine /\ UNCHANGED part
  BY <1>2, WriteLineKeeps
<1>3. CASE Chunk!Trap /\ UNCHANGED part
  <2>1. /\ pc = "write" /\ pc' = "trap"
        /\ UNCHANGED <<part, lines, lineNo, prev, offset, cnt, table, blockTable, blooms,
                       search, lo, hi, items>>
    BY <1>3 DEF Chunk!Trap, Chunk!fileVars, Chunk!readVars
  <2>2. LinesWritten' /\ TableRight' /\ SearchRight'
    BY <2>1 DEF ChunkInv, LinesWritten, TableRight, Covered, SearchRight
  <2>3. Chunk!TypeOK' /\ Chunk!FindsExactly' /\ part' = "chunk"
    BY <2>1 DEF ChunkInv, Chunk!TypeOK, Chunk!FindsExactly
  <2>4. QED
    BY <2>2, <2>3 DEF ChunkInv
<1>4. CASE Chunk!WriteLast /\ UNCHANGED part
  BY <1>4, WriteLastKeeps
<1>5. CASE Chunk!AskBloom /\ UNCHANGED part
  BY <1>5, AskBloomKeeps
<1>6. CASE Chunk!Probe /\ UNCHANGED part
  BY <1>6, ProbeKeeps
<1>7. CASE Chunk!NotFound /\ UNCHANGED part
  <2>1. /\ pc = "bsearch" /\ lo = hi /\ pc' = "end"
        /\ UNCHANGED <<part, lines, lineNo, prev, offset, cnt, table, blockTable, blooms,
                       search, lo, hi, items>>
    BY <1>7 DEF Chunk!NotFound, Chunk!fileVars, Chunk!readVars
  <2>2. LinesWritten' /\ TableRight' /\ SearchRight'
    BY <2>1 DEF ChunkInv, LinesWritten, TableRight, Covered, SearchRight
  <2>3. Chunk!TypeOK' /\ part' = "chunk"
    BY <2>1 DEF ChunkInv, Chunk!TypeOK
  <2>4. items = <<>> /\ \A i \in DOMAIN table : table[i].addr # search
    <3>1. /\ items = <<>> /\ \A i \in DOMAIN table : table[i].addr = search => lo < i /\ i <= hi
      BY <2>1 DEF ChunkInv, SearchRight
    <3>2. table \in Seq(Records) /\ lo \in Int /\ hi \in Int
      BY ChunkFacts
    <3>3. QED
      BY <3>1, <3>2, <2>1
  <2>5. Chunk!FindsExactly'
    BY <2>1, <2>4, NothingToFind
  <2>6. QED
    BY <2>2, <2>3, <2>5 DEF ChunkInv
<1>8. CASE Chunk!Done /\ UNCHANGED part
  BY <1>1, <1>8 DEF Chunk!Done
<1>9. QED
  BY <1>1, <1>2, <1>3, <1>4, <1>5, <1>6, <1>7, <1>8 DEF ChunkNext, Chunk!Next

\* writeIndexAsBinary and visitBinaryFile, for every set of addresses and appearances,
\* every choice of the bits and every size of a filter: whatever lines a chunk has and
\* whichever address is looked for, the reader has exactly its appearances, in order.
THEOREM ChunkFinds == ChunkSpec => []FindsExactly
<1>1. ChunkInv => FindsExactly
  <2> SUFFICES ASSUME ChunkInv PROVE Chunk!Tiles
    BY DEF ChunkInv, FindsExactly
  <2>1. \A i \in DOMAIN table :
          table[i].offset = IF i = 1 THEN 0 ELSE table[i - 1].offset + table[i - 1].cnt
    BY DEF ChunkInv, TableRight, Tiled
  <2>2. offset + cnt = Len(blockTable)
    BY DEF ChunkInv, LinesWritten
  <2>3. QED
    BY <2>1, <2>2 DEF Chunk!Tiles
<1>2. QED
  BY <1>1, ChunkStart, ChunkStep, PTL DEF ChunkSpec
=============================================================================
