--------------------------- MODULE MCSharedFiles ----------------------------
(***************************************************************************)
(* Files that several tools use, for TLC: the manifest, the names, the     *)
(* caches of blocks, transactions and traces, a chunk of the index, the    *)
(* prices.  They are different files of different tools, so a behaviour of *)
(* this module is one of a single part; the others' variables are 0.       *)
(***************************************************************************)
EXTENDS SharedFiles, TLC

CONSTANTS scraper, initer, reader, p1, p2, a1, a2

manifestVars == <<text, textTime, pinsBin, binTime, pinned, cur, pins, item, buffer, got>>
namesVars == <<tab, namesBin, date, lck, map, cmd, crud, cmds, pf, want>>
cacheVars == <<chain, age, synced, blockFile, txFile, traceFile>>
priceVars == <<now, prices, fails>>
chunkVars == <<lines, lineNo, prev, offset, cnt, table, blockTable, blooms, search, lo, hi, items>>
all == <<part, manifestVars, namesVars, cacheVars, priceVars, chunkVars, clock, pc, proc, kills>>

Command(what, a, to) == [crud |-> what, addr |-> a, val |-> "New", env |-> FALSE, to |-> to]
AllCommands == {Command(what, a, to) :
                  what \in {"create", "update", "delete", "undelete", "remove"},
                  a \in Addrs, to \in BOOLEAN}

Tool(tool, flags) == [tool |-> tool, flags |-> flags]

\* acctExport with every combination of the options that concern the caches, and
\* getTrans, which may only read.
AllExports ==
    {Tool("export", f) : f \in SUBSET {"trace", "cache_txs", "cache_traces", "articulate", "unripe"}}
        \cup {Tool("trans", {}), Tool("trans", {"trace"})}

\* Exports that write the one or the other, and one that may look at unripe blocks.
SomeExports == {Tool("export", {"trace", "cache_txs", "cache_traces"}),
                Tool("export", {"trace", "cache_txs", "cache_traces", "unripe"}),
                Tool("export", {"cache_txs", "articulate"})}

EveryTool == {Tool("blocks", {"cache"}), Tool("blocks", {"raw", "cache"}),
              Tool("trans", {"cache", "trace"}),
              Tool("export", {"trace", "cache_txs", "cache_traces"})}

BlocksAlone == {Tool("blocks", {}), Tool("blocks", {"cache"})}

\* The exchange has a gap.
ListedWithGap == (3 .. 8) \ {6}

\* Addresses whose bits overlap: 3 lies in the filter of 1 and 2.
SomeBits == (1 :> {1, 2}) @@ (2 :> {3, 4}) @@ (3 :> {2, 3}) @@ (4 :> {5})

-----------------------------------------------------------------------------
NoManifest == /\ text = 0 /\ textTime = 0 /\ pinsBin = 0 /\ binTime = 0 /\ pinned = 0
              /\ cur = 0 /\ pins = 0 /\ item = 0 /\ buffer = 0 /\ got = 0
NoNameFiles == /\ tab = 0 /\ namesBin = 0 /\ date = 0 /\ lck = 0 /\ map = 0 /\ cmd = 0
           /\ crud = 0 /\ cmds = 0 /\ pf = 0 /\ want = 0
NoCache == /\ chain = 0 /\ age = 0 /\ synced = 0 /\ blockFile = 0 /\ txFile = 0
           /\ traceFile = 0
NoChunk == /\ lines = 0 /\ lineNo = 0 /\ prev = 0 /\ offset = 0 /\ cnt = 0 /\ table = 0
           /\ blockTable = 0 /\ blooms = 0 /\ search = 0 /\ lo = 0 /\ hi = 0 /\ items = 0
NoPrices == now = 0 /\ prices = 0 /\ fails = 0

SharedInit ==
    \/ ManifestInit /\ NoNameFiles /\ NoCache /\ NoPrices /\ NoChunk /\ proc = 0
    \/ NamesInit /\ NoManifest /\ NoCache /\ NoPrices /\ NoChunk /\ proc = 0
    \/ CacheInit /\ NoManifest /\ NoNameFiles /\ NoPrices /\ NoChunk /\ clock = 0 /\ pc = 0
    \/ /\ ChunkInit /\ NoManifest /\ NoNameFiles /\ NoCache /\ NoPrices
       /\ clock = 0 /\ proc = 0 /\ kills = 0
    \/ PricesInit /\ NoManifest /\ NoNameFiles /\ NoCache /\ NoChunk /\ clock = 0 /\ pc = 0

SharedNext ==
    /\ UNCHANGED part
    /\ \/ ManifestNext /\ UNCHANGED <<namesVars, cacheVars, priceVars, chunkVars, proc>>
       \/ NamesNext /\ UNCHANGED <<manifestVars, cacheVars, priceVars, chunkVars, proc>>
       \/ CacheNext /\ UNCHANGED <<manifestVars, namesVars, priceVars, chunkVars, clock, pc>>
       \/ /\ ChunkNext
          /\ UNCHANGED <<manifestVars, namesVars, cacheVars, priceVars, clock, proc, kills>>
       \/ PricesNext /\ UNCHANGED <<manifestVars, namesVars, cacheVars, chunkVars, clock, pc>>

SharedSpec == SharedInit /\ [][SharedNext]_all
=============================================================================
