------------------------------ MODULE DataCache ------------------------------
(***************************************************************************)
(* The binary caches of blocks, transactions and traces.  getBlocks,       *)
(* getTrans and acctExport write into them what the node tells, and        *)
(* believe what they find there.  The module follows one block with one    *)
(* transaction: the cache files of different blocks do not meet.           *)
(*                                                                         *)
(* A file is truncated when it is opened and has its contents when it is   *)
(* closed; Big says that they are written in several pieces.  Writers do   *)
(* not exclude each other (FileLock), and readers never look at a lock.    *)
(* Prefunds and block rewards, whose transactions are made up, are left    *)
(* out.  The version of a transaction or block is the chain it is from.    *)
(***************************************************************************)
EXTENDS Integers

CONSTANTS Procs,
          Commands,     \* [tool |-> ..., flags |-> ...]
          MaxReorgs,    \* bound: how often the block is replaced
          MaxKills,     \* bound
          MayDesync,    \* the node may be without the block for a while
          Heavy,        \* a transaction of the 2016 attack, with many traces
          Big,          \* the files do not fit the buffer of a stream
          NoFile, Hollow, Part

VARIABLES
    chain,      \* the version of the block on the chain
    age,        \* "new"; "final": older than secsFinal; "ripe": in the index
    synced,     \* the node has the block
    blockFile, txFile, traceFile,
    proc, kills

vars == <<chain, age, synced, blockFile, txFile, traceFile, proc, kills>>
world == <<chain, age, synced>>
files == <<blockFile, txFile, traceFile>>

Versions == 0..MaxReorgs
Nothing == -1       \* what a failed query or a torn file makes of a version
Placeholder == -2   \* the one trace that stands for those of the attack
Torn == {Hollow, Part}

BlockData == [ver : Versions \cup {Nothing}, receipts : BOOLEAN, finalized : BOOLEAN]
TxData == [ver : Versions \cup {Nothing}, receipt : BOOLEAN, articulated : BOOLEAN,
           traces : Versions \cup {Nothing, Placeholder}]

CacheConstants ==
    /\ MaxReorgs \in Nat /\ MaxKills \in Nat
    /\ {MayDesync, Heavy, Big} \subseteq BOOLEAN
    /\ \A c \in Commands : c.tool \in {"blocks", "trans", "export"}
    /\ \A m \in {NoFile} \cup Torn :
          m \notin BlockData \cup TxData \cup Versions \cup {Placeholder}

NullBlock == [ver |-> Nothing, receipts |-> FALSE, finalized |-> FALSE]
NullTx == [ver |-> Nothing, receipt |-> FALSE, articulated |-> FALSE, traces |-> Nothing]

Labels == {"idle", "blocks", "openBlock", "fillBlock", "trans", "cached?", "cacheTx?",
           "export", "traces", "openTrace", "fillTrace", "loaded", "articulate",
           "openTx", "fillTx", "done"}

Init ==
    /\ chain = 0 /\ synced = TRUE
    /\ age \in IF Heavy THEN {"ripe"} ELSE {"new", "ripe"}
    /\ blockFile = NoFile /\ txFile = NoFile /\ traceFile = NoFile
    /\ proc = [p \in Procs |-> [pc |-> "idle", tool |-> "none", flags |-> {},
                                block |-> NullBlock, tx |-> NullTx,
                                ripe |-> FALSE, steady |-> FALSE]]
    /\ kills = 0

At(p, label) == proc[p].pc = label
Has(p, flag) == flag \in proc[p].flags
Goto(p, label) == proc' = [proc EXCEPT ![p].pc = label]
GotBlock(p, b, label) == proc' = [proc EXCEPT ![p].pc = label, ![p].block = b]
GotTx(p, t, label) == proc' = [proc EXCEPT ![p].pc = label, ![p].tx = t]

\* What the node answers when asked by number, and by the hash of a version.
ByNumber == IF synced THEN chain ELSE Nothing
Knows(ver) == synced /\ ver = chain

\* What a tool makes of a file that is there.
Parsed(file, null) == IF file \in Torn THEN null ELSE file

-----------------------------------------------------------------------------
\* The options.  acctExport looks at unripe blocks only if told to, and then
\* does not cache.
FlagsAsGiven(c) == c.flags

FlagsOf(c) ==
    c.flags \ IF "unripe" \in c.flags THEN {"cache_txs", "cache_traces"} ELSE {}

Begin(p) ==
    /\ proc[p].pc \in {"idle", "done"}
    /\ \E c \in Commands :
          /\ IF c.tool = "export" THEN "unripe" \in c.flags \/ age = "ripe" ELSE synced
          /\ proc' = [proc EXCEPT ![p] =
                        [pc |-> c.tool, tool |-> c.tool, flags |-> FlagsOf(c),
                         block |-> NullBlock, tx |-> NullTx,
                         ripe |-> age = "ripe", steady |-> synced]]
    /\ UNCHANGED <<world, files, kills>>

-----------------------------------------------------------------------------
\* getBlocks.

InBlockCache == blockFile \notin {NoFile, Hollow}

IsBlockFinal == age # "new"

QueryBlock(p) ==
    /\ At(p, "blocks")
    /\ LET gold == IF ~Has(p, "raw") /\ InBlockCache
                     THEN Parsed(blockFile, NullBlock)
                     ELSE [ver |-> ByNumber, receipts |-> ~Has(p, "raw"), finalized |-> FALSE]
       IN  GotBlock(p, [gold EXCEPT !.finalized = IsBlockFinal],
                    IF Has(p, "cache") THEN "openBlock" ELSE "done")
    /\ UNCHANGED <<world, files, kills>>

OpenBlock(p) ==
    /\ At(p, "openBlock")
    /\ blockFile' = Hollow
    /\ Goto(p, "fillBlock")
    /\ UNCHANGED <<world, txFile, traceFile, kills>>

FillBlock(p) ==
    /\ At(p, "fillBlock")
    /\ blockFile' = proc[p].block
    /\ Goto(p, "done")
    /\ UNCHANGED <<world, txFile, traceFile, kills>>

-----------------------------------------------------------------------------
\* getTrans: forEveryTransaction with getTransaction, then visitTransaction.

FromNode == [NullTx EXCEPT !.ver = ByNumber]

GetTransaction(p) ==
    /\ At(p, "trans")
    /\ GotTx(p, IF txFile # NoFile THEN Parsed(txFile, NullTx) ELSE FromNode, "cached?")
    /\ UNCHANGED <<world, files, kills>>

\* The file is looked for a second time, to know where the transaction is from.
VisitTransaction(p) ==
    /\ At(p, "cached?")
    /\ LET fromCache == txFile # NoFile
           tx == proc[p].tx
           full == IF fromCache THEN tx ELSE [tx EXCEPT !.receipt = Knows(tx.ver)]
           valid == fromCache \/ tx.ver # Nothing
       IN  GotTx(p, IF ~Has(p, "trace") \/ ~valid THEN full
                    ELSE [full EXCEPT !.traces = IF Knows(tx.ver) THEN tx.ver ELSE Nothing],
                 IF valid /\ Has(p, "cache") THEN "cacheTx?" ELSE "done")
    /\ UNCHANGED <<world, files, kills>>

CacheTransaction(p) ==
    /\ At(p, "cacheTx?")
    /\ \/ /\ txFile # NoFile
          /\ Goto(p, "done")
       \/ /\ txFile = NoFile
          /\ GotTx(p, [proc[p].tx EXCEPT !.receipt = Knows(proc[p].tx.ver)], "openTx")
    /\ UNCHANGED <<world, files, kills>>

-----------------------------------------------------------------------------
\* acctExport: loadTx_Func with loadTraces and articulateAll.

LoadTx(p) ==
    /\ At(p, "export")
    /\ GotTx(p, IF txFile # NoFile THEN Parsed(txFile, NullTx)
                ELSE [FromNode EXCEPT !.receipt = synced], "traces")
    /\ UNCHANGED <<world, files, kills>>

ExcludeTrace(tx) == Heavy /\ tx.ver # Nothing

TracesOf(p, tx) ==
    IF Has(p, "skip_ddos") /\ ExcludeTrace(tx) THEN Placeholder
    ELSE IF Knows(tx.ver) THEN tx.ver ELSE Nothing

LoadTraces(p) ==
    /\ At(p, "traces")
    /\ LET tx == proc[p].tx IN
       \/ /\ ~Has(p, "trace") \/ tx.traces # Nothing
          /\ Goto(p, "articulate")
       \/ /\ Has(p, "trace") /\ tx.traces = Nothing
          /\ \/ /\ Has(p, "cache_traces") /\ traceFile # NoFile
                /\ GotTx(p, [tx EXCEPT !.traces = Parsed(traceFile, Nothing)], "loaded")
             \/ /\ ~(Has(p, "cache_traces") /\ traceFile # NoFile)
                /\ LET t == TracesOf(p, tx) IN
                   GotTx(p, [tx EXCEPT !.traces = t],
                         IF Has(p, "cache_traces") /\ t # Nothing THEN "openTrace"
                         ELSE "loaded")
    /\ UNCHANGED <<world, files, kills>>

OpenTrace(p) ==
    /\ At(p, "openTrace")
    /\ traceFile' = Hollow
    /\ Goto(p, "fillTrace")
    /\ UNCHANGED <<world, blockFile, txFile, kills>>

FillTrace(p) ==
    /\ At(p, "fillTrace")
    /\ traceFile' = proc[p].tx.traces
    /\ Goto(p, "loaded")
    /\ UNCHANGED <<world, blockFile, txFile, kills>>

\* articulateAll returns true but for a transaction that it has articulated
\* before, so that nearly every transaction is written again, and so is one whose
\* traces were asked for.
Articulate(p) ==
    /\ At(p, "loaded") \/ At(p, "articulate")
    /\ LET tx == proc[p].tx
           dirty == At(p, "loaded") \/ ~(Has(p, "articulate") /\ tx.articulated)
       IN  GotTx(p, [tx EXCEPT !.articulated = @ \/ (Has(p, "articulate") /\ tx.ver # Nothing)],
                 IF Has(p, "cache_txs") /\ dirty THEN "openTx" ELSE "done")
    /\ UNCHANGED <<world, files, kills>>

OpenTx(p) ==
    /\ At(p, "openTx")
    /\ txFile' = Hollow
    /\ Goto(p, "fillTx")
    /\ UNCHANGED <<world, blockFile, traceFile, kills>>

FillTx(p) ==
    /\ At(p, "fillTx")
    /\ txFile' = proc[p].tx
    /\ Goto(p, "done")
    /\ UNCHANGED <<world, blockFile, traceFile, kills>>

-----------------------------------------------------------------------------
\* A stream that is larger than its buffer is written piece by piece.
Flush(p) ==
    /\ Big
    /\ \/ /\ At(p, "fillBlock") /\ blockFile = Hollow
          /\ blockFile' = Part /\ UNCHANGED <<txFile, traceFile>>
       \/ /\ At(p, "fillTx") /\ txFile = Hollow
          /\ txFile' = Part /\ UNCHANGED <<blockFile, traceFile>>
       \/ /\ At(p, "fillTrace") /\ traceFile = Hollow
          /\ traceFile' = Part /\ UNCHANGED <<blockFile, txFile>>
    /\ UNCHANGED <<world, proc, kills>>

\* The lengths and counts read past the end of a file are uninitialized:
\* the tool goes on with nothing (Parsed), or crashes.
CrashOnTorn(p) ==
    /\ \/ At(p, "blocks") /\ ~Has(p, "raw") /\ blockFile = Part
       \/ (At(p, "trans") \/ At(p, "export")) /\ txFile \in Torn
       \/ At(p, "traces") /\ Has(p, "trace") /\ proc[p].tx.traces = Nothing
             /\ Has(p, "cache_traces") /\ traceFile \in Torn
    /\ Goto(p, "idle")
    /\ UNCHANGED <<world, files, kills>>

Kill(p) ==
    /\ kills < MaxKills
    /\ proc[p].pc \notin {"idle", "done"}
    /\ Goto(p, "idle")
    /\ kills' = kills + 1
    /\ UNCHANGED <<world, files>>

\* The world: the block gets older, and is replaced while it is new.
Reorg ==
    /\ age = "new" /\ chain < MaxReorgs
    /\ chain' = chain + 1
    /\ UNCHANGED <<age, synced, files, proc, kills>>

Grow ==
    /\ \/ age = "new" /\ age' = "final"
       \/ age = "final" /\ age' = "ripe"
    /\ UNCHANGED <<chain, synced, files, proc, kills>>

Desync ==
    /\ MayDesync
    /\ synced' = ~synced
    /\ proc' = [q \in Procs |-> [proc[q] EXCEPT !.steady = FALSE]]
    /\ UNCHANGED <<chain, age, files, kills>>

Next ==
    \/ \E p \in Procs :
          \/ Begin(p)
          \/ QueryBlock(p) \/ OpenBlock(p) \/ FillBlock(p)
          \/ GetTransaction(p) \/ VisitTransaction(p) \/ CacheTransaction(p)
          \/ LoadTx(p) \/ LoadTraces(p) \/ OpenTrace(p) \/ FillTrace(p) \/ Articulate(p)
          \/ OpenTx(p) \/ FillTx(p)
          \/ Flush(p) \/ CrashOnTorn(p) \/ Kill(p)
    \/ Reorg \/ Grow \/ Desync

Spec == Init /\ [][Next]_vars

-----------------------------------------------------------------------------
\* Types; and no cache file of a transaction or of traces is written
\* without something in it.
TypeOK ==
    /\ chain \in Versions /\ age \in {"new", "final", "ripe"} /\ synced \in BOOLEAN
    /\ blockFile \in BlockData \cup {NoFile} \cup Torn
    /\ txFile \in TxData \cup {NoFile} \cup Torn
    /\ traceFile \in Versions \cup {Placeholder, NoFile} \cup Torn
    /\ \A p \in Procs : /\ proc[p].pc \in Labels
                        /\ proc[p].block \in BlockData
                        /\ proc[p].tx \in TxData
    /\ kills \in 0..MaxKills

\* A tool that began when the block was ripe and whose node had the block.
Answers(p, tools) ==
    At(p, "done") /\ proc[p].tool \in tools /\ proc[p].ripe /\ proc[p].steady

\* getBlocks shows the block that is on the chain, with its receipts unless it
\* was asked for the raw block (doOneBlock, queryBlock).
BlocksTrue ==
    \A p \in Procs : Answers(p, {"blocks"}) =>
        /\ proc[p].block.ver = chain
        /\ Has(p, "raw") \/ proc[p].block.receipts

\* A block that the cache says is finalized is the one on the chain
\* (isBlockFinal, and the rewriting of what was read from the cache).
\* The code does not keep this: README, section 5.
MarkedFinal ==
    blockFile \in BlockData /\ blockFile.finalized => blockFile.ver = chain

\* getTrans and acctExport show the transaction that is on the chain.
TxsTrue ==
    \A p \in Procs : Answers(p, {"trans", "export"}) => proc[p].tx.ver = chain

\* What acctExport leaves in the caches is from the chain, or from a query that
\* failed; never from a block that was replaced (the unripe option).
NeverStale ==
    /\ txFile \in TxData => txFile.ver \in {chain, Nothing}
    /\ traceFile \in Versions => traceFile = chain

\* A transaction is shown with its receipt (forEveryTransaction, which asks
\* for it unless the transaction is from the cache).
ReceiptsThere ==
    \A p \in Procs : Answers(p, {"trans", "export"}) =>
        (proc[p].tx.ver = chain => proc[p].tx.receipt)

\* Who asks for the traces gets those of the transaction; the placeholder only
\* if the traces of the attack are to be skipped (loadTraces).
TracesTrue ==
    \A p \in Procs : Answers(p, {"trans", "export"}) /\ Has(p, "trace") =>
        \/ proc[p].tx.traces = chain
        \/ Has(p, "skip_ddos") /\ Heavy /\ proc[p].tx.traces = Placeholder

\* What is shown is what is on the chain, whoever cached it with which options.
CachesTrue == TxsTrue /\ ReceiptsThere /\ TracesTrue
=============================================================================
