-------------------------- MODULE DataCache_proofs --------------------------
(***************************************************************************)
(* The caches of blocks, transactions and traces: what is shown is what is *)
(* on the chain, whatever was cached before.                               *)
(***************************************************************************)
EXTENDS DataCache, TLAPS

AllFlags == UNION {c.flags : c \in Commands}
ProcRec == [pc : Labels, tool : {"none", "blocks", "trans", "export"},
            flags : SUBSET AllFlags, block : BlockData, tx : TxData,
            ripe : BOOLEAN, steady : BOOLEAN]

\* A trace file is written only with something in it.
CacheTypes ==
    /\ chain \in Versions /\ age \in {"new", "final", "ripe"} /\ synced \in BOOLEAN
    /\ blockFile \in BlockData \cup {NoFile} \cup Torn
    /\ txFile \in TxData \cup {NoFile} \cup Torn
    /\ traceFile \in Versions \cup {Placeholder, NoFile} \cup Torn
    /\ proc \in [Procs -> ProcRec]
    /\ \A p \in Procs : proc[p].pc \in {"openTrace", "fillTrace"} => proc[p].tx.traces # Nothing
    /\ kills \in 0..MaxKills

\* Process p goes to label l with a block and a transaction; the others stay.
Moved(p, l, b, t) ==
    /\ proc' \in [Procs -> ProcRec]
    /\ proc'[p].pc = l /\ proc'[p].block = b /\ proc'[p].tx = t
    /\ proc'[p].tool = proc[p].tool /\ proc'[p].flags = proc[p].flags
    /\ proc'[p].ripe = proc[p].ripe /\ proc'[p].steady = proc[p].steady
    /\ \A q \in Procs : q # p => proc'[q] = proc[q]

LEMMA Moves ==
    ASSUME proc \in [Procs -> ProcRec], NEW p \in Procs, NEW l \in Labels
    PROVE  /\ Goto(p, l) => Moved(p, l, proc[p].block, proc[p].tx)
           /\ \A b \in BlockData : GotBlock(p, b, l) => Moved(p, l, b, proc[p].tx)
           /\ \A t \in TxData : GotTx(p, t, l) => Moved(p, l, proc[p].block, t)
<1> USE DEF ProcRec
<1>1. Goto(p, l) => Moved(p, l, proc[p].block, proc[p].tx)
  BY DEF Goto, Moved
<1>2. ASSUME NEW b \in BlockData, GotBlock(p, b, l) PROVE Moved(p, l, b, proc[p].tx)
  BY <1>2, ZenonT(60) DEF GotBlock, Moved
<1>3. ASSUME NEW t \in TxData, GotTx(p, t, l) PROVE Moved(p, l, proc[p].block, t)
  BY <1>3, ZenonT(60) DEF GotTx, Moved
<1>4. QED
  BY <1>1, <1>2, <1>3

\* The fields of what a process has in memory.
LEMMA ProcFields ==
    ASSUME CacheTypes, NEW p \in Procs
    PROVE  /\ proc[p].pc \in Labels /\ proc[p].flags \in SUBSET AllFlags
           /\ proc[p].tool \in {"none", "blocks", "trans", "export"}
           /\ proc[p].block \in BlockData /\ proc[p].tx \in TxData
           /\ proc[p].ripe \in BOOLEAN /\ proc[p].steady \in BOOLEAN
           /\ proc[p].tx.ver \in Versions \cup {Nothing}
           /\ proc[p].tx.receipt \in BOOLEAN /\ proc[p].tx.articulated \in BOOLEAN
           /\ proc[p].tx.traces \in Versions \cup {Nothing, Placeholder}
           /\ NullTx \in TxData /\ NullBlock \in BlockData
           /\ ByNumber \in Versions \cup {Nothing}
           /\ \A v : Knows(v) \in BOOLEAN
<1>1. proc[p] \in ProcRec
  BY DEF CacheTypes
<1>2. /\ proc[p].pc \in Labels /\ proc[p].flags \in SUBSET AllFlags
      /\ proc[p].tool \in {"none", "blocks", "trans", "export"}
      /\ proc[p].block \in BlockData /\ proc[p].tx \in TxData
      /\ proc[p].ripe \in BOOLEAN /\ proc[p].steady \in BOOLEAN
  BY <1>1 DEF ProcRec
<1>3. /\ proc[p].tx.ver \in Versions \cup {Nothing}
      /\ proc[p].tx.receipt \in BOOLEAN /\ proc[p].tx.articulated \in BOOLEAN
      /\ proc[p].tx.traces \in Versions \cup {Nothing, Placeholder}
  BY <1>2 DEF TxData
<1>4. NullTx \in TxData /\ NullBlock \in BlockData
  BY DEF NullTx, NullBlock, TxData, BlockData
<1>5. ByNumber \in Versions \cup {Nothing} /\ \A v : Knows(v) \in BOOLEAN
  BY DEF CacheTypes, ByNumber, Knows
<1>6. QED
  BY <1>2, <1>3, <1>4, <1>5

\* A copy of a transaction with other fields.
LEMMA TxCopy ==
    ASSUME NEW t \in TxData
    PROVE  /\ \A r \in BOOLEAN : LET u == [t EXCEPT !.receipt = r] IN
                u \in TxData /\ u.ver = t.ver /\ u.receipt = r /\ u.traces = t.traces
                /\ u.articulated = t.articulated
           /\ \A r \in BOOLEAN : LET u == [t EXCEPT !.articulated = r] IN
                u \in TxData /\ u.ver = t.ver /\ u.receipt = t.receipt /\ u.traces = t.traces
                /\ u.articulated = r
           /\ \A r \in Versions \cup {Nothing, Placeholder} : LET u == [t EXCEPT !.traces = r] IN
                u \in TxData /\ u.ver = t.ver /\ u.receipt = t.receipt /\ u.traces = r
                /\ u.articulated = t.articulated
           /\ \A r \in Versions \cup {Nothing} : LET u == [t EXCEPT !.ver = r] IN
                u \in TxData /\ u.ver = r /\ u.receipt = t.receipt /\ u.traces = t.traces
                /\ u.articulated = t.articulated
  BY DEF TxData

-----------------------------------------------------------------------------
(* What the steps do *)

LEMMA BeginDoes ==
    ASSUME CacheConstants, CacheTypes, NEW p \in Procs, Begin(p)
    PROVE  \E c \in Commands :
              /\ c.tool = "export" => "unripe" \in c.flags \/ age = "ripe"
              /\ proc' \in [Procs -> ProcRec]
              /\ proc'[p].pc = c.tool /\ proc'[p].tool = c.tool /\ proc'[p].flags = FlagsOf(c)
              /\ proc'[p].block = NullBlock /\ proc'[p].tx = NullTx
              /\ proc'[p].ripe = (age = "ripe") /\ proc'[p].steady = synced
              /\ \A q \in Procs : q # p => proc'[q] = proc[q]
              /\ UNCHANGED <<world, files, kills>>
<1>1. PICK c \in Commands :
        /\ c.tool = "export" => "unripe" \in c.flags \/ age = "ripe"
        /\ proc' = [proc EXCEPT ![p] =
                        [pc |-> c.tool, tool |-> c.tool, flags |-> FlagsOf(c),
                         block |-> NullBlock, tx |-> NullTx,
                         ripe |-> age = "ripe", steady |-> synced]]
  BY DEF Begin
<1> DEFINE n == [pc |-> c.tool, tool |-> c.tool, flags |-> FlagsOf(c),
                 block |-> NullBlock, tx |-> NullTx,
                 ripe |-> age = "ripe", steady |-> synced]
<1>2. FlagsOf(c) \in SUBSET AllFlags
  BY DEF FlagsOf, AllFlags
<1>3. c.tool \in {"blocks", "trans", "export"} /\ c.tool \in Labels
  BY DEF CacheConstants, Labels
<1>4. n \in ProcRec
  BY <1>2, <1>3, ProcFields DEF ProcRec, CacheTypes
<1>5. proc' = [proc EXCEPT ![p] = n] /\ proc \in [Procs -> ProcRec]
  BY <1>1 DEF CacheTypes
<1>6. /\ n.pc = c.tool /\ n.tool = c.tool /\ n.flags = FlagsOf(c)
      /\ n.block = NullBlock /\ n.tx = NullTx
      /\ n.ripe = (age = "ripe") /\ n.steady = synced
  OBVIOUS
<1> HIDE DEF n
<1>7. proc' \in [Procs -> ProcRec] /\ proc'[p] = n /\ \A q \in Procs : q # p => proc'[q] = proc[q]
  BY <1>4, <1>5
<1>8. UNCHANGED <<world, files, kills>>
  BY DEF Begin
<1>9. QED
  BY <1>1, <1>6, <1>7, <1>8

\* getBlocks takes the block from the cache or from the node.
LEMMA QueryBlockDoes ==
    ASSUME CacheConstants, CacheTypes, NEW p \in Procs, QueryBlock(p)
    PROVE  \E b \in BlockData, l \in {"openBlock", "done"} :
              /\ Moved(p, l, b, proc[p].tx)
              /\ proc[p].pc = "blocks" /\ (l = "openBlock" => Has(p, "cache"))
              /\ \/ /\ ~Has(p, "raw") /\ InBlockCache
                    /\ b.ver = Parsed(blockFile, NullBlock).ver
                    /\ b.receipts = Parsed(blockFile, NullBlock).receipts
                 \/ b.ver = ByNumber /\ b.receipts = ~Has(p, "raw")
              /\ UNCHANGED <<world, files, kills>>
<1> DEFINE read == Parsed(blockFile, NullBlock)
           asked == [ver |-> ByNumber, receipts |-> ~Has(p, "raw"), finalized |-> FALSE]
           gold == IF ~Has(p, "raw") /\ InBlockCache THEN read ELSE asked
           b == [gold EXCEPT !.finalized = IsBlockFinal]
           l == IF Has(p, "cache") THEN "openBlock" ELSE "done"
<1>1. GotBlock(p, b, l) /\ proc[p].pc = "blocks" /\ UNCHANGED <<world, files, kills>>
  BY DEF QueryBlock, At
<1>2. asked \in BlockData /\ asked.ver = ByNumber /\ asked.receipts = ~Has(p, "raw")
  BY ProcFields DEF BlockData, Has
<1>3. InBlockCache => read \in BlockData
  BY ProcFields DEF InBlockCache, Parsed, Torn, CacheTypes
<1> HIDE DEF read, asked
<1>4. gold \in BlockData
  BY <1>2, <1>3
<1>5. IsBlockFinal \in BOOLEAN
  BY DEF IsBlockFinal
<1> HIDE DEF gold
<1>6. b \in BlockData /\ b.ver = gold.ver /\ b.receipts = gold.receipts
  BY <1>4, <1>5 DEF BlockData
<1>7. l \in {"openBlock", "done"} /\ l \in Labels /\ (l = "openBlock" => Has(p, "cache"))
  BY DEF Labels
<1> HIDE DEF b, l
<1>8. Moved(p, l, b, proc[p].tx)
  BY <1>1, <1>6, <1>7, Moves DEF CacheTypes
<1>9. \/ ~Has(p, "raw") /\ InBlockCache /\ b.ver = read.ver /\ b.receipts = read.receipts
      \/ b.ver = ByNumber /\ b.receipts = ~Has(p, "raw")
  BY <1>2, <1>6 DEF gold
<1>10. QED
  BY <1>1, <1>6, <1>7, <1>8, <1>9 DEF read

\* What getTrans and acctExport take from the cache or from the node.
LEMMA LoadDoes ==
    ASSUME CacheConstants, CacheTypes, NEW p \in Procs
    PROVE  /\ GetTransaction(p) => \E t \in TxData :
                /\ Moved(p, "cached?", proc[p].block, t) /\ proc[p].pc = "trans"
                /\ \/ txFile # NoFile /\ t = Parsed(txFile, NullTx)
                   \/ txFile = NoFile /\ t.ver = ByNumber /\ t.traces = Nothing
                /\ UNCHANGED <<world, files, kills>>
           /\ LoadTx(p) => \E t \in TxData :
                /\ Moved(p, "traces", proc[p].block, t) /\ proc[p].pc = "export"
                /\ \/ txFile # NoFile /\ t = Parsed(txFile, NullTx)
                   \/ txFile = NoFile /\ t.ver = ByNumber /\ t.traces = Nothing
                         /\ t.receipt = synced
                /\ UNCHANGED <<world, files, kills>>
<1> DEFINE read == Parsed(txFile, NullTx)
           more == [FromNode EXCEPT !.receipt = synced]
<1>1. txFile # NoFile => read \in TxData
  BY ProcFields DEF Parsed, Torn, CacheTypes
<1>2. FromNode \in TxData /\ FromNode.ver = ByNumber /\ FromNode.traces = Nothing
  <2>1. NullTx \in TxData /\ NullTx.traces = Nothing /\ ByNumber \in Versions \cup {Nothing}
    BY ProcFields DEF NullTx
  <2>2. QED
    BY <2>1, TxCopy DEF FromNode
<1>3. more \in TxData /\ more.ver = ByNumber /\ more.traces = Nothing /\ more.receipt = synced
  BY <1>2, TxCopy DEF CacheTypes
<1>4. "cached?" \in Labels /\ "traces" \in Labels /\ proc \in [Procs -> ProcRec]
  BY DEF Labels, CacheTypes
<1> HIDE DEF read, more
<1>5. ASSUME GetTransaction(p)
      PROVE  \E t \in TxData :
                /\ Moved(p, "cached?", proc[p].block, t) /\ proc[p].pc = "trans"
                /\ \/ txFile # NoFile /\ t = read
                   \/ txFile = NoFile /\ t.ver = ByNumber /\ t.traces = Nothing
                /\ UNCHANGED <<world, files, kills>>
  <2> DEFINE t == IF txFile # NoFile THEN read ELSE FromNode
  <2>1. GotTx(p, t, "cached?") /\ proc[p].pc = "trans" /\ UNCHANGED <<world, files, kills>>
    BY <1>5 DEF GetTransaction, At, read
  <2>2. t \in TxData
    BY <1>1, <1>2
  <2>3. Moved(p, "cached?", proc[p].block, t)
    BY <1>4, <2>1, <2>2, Moves
  <2>4. QED
    BY <1>2, <2>1, <2>2, <2>3
<1>6. ASSUME LoadTx(p)
      PROVE  \E t \in TxData :
                /\ Moved(p, "traces", proc[p].block, t) /\ proc[p].pc = "export"
                /\ \/ txFile # NoFile /\ t = read
                   \/ txFile = NoFile /\ t.ver = ByNumber /\ t.traces = Nothing
                         /\ t.receipt = synced
                /\ UNCHANGED <<world, files, kills>>
  <2> DEFINE t == IF txFile # NoFile THEN read ELSE more
  <2>1. GotTx(p, t, "traces") /\ proc[p].pc = "export" /\ UNCHANGED <<world, files, kills>>
    BY <1>6 DEF LoadTx, At, read, more
  <2>2. t \in TxData
    BY <1>1, <1>3
  <2>3. Moved(p, "traces", proc[p].block, t)
    BY <1>4, <2>1, <2>2, Moves
  <2>4. QED
    BY <1>3, <2>1, <2>2, <2>3
<1>7. QED
  BY <1>5, <1>6 DEF read

LEMMA VisitDoes ==
    ASSUME CacheConstants, CacheTypes, NEW p \in Procs, VisitTransaction(p)
    PROVE  \E t \in TxData, l \in {"cacheTx?", "done"} :
              /\ Moved(p, l, proc[p].block, t) /\ proc[p].pc = "cached?"
              /\ l = "cacheTx?" => Has(p, "cache")
              /\ t.ver = proc[p].tx.ver
              /\ t.receipt = IF txFile # NoFile THEN proc[p].tx.receipt ELSE Knows(t.ver)
              /\ \/ t.traces = proc[p].tx.traces
                    /\ (~Has(p, "trace") \/ (txFile = NoFile /\ t.ver = Nothing))
                 \/ t.traces = (IF Knows(t.ver) THEN t.ver ELSE Nothing)
              /\ UNCHANGED <<world, files, kills>>
<1> DEFINE tx == proc[p].tx
           full == IF txFile # NoFile THEN tx ELSE [tx EXCEPT !.receipt = Knows(tx.ver)]
           valid == txFile # NoFile \/ tx.ver # Nothing
           new == IF Knows(tx.ver) THEN tx.ver ELSE Nothing
           t == IF ~Has(p, "trace") \/ ~valid THEN full ELSE [full EXCEPT !.traces = new]
           l == IF valid /\ Has(p, "cache") THEN "cacheTx?" ELSE "done"
<1>1. GotTx(p, t, l) /\ proc[p].pc = "cached?" /\ UNCHANGED <<world, files, kills>>
  BY DEF VisitTransaction, At
<1>2. l \in {"cacheTx?", "done"} /\ l \in Labels /\ (l = "cacheTx?" => Has(p, "cache"))
  BY DEF Labels
<1>3. tx \in TxData /\ Knows(tx.ver) \in BOOLEAN /\ tx.ver \in Versions \cup {Nothing}
  BY ProcFields
<1>4. /\ full \in TxData /\ full.ver = tx.ver /\ full.traces = tx.traces
      /\ full.receipt = IF txFile # NoFile THEN tx.receipt ELSE Knows(tx.ver)
  BY <1>3, TxCopy
<1>5. new \in Versions \cup {Nothing, Placeholder}
  BY <1>3
<1> HIDE DEF full, new, l, tx
<1>6. LET u == [full EXCEPT !.traces = new] IN
         u \in TxData /\ u.ver = full.ver /\ u.receipt = full.receipt /\ u.traces = new
  BY <1>4, <1>5, TxCopy
<1>7. t \in TxData /\ t.ver = tx.ver /\ t.receipt = full.receipt
         /\ (\/ t.traces = tx.traces /\ (~Has(p, "trace") \/ ~valid)
             \/ t.traces = new)
  BY <1>4, <1>6
<1>8. Moved(p, l, proc[p].block, t)
  BY <1>1, <1>2, <1>7, Moves DEF CacheTypes
<1> HIDE DEF t
<1>9. QED
  BY <1>1, <1>2, <1>4, <1>7, <1>8 DEF tx, new

LEMMA TracesDo ==
    ASSUME CacheConstants, CacheTypes, NEW p \in Procs, LoadTraces(p)
    PROVE  \E t \in TxData, l \in {"openTrace", "loaded", "articulate"} :
              /\ Moved(p, l, proc[p].block, t) /\ proc[p].pc = "traces"
              /\ l = "openTrace" => Has(p, "cache_traces") /\ t.traces # Nothing
              /\ t.ver = proc[p].tx.ver /\ t.receipt = proc[p].tx.receipt
              /\ \/ t = proc[p].tx /\ (~Has(p, "trace") \/ t.traces # Nothing)
                 \/ /\ Has(p, "cache_traces") /\ traceFile # NoFile
                    /\ t.traces = Parsed(traceFile, Nothing)
                 \/ t.traces = TracesOf(p, proc[p].tx)
              /\ UNCHANGED <<world, files, kills>>
<1> DEFINE tx == proc[p].tx
<1>1. tx \in TxData /\ Knows(tx.ver) \in BOOLEAN /\ tx.ver \in Versions \cup {Nothing}
         /\ proc \in [Procs -> ProcRec] /\ {"openTrace", "loaded", "articulate"} \subseteq Labels
  BY ProcFields DEF CacheTypes, Labels
<1>2. proc[p].pc = "traces" /\ UNCHANGED <<world, files, kills>>
  BY DEF LoadTraces, At
<1>3. TracesOf(p, tx) \in Versions \cup {Nothing, Placeholder}
  BY <1>1 DEF TracesOf
<1>4. traceFile # NoFile => Parsed(traceFile, Nothing) \in Versions \cup {Nothing, Placeholder}
  BY DEF Parsed, CacheTypes
<1>5. \/ (~Has(p, "trace") \/ tx.traces # Nothing) /\ Goto(p, "articulate")
      \/ Has(p, "cache_traces") /\ traceFile # NoFile
            /\ GotTx(p, [tx EXCEPT !.traces = Parsed(traceFile, Nothing)], "loaded")
      \/ GotTx(p, [tx EXCEPT !.traces = TracesOf(p, tx)],
               IF Has(p, "cache_traces") /\ TracesOf(p, tx) # Nothing THEN "openTrace"
               ELSE "loaded")
  BY DEF LoadTraces
<1>6. CASE (~Has(p, "trace") \/ tx.traces # Nothing) /\ Goto(p, "articulate")
  <2>1. Moved(p, "articulate", proc[p].block, tx)
    BY <1>1, <1>6, Moves
  <2>2. QED
    BY <1>1, <1>2, <1>6, <2>1
<1>7. CASE Has(p, "cache_traces") /\ traceFile # NoFile
            /\ GotTx(p, [tx EXCEPT !.traces = Parsed(traceFile, Nothing)], "loaded")
  <2> DEFINE t == [tx EXCEPT !.traces = Parsed(traceFile, Nothing)]
  <2>1. t \in TxData /\ t.ver = tx.ver /\ t.receipt = tx.receipt
           /\ t.traces = Parsed(traceFile, Nothing)
    BY <1>1, <1>4, <1>7, TxCopy
  <2>2. Moved(p, "loaded", proc[p].block, t)
    BY <1>1, <1>7, <2>1, Moves
  <2> HIDE DEF t
  <2>3. QED
    BY <1>2, <1>7, <2>1, <2>2
<1>8. CASE GotTx(p, [tx EXCEPT !.traces = TracesOf(p, tx)],
               IF Has(p, "cache_traces") /\ TracesOf(p, tx) # Nothing THEN "openTrace"
               ELSE "loaded")
  <2> DEFINE t == [tx EXCEPT !.traces = TracesOf(p, tx)]
             l == IF Has(p, "cache_traces") /\ TracesOf(p, tx) # Nothing THEN "openTrace"
                  ELSE "loaded"
  <2>1. t \in TxData /\ t.ver = tx.ver /\ t.receipt = tx.receipt /\ t.traces = TracesOf(p, tx)
    BY <1>1, <1>3, TxCopy
  <2>2. l \in {"openTrace", "loaded", "articulate"} /\ l \in Labels
           /\ (l = "openTrace" => Has(p, "cache_traces") /\ TracesOf(p, tx) # Nothing)
    BY <1>1
  <2>3. Moved(p, l, proc[p].block, t)
    BY <1>1, <1>8, <2>1, <2>2, Moves
  <2> HIDE DEF t, l
  <2>4. QED
    BY <1>2, <2>1, <2>2, <2>3
<1>9. QED
  BY <1>5, <1>6, <1>7, <1>8

LEMMA ArticulateDoes ==
    ASSUME CacheConstants, CacheTypes, NEW p \in Procs, Articulate(p)
    PROVE  \E t \in TxData, l \in {"openTx", "done"} :
              /\ Moved(p, l, proc[p].block, t) /\ proc[p].pc \in {"loaded", "articulate"}
              /\ l = "openTx" => Has(p, "cache_txs")
              /\ t.ver = proc[p].tx.ver /\ t.receipt = proc[p].tx.receipt
              /\ t.traces = proc[p].tx.traces
              /\ UNCHANGED <<world, files, kills>>
<1> DEFINE tx == proc[p].tx
           dirty == At(p, "loaded") \/ ~(Has(p, "articulate") /\ tx.articulated)
           a == tx.articulated \/ (Has(p, "articulate") /\ tx.ver # Nothing)
           t == [tx EXCEPT !.articulated = a]
           l == IF Has(p, "cache_txs") /\ dirty THEN "openTx" ELSE "done"
<1>1. GotTx(p, t, l) /\ proc[p].pc \in {"loaded", "articulate"} /\ UNCHANGED <<world, files, kills>>
  BY ProcFields DEF Articulate, At, TxData
<1>2. a \in BOOLEAN /\ tx \in TxData
  BY ProcFields
<1> HIDE DEF a
<1>3. t \in TxData /\ t.ver = tx.ver /\ t.receipt = tx.receipt /\ t.traces = tx.traces
  BY <1>2, TxCopy
<1>4. l \in {"openTx", "done"} /\ l \in Labels /\ (l = "openTx" => Has(p, "cache_txs"))
  BY DEF Labels
<1> HIDE DEF t, l
<1>5. Moved(p, l, proc[p].block, t)
  BY <1>1, <1>3, <1>4, Moves DEF CacheTypes
<1>6. QED
  BY <1>1, <1>3, <1>4, <1>5

LEMMA CacheTransactionDoes ==
    ASSUME CacheConstants, CacheTypes, NEW p \in Procs, CacheTransaction(p)
    PROVE  \E t \in TxData, l \in {"openTx", "done"} :
              /\ Moved(p, l, proc[p].block, t) /\ proc[p].pc = "cacheTx?"
              /\ t.traces = proc[p].tx.traces
              /\ UNCHANGED <<world, files, kills>>
<1> DEFINE tx == proc[p].tx
           t == [tx EXCEPT !.receipt = Knows(tx.ver)]
<1>1. tx \in TxData /\ t \in TxData /\ t.traces = tx.traces
  BY ProcFields, TxCopy
<1> HIDE DEF t
<1>2. proc[p].pc = "cacheTx?" /\ UNCHANGED <<world, files, kills>>
         /\ (Goto(p, "done") \/ GotTx(p, t, "openTx"))
  BY DEF CacheTransaction, At, t
<1>3. Moved(p, "done", proc[p].block, tx) \/ Moved(p, "openTx", proc[p].block, t)
  BY <1>1, <1>2, Moves DEF CacheTypes, Labels
<1>4. QED
  BY <1>1, <1>2, <1>3

\* The steps that only go on, and the files they write.
LEMMA GotoDoes ==
    ASSUME CacheTypes, NEW p \in Procs
    PROVE  /\ OpenBlock(p) => Moved(p, "fillBlock", proc[p].block, proc[p].tx)
           /\ FillBlock(p) => Moved(p, "done", proc[p].block, proc[p].tx)
           /\ OpenTrace(p) => Moved(p, "fillTrace", proc[p].block, proc[p].tx)
           /\ FillTrace(p) => Moved(p, "loaded", proc[p].block, proc[p].tx)
           /\ OpenTx(p) => Moved(p, "fillTx", proc[p].block, proc[p].tx)
           /\ FillTx(p) => Moved(p, "done", proc[p].block, proc[p].tx)
           /\ CrashOnTorn(p) => Moved(p, "idle", proc[p].block, proc[p].tx)
           /\ Kill(p) => Moved(p, "idle", proc[p].block, proc[p].tx)
<1>1. \A l \in {"fillBlock", "done", "fillTrace", "loaded", "fillTx", "idle"} : l \in Labels
  BY DEF Labels
<1>2. \A l \in {"fillBlock", "done", "fillTrace", "loaded", "fillTx", "idle"} :
         Goto(p, l) => Moved(p, l, proc[p].block, proc[p].tx)
  BY <1>1, Moves DEF CacheTypes
<1>3. QED
  BY <1>2 DEF OpenBlock, FillBlock, OpenTrace, FillTrace, OpenTx, FillTx, CrashOnTorn, Kill

\* The node comes and goes: every process remembers it.
LEMMA DesyncDoes ==
    ASSUME CacheTypes, Desync
    PROVE  /\ proc' \in [Procs -> ProcRec]
           /\ \A q \in Procs : /\ proc'[q].pc = proc[q].pc /\ proc'[q].block = proc[q].block
                               /\ proc'[q].tx = proc[q].tx /\ proc'[q].tool = proc[q].tool
                               /\ proc'[q].flags = proc[q].flags /\ proc'[q].ripe = proc[q].ripe
                               /\ proc'[q].steady = FALSE
           /\ MayDesync /\ synced' = ~synced /\ UNCHANGED <<chain, age, files, kills>>
<1>1. proc' = [q \in Procs |-> [proc[q] EXCEPT !.steady = FALSE]]
         /\ MayDesync /\ synced' = ~synced /\ UNCHANGED <<chain, age, files, kills>>
  BY DEF Desync
<1>2. \A q \in Procs : LET r == [proc[q] EXCEPT !.steady = FALSE] IN
         /\ r \in ProcRec /\ r.pc = proc[q].pc /\ r.block = proc[q].block
         /\ r.tx = proc[q].tx /\ r.tool = proc[q].tool
         /\ r.flags = proc[q].flags /\ r.ripe = proc[q].ripe /\ r.steady = FALSE
  BY DEF CacheTypes, ProcRec
<1>3. QED
  BY <1>1, <1>2


-----------------------------------------------------------------------------
(* Types *)

LEMMA MovedTypes ==
    ASSUME CacheTypes, NEW p \in Procs, NEW l, NEW b, NEW t, Moved(p, l, b, t),
           l \in {"openTrace", "fillTrace"} => t.traces # Nothing,
           UNCHANGED world,
           blockFile' \in BlockData \cup {NoFile} \cup Torn,
           txFile' \in TxData \cup {NoFile} \cup Torn,
           traceFile' \in Versions \cup {Placeholder, NoFile} \cup Torn,
           kills' \in 0..MaxKills
    PROVE  CacheTypes'
<1>1. \A q \in Procs : proc'[q].pc \in {"openTrace", "fillTrace"} => proc'[q].tx.traces # Nothing
  BY DEF Moved, CacheTypes
<1>2. proc' \in [Procs -> ProcRec]
  BY DEF Moved
<1>3. QED
  BY <1>1, <1>2 DEF CacheTypes, world

LEMMA CacheTypesInit ==
    ASSUME CacheConstants, Init
    PROVE  CacheTypes
<1>1. NullTx \in TxData /\ NullBlock \in BlockData
  BY DEF NullTx, NullBlock, TxData, BlockData
<1>2. proc \in [Procs -> ProcRec] /\ \A p \in Procs : proc[p].pc = "idle"
  <2> DEFINE n == [pc |-> "idle", tool |-> "none", flags |-> {},
                   block |-> NullBlock, tx |-> NullTx, ripe |-> FALSE, steady |-> FALSE]
  <2>1. n \in ProcRec /\ n.pc = "idle"
    BY <1>1 DEF ProcRec, Labels
  <2>2. proc = [p \in Procs |-> n]
    BY DEF Init
  <2> HIDE DEF n
  <2>3. QED
    BY <2>1, <2>2
<1>3. age \in {"new", "final", "ripe"} /\ chain \in Versions /\ kills \in 0..MaxKills /\ synced \in BOOLEAN
  BY DEF Init, Versions, CacheConstants
<1>4. QED
  BY <1>2, <1>3 DEF CacheTypes, Init

LEMMA CacheTypesStep ==
    ASSUME CacheConstants, CacheTypes, [Next]_vars
    PROVE  CacheTypes'
<1> DEFINE Files == /\ blockFile' \in BlockData \cup {NoFile} \cup Torn
                    /\ txFile' \in TxData \cup {NoFile} \cup Torn
                    /\ traceFile' \in Versions \cup {Placeholder, NoFile} \cup Torn
<1>0. UNCHANGED files => Files
  BY DEF files, CacheTypes
<1>k. kills' = kills => kills' \in 0..MaxKills
  BY DEF CacheTypes
<1>1. ASSUME NEW p \in Procs, Begin(p) PROVE CacheTypes'
  <2>1. PICK c \in Commands :
              /\ proc' \in [Procs -> ProcRec] /\ proc'[p].pc = c.tool
              /\ \A q \in Procs : q # p => proc'[q] = proc[q]
              /\ UNCHANGED <<world, files, kills>>
    BY <1>1, BeginDoes
  <2>2. c.tool \in {"blocks", "trans", "export"}
    BY DEF CacheConstants
  <2>3. QED
    BY <2>1, <2>2 DEF CacheTypes, world, files
<1>2. ASSUME NEW p \in Procs, QueryBlock(p) PROVE CacheTypes'
  BY <1>2, <1>0, <1>k, QueryBlockDoes, MovedTypes
<1>3. ASSUME NEW p \in Procs, OpenBlock(p) PROVE CacheTypes'
  <2>1. Files /\ UNCHANGED world /\ kills' \in 0..MaxKills
    BY <1>3 DEF OpenBlock, CacheTypes, Torn
  <2>2. QED
    BY <1>3, <2>1, GotoDoes, MovedTypes
<1>4. ASSUME NEW p \in Procs, FillBlock(p) PROVE CacheTypes'
  <2>1. Files /\ UNCHANGED world /\ kills' \in 0..MaxKills
    BY <1>4, ProcFields DEF FillBlock, CacheTypes
  <2>2. QED
    BY <1>4, <2>1, GotoDoes, MovedTypes
<1>5. ASSUME NEW p \in Procs, GetTransaction(p) PROVE CacheTypes'
  BY <1>5, <1>0, <1>k, LoadDoes, MovedTypes
<1>6. ASSUME NEW p \in Procs, VisitTransaction(p) PROVE CacheTypes'
  BY <1>6, <1>0, <1>k, VisitDoes, MovedTypes
<1>7. ASSUME NEW p \in Procs, CacheTransaction(p) PROVE CacheTypes'
  BY <1>7, <1>0, <1>k, CacheTransactionDoes, MovedTypes
<1>8. ASSUME NEW p \in Procs, LoadTx(p) PROVE CacheTypes'
  BY <1>8, <1>0, <1>k, LoadDoes, MovedTypes
<1>9. ASSUME NEW p \in Procs, LoadTraces(p) PROVE CacheTypes'
  BY <1>9, <1>0, <1>k, TracesDo, MovedTypes
<1>10. ASSUME NEW p \in Procs, OpenTrace(p) PROVE CacheTypes'
  <2>1. Files /\ UNCHANGED world /\ kills' \in 0..MaxKills /\ proc[p].tx.traces # Nothing
    BY <1>10 DEF OpenTrace, CacheTypes, Torn, At
  <2>2. QED
    BY <1>10, <2>1, GotoDoes, MovedTypes
<1>11. ASSUME NEW p \in Procs, FillTrace(p) PROVE CacheTypes'
  <2>0. proc[p].tx.traces # Nothing
    BY <1>11 DEF FillTrace, CacheTypes, At
  <2>1. Files /\ UNCHANGED world /\ kills' \in 0..MaxKills
    BY <1>11, <2>0, ProcFields DEF FillTrace, CacheTypes
  <2>2. QED
    BY <1>11, <2>1, GotoDoes, MovedTypes
<1>12. ASSUME NEW p \in Procs, Articulate(p) PROVE CacheTypes'
  BY <1>12, <1>0, <1>k, ArticulateDoes, MovedTypes
<1>13. ASSUME NEW p \in Procs, OpenTx(p) PROVE CacheTypes'
  <2>1. Files /\ UNCHANGED world /\ kills' \in 0..MaxKills
    BY <1>13 DEF OpenTx, CacheTypes, Torn
  <2>2. QED
    BY <1>13, <2>1, GotoDoes, MovedTypes
<1>14. ASSUME NEW p \in Procs, FillTx(p) PROVE CacheTypes'
  <2>1. Files /\ UNCHANGED world /\ kills' \in 0..MaxKills
    BY <1>14, ProcFields DEF FillTx, CacheTypes
  <2>2. QED
    BY <1>14, <2>1, GotoDoes, MovedTypes
<1>15. ASSUME NEW p \in Procs, Flush(p) PROVE CacheTypes'
  BY <1>15 DEF Flush, CacheTypes, world, Torn
<1>16. ASSUME NEW p \in Procs, CrashOnTorn(p) PROVE CacheTypes'
  <2>1. UNCHANGED <<world, files, kills>>
    BY <1>16 DEF CrashOnTorn
  <2>2. QED
    BY <1>16, <1>0, <1>k, <2>1, GotoDoes, MovedTypes
<1>17. ASSUME NEW p \in Procs, Kill(p) PROVE CacheTypes'
  <2>1. UNCHANGED <<world, files>> /\ kills' \in 0..MaxKills
    BY <1>17 DEF Kill, CacheTypes, CacheConstants
  <2>2. QED
    BY <1>17, <1>0, <2>1, GotoDoes, MovedTypes
<1>18. ASSUME Reorg PROVE CacheTypes'
  <2>1. chain' \in Versions /\ UNCHANGED <<age, synced, files, proc, kills>>
    BY <1>18 DEF Reorg, CacheTypes, CacheConstants, Versions
  <2>2. QED
    BY <2>1 DEF CacheTypes, files
<1>19. ASSUME Grow PROVE CacheTypes'
  BY <1>19 DEF Grow, CacheTypes, files
<1>20. ASSUME Desync PROVE CacheTypes'
  <2>1. synced' \in BOOLEAN
    BY <1>20 DEF Desync
  <2>2. QED
    BY <1>20, <2>1, DesyncDoes DEF CacheTypes, files
<1>21. ASSUME UNCHANGED vars PROVE CacheTypes'
  BY <1>21 DEF vars, CacheTypes
<1>22. QED
  BY <1>1, <1>2, <1>3, <1>4, <1>5, <1>6, <1>7, <1>8, <1>9, <1>10, <1>11, <1>12, <1>13, <1>14,
     <1>15, <1>16, <1>17, <1>18, <1>19, <1>20, <1>21 DEF Next

LEMMA TypesOK == ASSUME CacheTypes PROVE TypeOK
<1>1. \A p \in Procs : proc[p].pc \in Labels /\ proc[p].block \in BlockData /\ proc[p].tx \in TxData
  BY ProcFields
<1>2. QED
  BY <1>1 DEF CacheTypes, TypeOK

\* Every tool with every option, kills and torn files included: a cache file holds what
\* can be read back, is torn or is missing, and no empty list of traces is ever cached.
THEOREM CacheTypesCorrect ==
    ASSUME CacheConstants
    PROVE  Spec => []TypeOK
<1>1. Init => CacheTypes
  BY CacheTypesInit
<1>2. CacheTypes /\ [Next]_vars => CacheTypes'
  BY CacheTypesStep
<1>3. CacheTypes => TypeOK
  BY TypesOK
<1>4. QED
  BY <1>1, <1>2, <1>3, PTL DEF Spec

-----------------------------------------------------------------------------
(* What acctExport caches is never from a replaced block *)

\* The option of getTrans that writes transactions is not used; that of
\* getBlocks is.
OnlyExportsCache ==
    \A c \in Commands : \/ c.tool = "export"
                        \/ c.tool = "trans" /\ c.flags \subseteq {"trace"}
                        \/ c.tool = "blocks" /\ c.flags \subseteq {"raw", "cache"}

Marks == {NoFile, Hollow, Part}
Caching(p) == Has(p, "cache_txs") \/ Has(p, "cache_traces")
FromChain(tx) == tx.ver \in {chain, Nothing} /\ tx.traces \in {chain, Nothing, Placeholder}

\* Files are there only of a ripe block, and nobody caches before.
StaleFiles ==
    /\ age # "ripe" => txFile = NoFile /\ traceFile = NoFile
    /\ txFile \notin Marks => FromChain(txFile)
    /\ traceFile \notin Marks => traceFile \in {chain, Placeholder}
StaleProc(p) ==
    /\ Caching(p) => age = "ripe" /\ FromChain(proc[p].tx)
    /\ proc[p].pc \in {"openTx", "fillTx"} => Has(p, "cache_txs")
    /\ proc[p].pc \in {"openTrace", "fillTrace"} => Has(p, "cache_traces")
    /\ proc[p].pc # "cacheTx?"
    /\ proc[p].tool = "trans" => proc[p].flags \subseteq {"trace"}
    /\ proc[p].pc \in {"trans", "cached?"} => proc[p].tool = "trans"
StaleInv == StaleFiles /\ \A p \in Procs : StaleProc(p)

\* A process that moves keeps its flags: only where it goes and the
\* transaction it has there matter.
LEMMA StaleMoved ==
    ASSUME CacheTypes, StaleInv, NEW p \in Procs, NEW l, NEW b, NEW t, Moved(p, l, b, t),
           UNCHANGED world,
           Caching(p) => FromChain(t),
           l \in {"openTx", "fillTx"} => Has(p, "cache_txs"),
           l \in {"openTrace", "fillTrace"} => Has(p, "cache_traces"),
           l # "cacheTx?", l # "trans",
           l = "cached?" => proc[p].tool = "trans"
    PROVE  \A q \in Procs : StaleProc(q)'
<1>1. ASSUME NEW q \in Procs, q # p PROVE StaleProc(q)'
  BY <1>1 DEF Moved, StaleInv, StaleProc, Caching, Has, FromChain, world
<1>2. StaleProc(p)'
  BY DEF Moved, StaleInv, StaleProc, Caching, Has, FromChain, world
<1>3. QED
  BY <1>1, <1>2

\* What is loaded and not from a stale file is from the chain.
LEMMA LoadedFromChain ==
    ASSUME CacheTypes, StaleInv
    PROVE  /\ txFile # NoFile => FromChain(Parsed(txFile, NullTx))
           /\ traceFile # NoFile => Parsed(traceFile, Nothing) \in {chain, Nothing, Placeholder}
           /\ ByNumber \in {chain, Nothing}
           /\ \A p : \A tx : tx.ver \in {chain, Nothing}
                => TracesOf(p, tx) \in {chain, Nothing, Placeholder}
  BY DEF StaleInv, StaleFiles, FromChain, Parsed, NullTx, Torn, Marks, ByNumber, TracesOf, Knows

LEMMA StaleInit ==
    ASSUME CacheConstants, Init
    PROVE  StaleInv
<1>1. ASSUME NEW p \in Procs PROVE StaleProc(p)
  BY DEF Init, StaleProc, Caching, Has
<1>2. QED
  BY <1>1 DEF Init, StaleInv, StaleFiles, Marks

LEMMA StaleStep ==
    ASSUME CacheConstants, OnlyExportsCache, CacheTypes, StaleInv, [Next]_vars
    PROVE  StaleInv'
<1>a. UNCHANGED <<world, files>> => StaleFiles'
  BY DEF StaleInv, StaleFiles, FromChain, world, files
<1>1. ASSUME NEW p \in Procs, Begin(p) PROVE StaleInv'
  <2>1. PICK c \in Commands :
              /\ c.tool = "export" => "unripe" \in c.flags \/ age = "ripe"
              /\ proc'[p].pc = c.tool /\ proc'[p].tool = c.tool /\ proc'[p].flags = FlagsOf(c)
              /\ proc'[p].tx = NullTx
              /\ \A q \in Procs : q # p => proc'[q] = proc[q]
              /\ UNCHANGED <<world, files, kills>>
    BY <1>1, BeginDoes
  <2>2. c.tool \in {"blocks", "trans", "export"}
    BY DEF CacheConstants
  <2>3. Caching(p)' => age' = "ripe" /\ FromChain(NullTx)'
    BY <2>1, <2>2 DEF OnlyExportsCache, FlagsOf, Caching, Has, FromChain, NullTx, world
  <2>4. c.tool = "trans" => FlagsOf(c) \subseteq {"trace"}
    BY DEF OnlyExportsCache, FlagsOf
  <2>5. StaleProc(p)'
    BY <2>1, <2>2, <2>3, <2>4 DEF StaleProc
  <2>6. ASSUME NEW q \in Procs, q # p PROVE StaleProc(q)'
    BY <2>1, <2>6 DEF StaleInv, StaleProc, Caching, Has, FromChain, world
  <2>7. QED
    BY <1>a, <2>1, <2>5, <2>6 DEF StaleInv
<1>2. ASSUME NEW p \in Procs, QueryBlock(p) PROVE StaleInv'
  <2>1. PICK b \in BlockData, l \in {"openBlock", "done"} :
              Moved(p, l, b, proc[p].tx) /\ UNCHANGED <<world, files, kills>>
    BY <1>2, QueryBlockDoes
  <2>2. Caching(p) => FromChain(proc[p].tx)
    BY DEF StaleInv, StaleProc
  <2>3. \A q \in Procs : StaleProc(q)'
    BY <2>1, <2>2, StaleMoved
  <2>4. QED
    BY <1>a, <2>1, <2>3 DEF StaleInv
<1>3. ASSUME NEW p \in Procs, OpenBlock(p) \/ FillBlock(p) PROVE StaleInv'
  <2>1. PICK l \in {"fillBlock", "done"} : Moved(p, l, proc[p].block, proc[p].tx)
    BY <1>3, GotoDoes
  <2>2. UNCHANGED <<world, txFile, traceFile>>
    BY <1>3 DEF OpenBlock, FillBlock
  <2>3. Caching(p) => FromChain(proc[p].tx)
    BY DEF StaleInv, StaleProc
  <2>4. \A q \in Procs : StaleProc(q)'
    BY <2>1, <2>2, <2>3, StaleMoved
  <2>5. StaleFiles'
    BY <2>2 DEF StaleInv, StaleFiles, FromChain, world
  <2>6. QED
    BY <2>4, <2>5 DEF StaleInv
<1>5. ASSUME NEW p \in Procs, GetTransaction(p) PROVE StaleInv'
  <2>1. PICK t \in TxData :
                /\ Moved(p, "cached?", proc[p].block, t) /\ proc[p].pc = "trans"
                /\ UNCHANGED <<world, files, kills>>
    BY <1>5, LoadDoes
  <2>2. proc[p].tool = "trans" /\ ~Caching(p)
    BY <2>1 DEF StaleInv, StaleProc, Caching, Has
  <2>3. \A q \in Procs : StaleProc(q)'
    BY <2>1, <2>2, StaleMoved
  <2>4. QED
    BY <1>a, <2>1, <2>3 DEF StaleInv
<1>6. ASSUME NEW p \in Procs, VisitTransaction(p) PROVE StaleInv'
  <2>1. PICK t \in TxData, l \in {"cacheTx?", "done"} :
              /\ Moved(p, l, proc[p].block, t) /\ proc[p].pc = "cached?"
              /\ l = "cacheTx?" => Has(p, "cache")
              /\ UNCHANGED <<world, files, kills>>
    BY <1>6, VisitDoes
  <2>2. ~Has(p, "cache") /\ ~Caching(p)
    BY <2>1 DEF StaleInv, StaleProc, Caching, Has
  <2>3. \A q \in Procs : StaleProc(q)'
    BY <2>1, <2>2, StaleMoved
  <2>4. QED
    BY <1>a, <2>1, <2>3 DEF StaleInv
<1>7. ASSUME NEW p \in Procs, CacheTransaction(p) PROVE StaleInv'
  BY <1>7 DEF CacheTransaction, At, StaleInv, StaleProc
<1>8. ASSUME NEW p \in Procs, LoadTx(p) PROVE StaleInv'
  <2>1. PICK t \in TxData :
                /\ Moved(p, "traces", proc[p].block, t)
                /\ \/ txFile # NoFile /\ t = Parsed(txFile, NullTx)
                   \/ txFile = NoFile /\ t.ver = ByNumber /\ t.traces = Nothing
                /\ UNCHANGED <<world, files, kills>>
    BY <1>8, LoadDoes
  <2>2. FromChain(t)
    BY <2>1, LoadedFromChain DEF FromChain
  <2>3. \A q \in Procs : StaleProc(q)'
    BY <2>1, <2>2, StaleMoved
  <2>4. QED
    BY <1>a, <2>1, <2>3 DEF StaleInv
<1>9. ASSUME NEW p \in Procs, LoadTraces(p) PROVE StaleInv'
  <2>1. PICK t \in TxData, l \in {"openTrace", "loaded", "articulate"} :
              /\ Moved(p, l, proc[p].block, t)
              /\ l = "openTrace" => Has(p, "cache_traces")
              /\ t.ver = proc[p].tx.ver
              /\ \/ t = proc[p].tx
                 \/ traceFile # NoFile /\ t.traces = Parsed(traceFile, Nothing)
                 \/ t.traces = TracesOf(p, proc[p].tx)
              /\ UNCHANGED <<world, files, kills>>
    BY <1>9, TracesDo
  <2>2. Caching(p) => FromChain(proc[p].tx)
    BY DEF StaleInv, StaleProc
  <2>3. Caching(p) => FromChain(t)
    BY <2>1, <2>2, LoadedFromChain DEF FromChain
  <2>4. \A q \in Procs : StaleProc(q)'
    BY <2>1, <2>3, StaleMoved
  <2>5. QED
    BY <1>a, <2>1, <2>4 DEF StaleInv
<1>10. ASSUME NEW p \in Procs, OpenTrace(p) \/ FillTrace(p) PROVE StaleInv'
  <2>1. PICK l \in {"fillTrace", "loaded"} : Moved(p, l, proc[p].block, proc[p].tx)
    BY <1>10, GotoDoes
  <2>2. UNCHANGED <<world, txFile>> /\ Has(p, "cache_traces")
           /\ traceFile' \in {Hollow, proc[p].tx.traces} /\ proc[p].tx.traces # Nothing
    BY <1>10 DEF OpenTrace, FillTrace, At, StaleInv, StaleProc, CacheTypes
  <2>3. age = "ripe" /\ FromChain(proc[p].tx)
    BY <2>2 DEF StaleInv, StaleProc, Caching
  <2>4. \A q \in Procs : StaleProc(q)'
    BY <2>1, <2>2, <2>3, StaleMoved
  <2>5. StaleFiles'
    BY <2>2, <2>3 DEF StaleInv, StaleFiles, FromChain, world, Marks
  <2>6. QED
    BY <2>4, <2>5 DEF StaleInv
<1>12. ASSUME NEW p \in Procs, Articulate(p) PROVE StaleInv'
  <2>1. PICK t \in TxData, l \in {"openTx", "done"} :
              /\ Moved(p, l, proc[p].block, t)
              /\ l = "openTx" => Has(p, "cache_txs")
              /\ t.ver = proc[p].tx.ver /\ t.traces = proc[p].tx.traces
              /\ UNCHANGED <<world, files, kills>>
    BY <1>12, ArticulateDoes
  <2>2. Caching(p) => FromChain(t)
    BY <2>1 DEF StaleInv, StaleProc, FromChain
  <2>3. \A q \in Procs : StaleProc(q)'
    BY <2>1, <2>2, StaleMoved
  <2>4. QED
    BY <1>a, <2>1, <2>3 DEF StaleInv
<1>13. ASSUME NEW p \in Procs, OpenTx(p) \/ FillTx(p) PROVE StaleInv'
  <2>1. PICK l \in {"fillTx", "done"} : Moved(p, l, proc[p].block, proc[p].tx)
    BY <1>13, GotoDoes
  <2>2. UNCHANGED <<world, traceFile>> /\ Has(p, "cache_txs")
           /\ txFile' \in {Hollow, proc[p].tx}
    BY <1>13 DEF OpenTx, FillTx, At, StaleInv, StaleProc
  <2>3. age = "ripe" /\ FromChain(proc[p].tx)
    BY <2>2 DEF StaleInv, StaleProc, Caching
  <2>4. \A q \in Procs : StaleProc(q)'
    BY <2>1, <2>2, <2>3, StaleMoved
  <2>5. StaleFiles'
    BY <2>2, <2>3 DEF StaleInv, StaleFiles, FromChain, world, Marks
  <2>6. QED
    BY <2>4, <2>5 DEF StaleInv
<1>15. ASSUME NEW p \in Procs, Flush(p) PROVE StaleInv'
  <2>1. UNCHANGED <<world, proc>> /\ (At(p, "fillTx") \/ UNCHANGED txFile)
           /\ txFile' \in {txFile, Part} /\ traceFile' \in {traceFile, Part}
           /\ (At(p, "fillTrace") \/ UNCHANGED traceFile)
    BY <1>15 DEF Flush
  <2>2. At(p, "fillTx") \/ At(p, "fillTrace") => age = "ripe"
    BY DEF At, StaleInv, StaleProc, Caching
  <2>3. StaleFiles'
    BY <2>1, <2>2 DEF StaleInv, StaleFiles, FromChain, world, Marks
  <2>4. QED
    BY <2>1, <2>3 DEF StaleInv, StaleProc, Caching, Has, FromChain, world
<1>16. ASSUME NEW p \in Procs, CrashOnTorn(p) \/ Kill(p) PROVE StaleInv'
  <2>1. Moved(p, "idle", proc[p].block, proc[p].tx) /\ UNCHANGED <<world, files>>
    BY <1>16, GotoDoes DEF CrashOnTorn, Kill
  <2>2. Caching(p) => FromChain(proc[p].tx)
    BY DEF StaleInv, StaleProc
  <2>3. \A q \in Procs : StaleProc(q)'
    BY <2>1, <2>2, StaleMoved
  <2>4. QED
    BY <1>a, <2>1, <2>3 DEF StaleInv
<1>18. ASSUME Reorg PROVE StaleInv'
  <2>1. age = "new" /\ UNCHANGED <<age, synced, files, proc, kills>>
    BY <1>18 DEF Reorg
  <2>2. StaleFiles'
    BY <2>1 DEF StaleInv, StaleFiles, files, Marks
  <2>3. QED
    BY <2>1, <2>2 DEF StaleInv, StaleProc, Caching, Has
<1>19. ASSUME Grow PROVE StaleInv'
  <2>1. age # "ripe" /\ UNCHANGED <<chain, synced, files, proc, kills>>
    BY <1>19 DEF Grow
  <2>2. StaleFiles'
    BY <2>1 DEF StaleInv, StaleFiles, files, Marks, FromChain
  <2>3. QED
    BY <2>1, <2>2 DEF StaleInv, StaleProc, Caching, Has
<1>20. ASSUME Desync PROVE StaleInv'
  <2>1. UNCHANGED <<chain, age, files>>
    BY <1>20, DesyncDoes
  <2>2. \A q \in Procs : StaleProc(q)'
    BY <1>20, <2>1, DesyncDoes, ZenonT(60) DEF StaleInv, StaleProc, Caching, Has, FromChain
  <2>3. QED
    BY <2>1, <2>2 DEF StaleInv, StaleFiles, FromChain, files
<1>21. ASSUME UNCHANGED vars PROVE StaleInv'
  BY <1>21 DEF vars, StaleInv, StaleFiles, StaleProc, Caching, Has, FromChain
<1>22. QED
  BY <1>1, <1>2, <1>3, <1>5, <1>6, <1>7, <1>8, <1>9, <1>10, <1>12, <1>13,
     <1>15, <1>16, <1>18, <1>19, <1>20, <1>21 DEF Next

\* No transaction and no traces of a block that has been replaced are in the
\* caches that acctExport keeps, with any number of processes, kills and a
\* node that comes and goes: it caches only what the index has, and the index
\* has only ripe blocks.
THEOREM ExportsCacheNothingStale ==
    ASSUME CacheConstants, OnlyExportsCache
    PROVE  Spec => [](TypeOK /\ NeverStale)
<1>1. Init => CacheTypes /\ StaleInv
  BY CacheTypesInit, StaleInit
<1>2. CacheTypes /\ StaleInv /\ [Next]_vars => (CacheTypes /\ StaleInv)'
  BY CacheTypesStep, StaleStep
<1>3. CacheTypes => TypeOK
  BY TypesOK
<1>4. CacheTypes /\ StaleInv => NeverStale
  <2> SUFFICES ASSUME CacheTypes, StaleInv PROVE NeverStale
    OBVIOUS
  <2>1. txFile \in TxData => txFile \notin Marks
    BY DEF CacheConstants, Marks, Torn
  <2>2. traceFile \in Versions => traceFile \notin Marks /\ traceFile # Placeholder
    BY DEF CacheConstants, Marks, Torn, Placeholder, Versions
  <2>3. QED
    BY <2>1, <2>2 DEF NeverStale, StaleInv, StaleFiles, FromChain
<1>5. QED
  BY <1>1, <1>2, <1>3, <1>4, PTL DEF Spec

-----------------------------------------------------------------------------
(* One export after the other *)

HasTx == {"cached?", "traces", "openTrace", "fillTrace", "loaded", "articulate", "openTx", "fillTx", "done"}
HasReceipt == HasTx \ {"cached?"}
HasTraces == HasReceipt \ {"traces"}
OfBlocks == {"blocks", "openBlock", "fillBlock"}
OfExport == {"export", "traces", "openTrace", "fillTrace", "loaded", "articulate", "openTx", "fillTx"}

\* No file is torn but while it is written, and what it holds is whole.
OneFiles(p) ==
    /\ proc[p].pc # "fillTx" => txFile = NoFile \/ txFile \notin Marks
    /\ proc[p].pc # "fillTrace" => traceFile = NoFile \/ traceFile = chain
    /\ txFile \notin Marks =>
          txFile.ver = chain /\ txFile.receipt /\ txFile.traces \in {chain, Nothing}

\* What the process has of a ripe block, as far as it got.
OneTx(p) ==
    /\ proc[p].pc \in HasTx => proc[p].tx.ver = chain /\ proc[p].tx.traces \in {chain, Nothing}
    /\ proc[p].pc = "cached?" /\ txFile # NoFile => proc[p].tx.receipt
    /\ proc[p].pc \in HasReceipt => proc[p].tx.receipt
    /\ proc[p].pc \in HasTraces /\ Has(p, "trace") => proc[p].tx.traces = chain

OneProc(p) ==
    /\ proc[p].tool \in {"trans", "export"} /\ proc[p].ripe => age = "ripe" /\ OneTx(p)
    /\ Caching(p) => proc[p].ripe /\ proc[p].tool = "export"
    /\ proc[p].pc \in OfBlocks => proc[p].tool = "blocks"
    /\ proc[p].pc \in OfExport => proc[p].tool = "export"

OneInv(p) == synced = TRUE /\ OneFiles(p) /\ OneProc(p)

OnlyOne(p) ==
    /\ Procs = {p} /\ MaxKills = 0
    /\ MayDesync = FALSE /\ Heavy = FALSE /\ Big = FALSE
    /\ OnlyExportsCache

LEMMA OneInit ==
    ASSUME CacheConstants, NEW p, OnlyOne(p), Init
    PROVE  OneInv(p)
  BY DEF OnlyOne, Init, OneInv, OneFiles, OneProc, Caching, Has, Marks, OfBlocks, OfExport

\* The constants tell the marks from the data.
LEMMA MarksAreNoData ==
    ASSUME CacheConstants, CacheTypes
    PROVE  /\ \A t \in TxData : t \notin Marks
           /\ chain \notin Marks /\ Placeholder \notin Marks /\ chain # Nothing
           /\ chain # Placeholder
  BY DEF CacheConstants, CacheTypes, Marks, Torn, Versions, Nothing, Placeholder

\* Where a process goes, and what it has to have there.
Fits(p, l, t, hasFile) ==
    /\ proc[p].tool \in {"trans", "export"} /\ proc[p].ripe =>
          /\ l \in HasTx => t.ver = chain /\ t.traces \in {chain, Nothing}
          /\ l = "cached?" /\ hasFile => t.receipt
          /\ l \in HasReceipt => t.receipt
          /\ l \in HasTraces /\ Has(p, "trace") => t.traces = chain
    /\ l \in OfBlocks => proc[p].tool = "blocks"
    /\ l \in OfExport => proc[p].tool = "export"

LEMMA OneMoved ==
    ASSUME NEW p, CacheTypes, OneInv(p), NEW l, NEW b, NEW t, Moved(p, l, b, t),
           UNCHANGED world, Fits(p, l, t, txFile' # NoFile)
    PROVE  synced' = TRUE /\ OneProc(p)'
<1>1. proc[p].tool \in {"trans", "export"} /\ proc[p].ripe => age = "ripe"
  BY DEF OneInv, OneProc
<1>2. OneTx(p)' \/ ~(proc[p].tool \in {"trans", "export"} /\ proc[p].ripe)
  BY DEF Moved, OneTx, Fits, Has, world
<1>3. QED
  BY <1>1, <1>2 DEF Moved, OneInv, OneProc, Fits, Caching, Has, world

LEMMA OneFilesStay ==
    ASSUME NEW p, OneInv(p), NEW l, NEW b, NEW t, Moved(p, l, b, t),
           UNCHANGED <<chain, txFile, traceFile>>, proc[p].pc \notin {"fillTx", "fillTrace"}
    PROVE  OneFiles(p)'
  BY DEF OneInv, OneFiles

LEMMA OneStep ==
    ASSUME CacheConstants, NEW p, OnlyOne(p), CacheTypes, StaleInv, OneInv(p), [Next]_vars
    PROVE  OneInv(p)'
<1> USE DEF HasTx, HasReceipt, HasTraces, OfBlocks, OfExport
<1>p. p \in Procs /\ \A q \in Procs : q = p
  BY DEF OnlyOne
<1>1. ASSUME Begin(p) PROVE OneInv(p)'
  <2>1. PICK c \in Commands :
              /\ c.tool = "export" => "unripe" \in c.flags \/ age = "ripe"
              /\ proc'[p].pc = c.tool /\ proc'[p].tool = c.tool /\ proc'[p].flags = FlagsOf(c)
              /\ proc'[p].ripe = (age = "ripe")
              /\ UNCHANGED <<world, files, kills>>
    BY <1>1, <1>p, BeginDoes
  <2>2. c.tool \in {"blocks", "trans", "export"} /\ proc[p].pc \in {"idle", "done"}
    BY <1>1 DEF CacheConstants, Begin
  <2>3. Caching(p)' => proc'[p].ripe /\ c.tool = "export"
    BY <2>1, <2>2 DEF OnlyOne, OnlyExportsCache, FlagsOf, Caching, Has
  <2>4. OneFiles(p)' /\ synced' = TRUE
    BY <2>1, <2>2 DEF OneInv, OneFiles, world, files
  <2>5. OneProc(p)'
    BY <2>1, <2>2, <2>3 DEF OneProc, OneTx, world
  <2>6. QED
    BY <2>4, <2>5 DEF OneInv
<1>2. ASSUME QueryBlock(p) PROVE OneInv(p)'
  <2>1. PICK b \in BlockData, l \in {"openBlock", "done"} :
              /\ Moved(p, l, b, proc[p].tx) /\ proc[p].pc = "blocks"
              /\ UNCHANGED <<world, files, kills>>
    BY <1>2, <1>p, QueryBlockDoes
  <2>2. UNCHANGED <<world, chain, txFile, traceFile>>
    BY <2>1 DEF world, files
  <2>3. Fits(p, l, proc[p].tx, txFile' # NoFile)
    BY <2>1 DEF OneInv, OneProc, Fits
  <2>4. QED
    BY <2>1, <2>2, <2>3, OneMoved, OneFilesStay DEF OneInv
<1>3. ASSUME OpenBlock(p) \/ FillBlock(p) PROVE OneInv(p)'
  <2>1. PICK l \in {"fillBlock", "done"} : Moved(p, l, proc[p].block, proc[p].tx)
    BY <1>3, <1>p, GotoDoes
  <2>2. UNCHANGED <<world, chain, txFile, traceFile>> /\ proc[p].pc \in {"openBlock", "fillBlock"}
    BY <1>3 DEF OpenBlock, FillBlock, At, world
  <2>3. Fits(p, l, proc[p].tx, txFile' # NoFile)
    BY <2>1, <2>2 DEF OneInv, OneProc, Fits
  <2>4. QED
    BY <2>1, <2>2, <2>3, OneMoved, OneFilesStay DEF OneInv
<1>5. ASSUME GetTransaction(p) PROVE OneInv(p)'
  <2>1. PICK t \in TxData :
                /\ Moved(p, "cached?", proc[p].block, t) /\ proc[p].pc = "trans"
                /\ \/ txFile # NoFile /\ t = Parsed(txFile, NullTx)
                   \/ txFile = NoFile /\ t.ver = ByNumber /\ t.traces = Nothing
                /\ UNCHANGED <<world, files, kills>>
    BY <1>5, <1>p, LoadDoes
  <2>2. UNCHANGED <<world, chain, txFile, traceFile>>
    BY <2>1 DEF world, files
  <2>3. t.ver = chain /\ t.traces \in {chain, Nothing} /\ (txFile # NoFile => t.receipt)
    BY <2>1 DEF OneInv, OneFiles, Parsed, Torn, Marks, ByNumber
  <2>4. Fits(p, "cached?", t, txFile' # NoFile)
    BY <2>2, <2>3 DEF Fits
  <2>5. QED
    BY <2>1, <2>2, <2>4, OneMoved, OneFilesStay DEF OneInv
<1>6. ASSUME VisitTransaction(p) PROVE OneInv(p)'
  <2>1. PICK t \in TxData, l \in {"cacheTx?", "done"} :
              /\ Moved(p, l, proc[p].block, t) /\ proc[p].pc = "cached?"
              /\ t.ver = proc[p].tx.ver
              /\ t.receipt = IF txFile # NoFile THEN proc[p].tx.receipt ELSE Knows(t.ver)
              /\ \/ t.traces = proc[p].tx.traces
                    /\ (~Has(p, "trace") \/ (txFile = NoFile /\ t.ver = Nothing))
                 \/ t.traces = (IF Knows(t.ver) THEN t.ver ELSE Nothing)
              /\ UNCHANGED <<world, files, kills>>
    BY <1>6, <1>p, VisitDoes
  <2>2. UNCHANGED <<world, chain, txFile, traceFile>>
    BY <2>1 DEF world, files
  <2>3. Knows(chain) /\ chain # Nothing
    BY MarksAreNoData DEF Knows, OneInv
  <2>4. proc[p].tool \in {"trans", "export"} /\ proc[p].ripe =>
           /\ proc[p].tx.ver = chain /\ proc[p].tx.traces \in {chain, Nothing}
           /\ txFile # NoFile => proc[p].tx.receipt
    BY <2>1 DEF OneInv, OneProc, OneTx
  <2>5. Fits(p, l, t, txFile' # NoFile)
    BY <2>1, <2>3, <2>4 DEF Fits
  <2>6. QED
    BY <2>1, <2>2, <2>5, OneMoved, OneFilesStay DEF OneInv
<1>7. ASSUME CacheTransaction(p) PROVE OneInv(p)'
  BY <1>7, <1>p DEF CacheTransaction, At, StaleInv, StaleProc
<1>8. ASSUME LoadTx(p) PROVE OneInv(p)'
  <2>1. PICK t \in TxData :
                /\ Moved(p, "traces", proc[p].block, t) /\ proc[p].pc = "export"
                /\ \/ txFile # NoFile /\ t = Parsed(txFile, NullTx)
                   \/ txFile = NoFile /\ t.ver = ByNumber /\ t.traces = Nothing
                         /\ t.receipt = synced
                /\ UNCHANGED <<world, files, kills>>
    BY <1>8, <1>p, LoadDoes
  <2>2. UNCHANGED <<world, chain, txFile, traceFile>>
    BY <2>1 DEF world, files
  <2>3. t.ver = chain /\ t.traces \in {chain, Nothing} /\ t.receipt
    BY <2>1 DEF OneInv, OneFiles, Parsed, Torn, Marks, ByNumber
  <2>4. Fits(p, "traces", t, txFile' # NoFile)
    BY <2>1, <2>3 DEF Fits, OneInv, OneProc
  <2>5. QED
    BY <2>1, <2>2, <2>4, OneMoved, OneFilesStay DEF OneInv
<1>9. ASSUME LoadTraces(p) PROVE OneInv(p)'
  <2>1. PICK t \in TxData, l \in {"openTrace", "loaded", "articulate"} :
              /\ Moved(p, l, proc[p].block, t) /\ proc[p].pc = "traces"
              /\ t.ver = proc[p].tx.ver /\ t.receipt = proc[p].tx.receipt
              /\ \/ t = proc[p].tx /\ (~Has(p, "trace") \/ t.traces # Nothing)
                 \/ traceFile # NoFile /\ t.traces = Parsed(traceFile, Nothing)
                 \/ t.traces = TracesOf(p, proc[p].tx)
              /\ UNCHANGED <<world, files, kills>>
    BY <1>9, <1>p, TracesDo
  <2>2. UNCHANGED <<world, chain, txFile, traceFile>>
    BY <2>1 DEF world, files
  <2>3. traceFile # NoFile => Parsed(traceFile, Nothing) = chain
    BY <2>1, MarksAreNoData DEF OneInv, OneFiles, Parsed, Torn, Marks
  <2>4. proc[p].tx.ver = chain => TracesOf(p, proc[p].tx) = chain
    BY DEF TracesOf, ExcludeTrace, OnlyOne, Knows, OneInv
  <2>5. proc[p].tool \in {"trans", "export"} /\ proc[p].ripe =>
           /\ proc[p].tx.ver = chain /\ proc[p].tx.traces \in {chain, Nothing}
           /\ proc[p].tx.receipt
    BY <2>1 DEF OneInv, OneProc, OneTx
  <2>6. proc[p].tool = "export"
    BY <2>1 DEF OneInv, OneProc
  <2>7. Fits(p, l, t, txFile' # NoFile)
    BY <2>1, <2>3, <2>4, <2>5, <2>6 DEF Fits
  <2>8. QED
    BY <2>1, <2>2, <2>7, OneMoved, OneFilesStay DEF OneInv
<1>10. ASSUME OpenTrace(p) \/ FillTrace(p) PROVE OneInv(p)'
  <2>1. PICK l \in {"fillTrace", "loaded"} :
           /\ Moved(p, l, proc[p].block, proc[p].tx)
           /\ l = "loaded" => traceFile' = proc[p].tx.traces
    BY <1>10, <1>p, GotoDoes DEF FillTrace, OpenTrace, At
  <2>2. UNCHANGED <<world, chain, txFile>> /\ proc[p].pc \in {"openTrace", "fillTrace"}
    BY <1>10 DEF OpenTrace, FillTrace, At, world
  <2>3. Has(p, "cache_traces") /\ proc[p].tx.traces # Nothing
    BY <2>2, <1>p DEF StaleInv, StaleProc, CacheTypes
  <2>4. proc[p].ripe /\ proc[p].tool = "export"
    BY <2>3 DEF Caching, OneInv, OneProc
  <2>5. OneTx(p)
    BY <2>4 DEF OneInv, OneProc
  <2>6. Fits(p, l, proc[p].tx, txFile' # NoFile) /\ proc[p].tx.traces = chain
    BY <2>1, <2>2, <2>3, <2>4, <2>5 DEF OneTx, Fits
  <2>7. OneFiles(p)'
    BY <2>1, <2>2, <2>6 DEF OneInv, OneFiles, Moved
  <2>8. QED
    BY <2>1, <2>2, <2>6, <2>7, OneMoved DEF OneInv
<1>12. ASSUME Articulate(p) PROVE OneInv(p)'
  <2>1. PICK t \in TxData, l \in {"openTx", "done"} :
              /\ Moved(p, l, proc[p].block, t) /\ proc[p].pc \in {"loaded", "articulate"}
              /\ t.ver = proc[p].tx.ver /\ t.receipt = proc[p].tx.receipt
              /\ t.traces = proc[p].tx.traces
              /\ UNCHANGED <<world, files, kills>>
    BY <1>12, <1>p, ArticulateDoes
  <2>2. UNCHANGED <<world, chain, txFile, traceFile>>
    BY <2>1 DEF world, files
  <2>3. Fits(p, l, t, txFile' # NoFile)
    BY <2>1 DEF Fits, OneInv, OneProc, OneTx
  <2>4. QED
    BY <2>1, <2>2, <2>3, OneMoved, OneFilesStay DEF OneInv
<1>13. ASSUME OpenTx(p) \/ FillTx(p) PROVE OneInv(p)'
  <2>1. PICK l \in {"fillTx", "done"} :
           /\ Moved(p, l, proc[p].block, proc[p].tx)
           /\ (l = "done" /\ txFile' = proc[p].tx) \/ (l = "fillTx" /\ txFile' = Hollow)
    BY <1>13, <1>p, GotoDoes DEF FillTx, OpenTx
  <2>2. UNCHANGED <<world, chain, traceFile>> /\ proc[p].pc \in {"openTx", "fillTx"}
    BY <1>13 DEF OpenTx, FillTx, At, world
  <2>3. Has(p, "cache_txs")
    BY <2>2, <1>p DEF StaleInv, StaleProc
  <2>4. proc[p].ripe /\ proc[p].tool = "export"
    BY <2>3 DEF Caching, OneInv, OneProc
  <2>5. OneTx(p)
    BY <2>4 DEF OneInv, OneProc
  <2>6. Fits(p, l, proc[p].tx, txFile' # NoFile)
    BY <2>1, <2>2, <2>4, <2>5 DEF OneTx, Fits
  <2>7. /\ proc[p].tx.ver = chain /\ proc[p].tx.receipt /\ proc[p].tx.traces \in {chain, Nothing}
        /\ proc[p].tx \notin Marks
    BY <2>2, <2>5, <1>p, ProcFields, MarksAreNoData DEF OneTx
  <2>8. OneFiles(p)'
    BY <2>1, <2>2, <2>7 DEF OneInv, OneFiles, Moved, Marks
  <2>9. QED
    BY <2>1, <2>2, <2>6, <2>8, OneMoved DEF OneInv
<1>15. ASSUME Flush(p) PROVE OneInv(p)'
  BY <1>15 DEF Flush, OnlyOne
<1>16. ASSUME CrashOnTorn(p) PROVE OneInv(p)'
  <2>1. Moved(p, "idle", proc[p].block, proc[p].tx) /\ UNCHANGED <<world, files>>
           /\ proc[p].pc \notin {"fillTx", "fillTrace"}
    BY <1>16, <1>p, GotoDoes DEF CrashOnTorn, At
  <2>2. UNCHANGED <<world, chain, txFile, traceFile>> /\ Fits(p, "idle", proc[p].tx, txFile' # NoFile)
    BY <2>1 DEF world, files, Fits
  <2>3. QED
    BY <2>1, <2>2, OneMoved, OneFilesStay DEF OneInv
<1>17. ASSUME Kill(p) PROVE OneInv(p)'
  BY <1>17 DEF Kill, OnlyOne, CacheTypes
<1>18. ASSUME Reorg PROVE OneInv(p)'
  <2>1. age = "new" /\ UNCHANGED <<age, synced, files, proc, kills>>
    BY <1>18 DEF Reorg
  <2>2. txFile = NoFile /\ traceFile = NoFile
    BY <2>1 DEF StaleInv, StaleFiles
  <2>3. ~(proc[p].tool \in {"trans", "export"} /\ proc[p].ripe)
    BY <2>1 DEF OneInv, OneProc
  <2>4. OneFiles(p)'
    BY <2>1, <2>2 DEF OneFiles, files, Marks
  <2>5. QED
    BY <2>1, <2>3, <2>4 DEF OneInv, OneProc, Caching, Has
<1>19. ASSUME Grow PROVE OneInv(p)'
  <2>1. age # "ripe" /\ UNCHANGED <<chain, synced, files, proc, kills>>
    BY <1>19 DEF Grow
  <2>2. ~(proc[p].tool \in {"trans", "export"} /\ proc[p].ripe)
    BY <2>1 DEF OneInv, OneProc
  <2>3. OneFiles(p)'
    BY <2>1 DEF OneInv, OneFiles, files, Marks
  <2>4. QED
    BY <2>1, <2>2, <2>3 DEF OneInv, OneProc, Caching, Has
<1>20. ASSUME Desync PROVE OneInv(p)'
  BY <1>20 DEF Desync, OnlyOne
<1>21. ASSUME UNCHANGED vars PROVE OneInv(p)'
  BY <1>21 DEF vars, OneInv, OneFiles, OneProc, OneTx, Caching, Has
<1>22. QED
  BY <1>p, <1>1, <1>2, <1>3, <1>5, <1>6, <1>7, <1>8, <1>9, <1>10, <1>12, <1>13,
     <1>15, <1>16, <1>17, <1>18, <1>19, <1>20, <1>21 DEF Next

\* Whatever options the runs of acctExport and getTrans before it had, and
\* however often the block was replaced before it was ripe, a run shows of a
\* ripe block the transaction that is on the chain, with its receipt and, if
\* asked, its traces (loadTx_Func, loadTraces, articulateAll).
THEOREM ExportsShowTheChain ==
    ASSUME CacheConstants, NEW p, OnlyOne(p)
    PROVE  Spec => []CachesTrue
<1>0. OnlyExportsCache
  BY DEF OnlyOne
<1>1. Init => CacheTypes /\ StaleInv /\ OneInv(p)
  BY CacheTypesInit, StaleInit, OneInit
<1>2. CacheTypes /\ StaleInv /\ OneInv(p) /\ [Next]_vars => (CacheTypes /\ StaleInv /\ OneInv(p))'
  BY <1>0, CacheTypesStep, StaleStep, OneStep
<1>3. CacheTypes /\ StaleInv /\ OneInv(p) => CachesTrue
  <2> SUFFICES ASSUME OneInv(p) PROVE CachesTrue
    OBVIOUS
  <2>1. \A q \in Procs : q = p
    BY DEF OnlyOne
  <2>2. Answers(p, {"trans", "export"}) =>
           /\ proc[p].tx.ver = chain /\ proc[p].tx.receipt
           /\ Has(p, "trace") => proc[p].tx.traces = chain
    BY DEF Answers, At, OneInv, OneProc, OneTx, HasTx, HasReceipt, HasTraces
  <2>3. QED
    BY <2>1, <2>2 DEF CachesTrue, TxsTrue, ReceiptsThere, TracesTrue
<1>4. QED
  BY <1>1, <1>2, <1>3, PTL DEF Spec

-----------------------------------------------------------------------------
(* getBlocks *)

\* The block is not replaced, the node has it, and nobody caches raw blocks.
Settled ==
    /\ MaxReorgs = 0 /\ MayDesync = FALSE /\ Big = FALSE
    /\ \A c \in Commands : c.tool = "blocks" => ~({"raw", "cache"} \subseteq c.flags)

BlockProc(p) ==
    /\ proc[p].pc \in OfBlocks => proc[p].tool = "blocks"
    /\ proc[p].tool = "blocks" => proc[p].pc \in OfBlocks \cup {"idle", "done"}
    /\ proc[p].tool = "blocks" /\ Has(p, "cache") => ~Has(p, "raw")
    /\ proc[p].pc \in {"openBlock", "fillBlock"} => Has(p, "cache")
    /\ proc[p].tool = "blocks" /\ proc[p].pc \in {"openBlock", "fillBlock", "done"} =>
          proc[p].block.ver = chain /\ (Has(p, "raw") \/ proc[p].block.receipts)

\* The file is torn or has the block of the chain with its receipts.
BlockOnFile ==
    blockFile \notin {NoFile, Hollow} =>
       blockFile # Part /\ blockFile.ver = chain /\ blockFile.receipts

BlockInv == synced = TRUE /\ BlockOnFile /\ \A p \in Procs : BlockProc(p)

LEMMA BlockMoved ==
    ASSUME BlockInv, NEW p \in Procs, NEW l, NEW b, NEW t, Moved(p, l, b, t), UNCHANGED world,
           proc[p].tool = "blocks" => l \in OfBlocks \cup {"idle", "done"},
           l \in OfBlocks => proc[p].tool = "blocks",
           l \in {"openBlock", "fillBlock"} => Has(p, "cache"),
           proc[p].tool = "blocks" /\ l \in {"openBlock", "fillBlock", "done"} =>
              b.ver = chain /\ (Has(p, "raw") \/ b.receipts)
    PROVE  synced' = TRUE /\ \A q \in Procs : BlockProc(q)'
<1>1. ASSUME NEW q \in Procs, q # p PROVE BlockProc(q)'
  BY <1>1 DEF Moved, BlockInv, BlockProc, Has, world
<1>2. BlockProc(p)'
  BY DEF Moved, BlockInv, BlockProc, Has, world
<1>3. QED
  BY <1>1, <1>2 DEF BlockInv, world

LEMMA BlockInit ==
    ASSUME CacheConstants, Init
    PROVE  BlockInv
<1>1. ASSUME NEW p \in Procs PROVE BlockProc(p)
  BY DEF Init, BlockProc, OfBlocks
<1>2. QED
  BY <1>1 DEF Init, BlockInv, BlockOnFile

LEMMA BlockStep ==
    ASSUME CacheConstants, Settled, CacheTypes, BlockInv, [Next]_vars
    PROVE  BlockInv'
<1> USE DEF OfBlocks
<1>a. ASSUME NEW p \in Procs, NEW l, NEW b, NEW t, Moved(p, l, b, t),
             UNCHANGED <<world, blockFile>>, proc[p].pc \notin OfBlocks \cup {"idle", "done"},
             l \notin OfBlocks
      PROVE  BlockInv'
  <2>1. proc[p].tool # "blocks"
    BY <1>a DEF BlockInv, BlockProc
  <2>2. synced' = TRUE /\ \A q \in Procs : BlockProc(q)'
    BY <1>a, <2>1, BlockMoved
  <2>3. QED
    BY <1>a, <2>2 DEF BlockInv, BlockOnFile, world
<1>b. UNCHANGED <<world, files, kills>> => UNCHANGED <<world, blockFile>>
  BY DEF files
<1>1. ASSUME NEW p \in Procs, Begin(p) PROVE BlockInv'
  <2>1. PICK c \in Commands :
              /\ proc'[p].pc = c.tool /\ proc'[p].tool = c.tool /\ proc'[p].flags = FlagsOf(c)
              /\ \A q \in Procs : q # p => proc'[q] = proc[q]
              /\ UNCHANGED <<world, files, kills>>
    BY <1>1, BeginDoes
  <2>2. c.tool \in {"blocks", "trans", "export"}
    BY DEF CacheConstants
  <2>3. c.tool = "blocks" /\ "cache" \in FlagsOf(c) => "raw" \notin FlagsOf(c)
    BY DEF Settled, FlagsOf
  <2>4. BlockProc(p)'
    BY <2>1, <2>2, <2>3 DEF BlockProc, Has
  <2>5. ASSUME NEW q \in Procs, q # p PROVE BlockProc(q)'
    BY <2>1, <2>5 DEF BlockInv, BlockProc, Has, world
  <2>6. QED
    BY <2>1, <2>4, <2>5 DEF BlockInv, BlockOnFile, world, files
<1>2. ASSUME NEW p \in Procs, QueryBlock(p) PROVE BlockInv'
  <2>1. PICK b \in BlockData, l \in {"openBlock", "done"} :
              /\ Moved(p, l, b, proc[p].tx)
              /\ proc[p].pc = "blocks" /\ (l = "openBlock" => Has(p, "cache"))
              /\ \/ /\ ~Has(p, "raw") /\ InBlockCache
                    /\ b.ver = Parsed(blockFile, NullBlock).ver
                    /\ b.receipts = Parsed(blockFile, NullBlock).receipts
                 \/ b.ver = ByNumber /\ b.receipts = ~Has(p, "raw")
              /\ UNCHANGED <<world, files, kills>>
    BY <1>2, QueryBlockDoes
  <2>2. ByNumber = chain
    BY DEF ByNumber, BlockInv
  <2>3. InBlockCache => Parsed(blockFile, NullBlock) = blockFile /\ blockFile.ver = chain /\ blockFile.receipts
    BY DEF InBlockCache, Parsed, Torn, BlockInv, BlockOnFile
  <2>4. b.ver = chain /\ (Has(p, "raw") \/ b.receipts)
    BY <2>1, <2>2, <2>3
  <2>5. proc[p].tool = "blocks"
    BY <2>1 DEF BlockInv, BlockProc
  <2>6. synced' = TRUE /\ \A q \in Procs : BlockProc(q)'
    BY <2>1, <2>4, <2>5, BlockMoved
  <2>7. QED
    BY <2>1, <2>6 DEF BlockInv, BlockOnFile, world, files
<1>3. ASSUME NEW p \in Procs, OpenBlock(p) \/ FillBlock(p) PROVE BlockInv'
  <2>1. PICK l \in {"fillBlock", "done"} : Moved(p, l, proc[p].block, proc[p].tx)
    BY <1>3, GotoDoes
  <2>2. UNCHANGED world /\ proc[p].pc \in {"openBlock", "fillBlock"}
           /\ blockFile' \in {Hollow, proc[p].block}
    BY <1>3 DEF OpenBlock, FillBlock, At
  <2>3. proc[p].tool = "blocks" /\ Has(p, "cache") /\ proc[p].block.ver = chain
           /\ proc[p].block.receipts
    BY <2>2 DEF BlockInv, BlockProc
  <2>4. synced' = TRUE /\ \A q \in Procs : BlockProc(q)'
    BY <2>1, <2>2, <2>3, BlockMoved
  <2>5. proc[p].block # Part
    BY ProcFields DEF CacheConstants, Torn
  <2>6. BlockOnFile'
    BY <2>2, <2>3, <2>5 DEF BlockOnFile, world
  <2>7. QED
    BY <2>4, <2>6 DEF BlockInv
<1>5. ASSUME NEW p \in Procs, GetTransaction(p) PROVE BlockInv'
  BY <1>5, <1>a, <1>b, LoadDoes
<1>6. ASSUME NEW p \in Procs, VisitTransaction(p) PROVE BlockInv'
  BY <1>6, <1>a, <1>b, VisitDoes
<1>7. ASSUME NEW p \in Procs, CacheTransaction(p) PROVE BlockInv'
  BY <1>7, <1>a, <1>b, CacheTransactionDoes
<1>8. ASSUME NEW p \in Procs, LoadTx(p) PROVE BlockInv'
  BY <1>8, <1>a, <1>b, LoadDoes
<1>9. ASSUME NEW p \in Procs, LoadTraces(p) PROVE BlockInv'
  BY <1>9, <1>a, <1>b, TracesDo
<1>10. ASSUME NEW p \in Procs, OpenTrace(p) \/ FillTrace(p) \/ OpenTx(p) \/ FillTx(p) PROVE BlockInv'
  <2>1. PICK l \in {"fillTrace", "loaded", "fillTx", "done"} :
           Moved(p, l, proc[p].block, proc[p].tx)
    BY <1>10, GotoDoes
  <2>2. UNCHANGED <<world, blockFile>>
           /\ proc[p].pc \in {"openTrace", "fillTrace", "openTx", "fillTx"}
    BY <1>10 DEF OpenTrace, FillTrace, OpenTx, FillTx, At
  <2>3. QED
    BY <1>a, <2>1, <2>2
<1>12. ASSUME NEW p \in Procs, Articulate(p) PROVE BlockInv'
  BY <1>12, <1>a, <1>b, ArticulateDoes
<1>15. ASSUME NEW p \in Procs, Flush(p) PROVE BlockInv'
  BY <1>15 DEF Flush, Settled
<1>16. ASSUME NEW p \in Procs, CrashOnTorn(p) \/ Kill(p) PROVE BlockInv'
  <2>1. Moved(p, "idle", proc[p].block, proc[p].tx) /\ UNCHANGED <<world, files>>
    BY <1>16, GotoDoes DEF CrashOnTorn, Kill
  <2>2. synced' = TRUE /\ \A q \in Procs : BlockProc(q)'
    BY <2>1, BlockMoved
  <2>3. QED
    BY <2>1, <2>2 DEF BlockInv, BlockOnFile, world, files
<1>18. ASSUME Reorg PROVE BlockInv'
  BY <1>18 DEF Reorg, Settled, CacheTypes, Versions
<1>19. ASSUME Grow PROVE BlockInv'
  BY <1>19 DEF Grow, files, BlockInv, BlockOnFile, BlockProc, Has
<1>20. ASSUME Desync PROVE BlockInv'
  BY <1>20 DEF Desync, Settled
<1>21. ASSUME UNCHANGED vars PROVE BlockInv'
  BY <1>21 DEF vars, BlockInv, BlockOnFile, BlockProc, Has
<1>22. QED
  BY <1>1, <1>2, <1>3, <1>5, <1>6, <1>7, <1>8, <1>9, <1>10, <1>12,
     <1>15, <1>16, <1>18, <1>19, <1>20, <1>21 DEF Next

\* Several getBlocks at once, any of them killed while it writes: each shows
\* the block that is on the chain, with its receipts unless it was asked for
\* the raw block, as long as the block is not replaced and no raw block is
\* cached (queryBlock, doOneBlock).
THEOREM BlocksShowTheChain ==
    ASSUME CacheConstants, Settled
    PROVE  Spec => []BlocksTrue
<1>1. Init => CacheTypes /\ BlockInv
  BY CacheTypesInit, BlockInit
<1>2. CacheTypes /\ BlockInv /\ [Next]_vars => (CacheTypes /\ BlockInv)'
  BY CacheTypesStep, BlockStep
<1>3. BlockInv => BlocksTrue
  BY DEF BlockInv, BlockProc, BlocksTrue, Answers, At
<1>4. QED
  BY <1>1, <1>2, <1>3, PTL DEF Spec
=============================================================================
