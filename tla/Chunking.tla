------------------------------ MODULE Chunking ------------------------------
(***************************************************************************)
(* One iteration of the loop of CConsolidator::write_chunks, record by     *)
(* record: where is the stage cut into a chunk and a remainder?            *)
(*                                                                         *)
(* `blocks' is the stage as ChunkOps sees it, `lines' the same file as the *)
(* code sees it: one entry per record, of which only the block number (the *)
(* second tab-separated field) matters to the search.  Positions are the   *)
(* code's, from 0.                                                         *)
(***************************************************************************)
EXTENDS ChunkOps

CONSTANTS MaxLen    \* bound: the longest stage, in blocks

ASSUME MaxLenAssumption == MaxLen \in Nat

NOPOS == -1      \* qbNOPOS, the largest uint64: here a number no position equals
NoBlock == -1    \* the empty string prvBlock starts as

VARIABLES blocks, chunkSize, lines, record, prvBlock, loc,
          consolidatedLines, remainingLines, step

cutVars == <<blocks, chunkSize, lines, record, prvBlock, loc,
             consolidatedLines, remainingLines, step>>

\* The record-level file: Weight[b] records for each block b of s, in order.
Records(s) ==
    LET expand[i \in 0 .. Len(s)] ==
            IF i = 0 THEN << >>
            ELSE expand[i - 1] \o [r \in 1 .. Weight[s[i]] |-> s[i]]
    IN  expand[Len(s)]

LineAt(i) == lines[i + 1]

FirstRecordLate(k, n) == k

\* chunkSize - 1 in uint64: for an empty stage it wraps past every record.
FirstRecord(k, n) == IF k = 0 THEN n ELSE k - 1

\* Any stage: blocks need not be distinct, an interrupted run can leave a block
\* in it twice.  The callers ask for MAX_ROWS or for fewer when there are fewer.
CutInit ==
    /\ blocks \in UNION {[1 .. n -> Block] : n \in 0 .. MaxLen}
    /\ chunkSize = ChunkSize(blocks)
    /\ lines = Records(blocks)
    /\ record = FirstRecord(chunkSize, Len(lines))
    /\ prvBlock = NoBlock
    /\ loc = NOPOS
    /\ consolidatedLines = << >>
    /\ remainingLines = << >>
    /\ step = "search"

Searching == record < Len(lines) /\ loc = NOPOS

\* The body of the search loop, one record.
Search ==
    /\ step = "search"
    /\ Searching
    /\ IF prvBlock # LineAt(record)
       THEN /\ loc' = IF prvBlock # NoBlock THEN record - 1 ELSE loc
            /\ prvBlock' = LineAt(record)
       ELSE UNCHANGED <<loc, prvBlock>>
    /\ record' = record + 1
    /\ UNCHANGED <<blocks, chunkSize, lines, consolidatedLines, remainingLines, step>>

\* No break found: everything goes.
DefaultLoc ==
    IF loc # NOPOS THEN loc ELSE IF lines # << >> THEN Len(lines) - 1 ELSE 0

\* The records up to and including loc are consolidated, the others remain.
Split ==
    /\ step = "search"
    /\ ~ Searching
    /\ loc' = DefaultLoc
    /\ IF lines # << >>
       THEN /\ consolidatedLines' = SubSeq(lines, 1, loc' + 1)
            /\ remainingLines' = SubSeq(lines, loc' + 2, Len(lines))
       ELSE UNCHANGED <<consolidatedLines, remainingLines>>
    /\ step' = "done"
    /\ UNCHANGED <<blocks, chunkSize, lines, record, prvBlock>>

CutDone == step = "done" /\ UNCHANGED cutVars

CutNext == Search \/ Split \/ CutDone

CutSpec == CutInit /\ [][CutNext]_cutVars

-----------------------------------------------------------------------------
(***************************************************************************)
(* Properties                                                              *)
(***************************************************************************)

\* Every variable has its type; loc is a position of the file or NOPOS.
CutTypeOK ==
    /\ blocks \in Seq(Block) /\ lines \in Seq(Block)
    /\ consolidatedLines \in Seq(Block) /\ remainingLines \in Seq(Block)
    /\ chunkSize \in 0 .. MaxRows
    /\ record \in 0 .. Len(lines)
    /\ prvBlock \in Block \cup {NoBlock}
    /\ loc \in {NOPOS, 0} \cup 0 .. (Len(lines) - 1)
    /\ step \in {"search", "done"}

\* The record-level search cuts exactly where the block-level BreakAt of the
\* other modules cuts: the abstraction to blocks loses nothing.
AtBlockBreak ==
    step = "done" =>
        LET i == BreakAt(blocks, chunkSize)
        IN  /\ consolidatedLines = Records(SubSeq(blocks, 1, i))
            /\ remainingLines = Records(SubSeq(blocks, i + 1, Len(blocks)))

\* The chunk is full, and not by more than one block: it has at least chunkSize
\* records, no block is split between the chunk and the remainder, and without
\* the (adjacent copies of the) last block it would fall short.
ChunkIsTight ==
    step = "done" /\ lines # << >> =>
        LET last == consolidatedLines[Len(consolidatedLines)]
            before == {n \in 1 .. Len(consolidatedLines) : consolidatedLines[n] # last}
        IN  /\ Len(consolidatedLines) >= chunkSize
            /\ remainingLines # << >> => remainingLines[1] # last
            /\ \A n \in before : n < chunkSize

\* write_chunks: every stage is cut where BreakAt, on whole blocks, cuts it; the
\* chunk is full, splits no block, and has not a block too many.
CutsAtBlockBreak == CutTypeOK /\ AtBlockBreak /\ ChunkIsTight
=============================================================================
