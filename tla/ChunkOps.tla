------------------------------ MODULE ChunkOps ------------------------------
(***************************************************************************)
(* What the block scraper's files hold, seen one block at a time.          *)
(*                                                                         *)
(* A stage or chunk file is a list of fixed-width appearance records       *)
(* (address, block, transaction).  Ripe files are appended whole, so a     *)
(* file is a sequence of blocks, block b standing for its Weight[b]        *)
(* consecutive records.  Module Chunking checks that cutting such a        *)
(* sequence with BreakAt is what the record-by-record search of            *)
(* write_chunks does.                                                      *)
(***************************************************************************)
EXTENDS Integers, Sequences

CONSTANTS MaxBlock,    \* the highest block of the instance
          Weight,      \* Weight[b]: number of appearance records of block b
          MaxRows,     \* MAX_ROWS
          SnapGrid,    \* SNAP_TO_GRID_BLKS
          FirstSnap    \* FIRST_SNAP_TO_GRID

Block == 0 .. MaxBlock

\* blaze writes at least the miner's reward of a block, so no file is empty.
ASSUME ChunkConstants ==
    /\ MaxBlock \in Nat
    /\ Weight \in [Block -> Nat \ {0}]
    /\ MaxRows \in Nat \ {0}
    /\ SnapGrid \in Nat \ {0, 1}
    /\ FirstSnap \in Nat

\* The number of records in the first i blocks of s.
RecordsUpTo(s, i) ==
    LET upTo[j \in 0 .. Len(s)] ==
            IF j = 0 THEN 0 ELSE upTo[j - 1] + Weight[s[j]]
    IN  upTo[i]

\* fileSize(newStage) / 59
NRecords(s) == RecordsUpTo(s, Len(s))

\* min(MAX_ROWS, nRecords): a snap may cut fewer than MAX_ROWS records, and an
\* ordinary consolidation only starts with more than MAX_ROWS.
ChunkSize(s) == IF NRecords(s) < MaxRows THEN NRecords(s) ELSE MaxRows

\* Mutant: the search starts one record late.
IsBreakLate(s, k, i) ==
    LET ends(j) == /\ RecordsUpTo(s, j) > k
                   /\ j < Len(s) => s[j + 1] # s[j]
    IN  ends(i) /\ \A j \in 1 .. i - 1 : ~ ends(j)

\* The first block boundary of s at or after its k-th record.
IsBreak(s, k, i) ==
    LET ends(j) == /\ RecordsUpTo(s, j) >= k
                   /\ j < Len(s) => s[j + 1] # s[j]
    IN  ends(i) /\ \A j \in 1 .. i - 1 : ~ ends(j)

\* Where the chunk ends; the end of the file if no boundary is found.
BreakAt(s, k) ==
    IF \E i \in 1 .. Len(s) : IsBreak(s, k, i)
    THEN CHOOSE i \in 1 .. Len(s) : IsBreak(s, k, i)
    ELSE Len(s)

\* A block after which the code cuts a chunk however short.
Snaps(b) == b > FirstSnap /\ b % SnapGrid = 0

\* The blocks a..b, each exactly once and in order.
Run(a, b) == [i \in 1 .. (b - a + 1) |-> a + i - 1]
=============================================================================
