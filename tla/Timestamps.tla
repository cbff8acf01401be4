----------------------------- MODULE Timestamps -----------------------------
(***************************************************************************)
(* freshenTimestamps and loadTimestamps: the file ts.bin, one record per   *)
(* block, shared by blockScrape, acctExport and the tools through the lock *)
(* of module FileLock.  A record is represented by the block number in it; *)
(* record number i (from 0) is ts[i + 1].                                  *)
(***************************************************************************)
EXTENDS FileLock, Sequences

CONSTANTS MaxBlock,     \* bound: the blocks there are
          MaxRecords    \* bound: how long ts.bin may get

ASSUME TsConstants == MaxBlock \in Nat \ {0} /\ MaxRecords \in Nat

Block == 0 .. MaxBlock

VARIABLES
    ts,         \* ts.bin
    checking,   \* the process has read nRecords and goes on to look for the lock
    minBlock,   \* the parameter of its call
    nRecords,   \* its count of records, then bn of the loop
    covered,    \* <<minBlock, cnt>>: its last call that returned true, and the
                \* number of records that it can then load
    unanswered  \* history: the records written of a header the node did not give

tsVars == <<ts, checking, minBlock, nRecords, covered, unanswered>>
vars == <<lockVars, tsVars>>

\* ts.bin is unpacked from the copy of the installation, or empty.
TsInit ==
    /\ Init
    /\ ts \in {<< >>, <<0>>, <<0, 1>>}
    /\ checking = [p \in Procs |-> FALSE]
    /\ minBlock = [p \in Procs |-> 0]
    /\ nRecords = [p \in Procs |-> 0]
    /\ covered = [p \in Procs |-> <<0, 1>>]
    /\ unanswered = {}

Idle(p) == pc[p] = "out" /\ ~ checking[p]

\* Nothing to do: "if (nRecords >= minBlock) return true".
FreshenNothing(p, m) ==
    /\ Idle(p)
    /\ Len(ts) >= m
    /\ covered' = [covered EXCEPT ![p] = <<m, Len(ts)>>]
    /\ UNCHANGED <<lockVars, ts, checking, minBlock, nRecords, unanswered>>

FreshenBegin(p, m) ==
    /\ Idle(p)
    /\ Len(ts) < m
    /\ checking' = [checking EXCEPT ![p] = TRUE]
    /\ minBlock' = [minBlock EXCEPT ![p] = m]
    /\ nRecords' = [nRecords EXCEPT ![p] = Len(ts)]
    /\ UNCHANGED <<lockVars, ts, covered, unanswered>>

\* "it's being updated elsewhere": return false.
FreshenLocked(p) ==
    /\ checking[p]
    /\ lck
    /\ checking' = [checking EXCEPT ![p] = FALSE]
    /\ UNCHANGED <<lockVars, ts, minBlock, nRecords, covered, unanswered>>

FreshenLock(p) ==
    /\ checking[p]
    /\ ~ lck
    /\ checking' = [checking EXCEPT ![p] = FALSE]
    /\ Lock(p)
    /\ UNCHANGED <<ts, minBlock, nRecords, covered, unanswered>>

\* The record of block zero, if there is none.
WriteFirst(p) ==
    /\ pc[p] = "open"
    /\ nRecords[p] = 0
    /\ Len(ts) < MaxRecords
    /\ ts' = Append(ts, 0)
    /\ nRecords' = [nRecords EXCEPT ![p] = 1]
    /\ UNCHANGED <<lockVars, checking, minBlock, covered, unanswered>>

\* One turn of the loop; the record is flushed to the file.
WriteNext(p) ==
    /\ pc[p] = "open"
    /\ nRecords[p] > 0 /\ nRecords[p] <= minBlock[p]
    /\ Len(ts) < MaxRecords
    /\ ts' = Append(ts, nRecords[p])
    /\ nRecords' = [nRecords EXCEPT ![p] = @ + 1]
    /\ UNCHANGED <<lockVars, checking, minBlock, covered, unanswered>>

\* Mutant: a block of which the node gives no header is passed over.
SkipUnanswered(p) ==
    /\ pc[p] = "open"
    /\ nRecords[p] > 0 /\ nRecords[p] <= minBlock[p]
    /\ Fault("rpc")
    /\ nRecords' = [nRecords EXCEPT ![p] = @ + 1]
    /\ unanswered' = unanswered \cup {nRecords[p]}
    /\ UNCHANGED <<lck, pc, looks, owns, listed, renewed, abandoned, ts, checking, minBlock,
                   covered>>

\* The node answers with an error or null: getBlock_header returns true and leaves the
\* block as it was made, so the record is (0, 0).  Nobody ever writes it again.
WriteUnanswered(p) ==
    /\ pc[p] = "open"
    /\ nRecords[p] > 0 /\ nRecords[p] <= minBlock[p]
    /\ Fault("rpc")
    /\ Len(ts) < MaxRecords
    /\ ts' = Append(ts, 0)
    /\ nRecords' = [nRecords EXCEPT ![p] = @ + 1]
    /\ unanswered' = unanswered \cup {nRecords[p]}
    /\ UNCHANGED <<lck, pc, looks, owns, listed, renewed, abandoned, checking, minBlock,
                   covered>>

\* The end of the loop: Release, return true.
FreshenDone(p) ==
    /\ Close(p)
    /\ nRecords[p] > minBlock[p]
    /\ covered' = [covered EXCEPT ![p] = <<minBlock[p], Len(ts)>>]
    /\ UNCHANGED <<ts, checking, minBlock, nRecords, unanswered>>

LockStep(p) == (Step(p) \/ QuitHandler(p) \/ Kill(p)) /\ UNCHANGED tsVars

Freshen(p) == \E m \in Block : FreshenNothing(p, m) \/ FreshenBegin(p, m)

Work(p) == \/ FreshenLocked(p) \/ FreshenLock(p)
           \/ WriteFirst(p) \/ WriteNext(p) \/ WriteUnanswered(p) \/ FreshenDone(p)

TsNext == \E p \in Procs : Freshen(p) \/ Work(p) \/ LockStep(p)

TsSpec == TsInit /\ [][TsNext]_vars

\* blockScrape calls freshenTimestamps after every pass, with ever later blocks.
TsFairSpec ==
    /\ TsSpec
    /\ \A p \in Procs :
        /\ WF_vars(Work(p) \/ (Step(p) /\ UNCHANGED tsVars))
        /\ WF_vars(FreshenBegin(p, MaxBlock))

-----------------------------------------------------------------------------
(* Properties *)

TsTypeOK ==
    /\ TypeOK
    /\ ts \in Seq(Block) /\ Len(ts) <= MaxRecords
    /\ checking \in [Procs -> BOOLEAN]
    /\ minBlock \in [Procs -> Block]
    /\ nRecords \in [Procs -> 0 .. MaxBlock + 1]
    /\ covered \in [Procs -> Block \X (0 .. MaxRecords)]
    /\ unanswered \subseteq Block

\* Record i of ts.bin is block i, since everybody indexes the file by block number, or
\* (0, 0) where the node did not answer for block i: one process at a time lets no other
\* record slip through failures, quits and kills at any place.
TsDense ==
    \A i \in 1 .. Len(ts) : ts[i] = i - 1 \/ (i - 1 \in unanswered /\ ts[i] = 0)

\* What every reader takes for granted (tsMemMap[blk * 2 + 1]): record i is block i.
\* The code does not keep this: README, section 5.
TsTrue == \A i \in 1 .. Len(ts) : ts[i] = i - 1

\* The file gets to the last block asked for, whatever faults there were, unless
\* one of them left the lock file behind.
TsCatchesUp == <>(abandoned \/ Len(ts) >= MaxBlock)

\* What acctExport relies on after a call that returned true: "Make sure the
\* timestamps column is at least as up to date as this monitor".
\* The code does not keep this: README, section 5.
TsCovers == \A p \in Procs : covered[p][1] < covered[p][2]

\* What the test for the lock file says: when it is there, somebody is writing.
\* The code does not keep this: README, section 5.
LockedMeansUpdating ==
    lck => \E p \in Procs : pc[p] \in {"register", "opening", "open", "closing"}
=============================================================================
