---------------------------- MODULE Upkeep_proofs ----------------------------
(***************************************************************************)
(* Files that are kept up to date: lock files and ts.bin behind one, and   *)
(* chunks fetched from IPFS, for any number of files, blocks and faults;   *)
(* the search of the block of a date, for every chain; and the prices as   *)
(* the tools use them.                                                     *)
(***************************************************************************)
EXTENDS Upkeep, PricesInUse, SequenceTheorems, FiniteSetTheorems, WellFoundedInduction, TLAPS

-----------------------------------------------------------------------------
(* A lock file has an owner, for any number of processes and faults *)

\* What the proof needs of the types.
LockTypes ==
    /\ lck \in BOOLEAN
    /\ pc \in [Procs -> Labels]
    /\ owns \in [Procs -> BOOLEAN]
    /\ listed \in [Procs -> BOOLEAN]
    /\ abandoned \in BOOLEAN

\* A process that owns a lock is on its way from Register to Unlist, and its quit
\* handler knows of the lock.
OwnsWhere ==
    \A p \in Procs : owns[p] => /\ pc[p] \in {"opening", "open", "closing", "unlist"}
                               /\ listed[p]

\* The owner of the lock file that is there is not one that has just removed its
\* own: between RemoveLock and Unlist another process may have made a new one.
OwnerWillRemove ==
    lck => abandoned \/ \E p \in Procs : \/ owns[p] /\ pc[p] # "unlist"
                                         \/ pc[p] = "register"

LockInv == LockTypes /\ OwnsWhere /\ OwnerWillRemove

LEMMA LockInitInv == Init => LockInv
  BY DEF Init, LockInv, LockTypes, OwnsWhere, OwnerWillRemove, Labels

\* Every step of a process keeps the invariant.  A step that takes the lock file
\* from the disk may leave other owners without one, never a lock without owner.
LEMMA LockStepInv ==
  ASSUME LockInv, NEW p \in Procs,
         Lock(p) \/ Step(p) \/ Close(p) \/ QuitHandler(p) \/ Kill(p)
  PROVE  LockInv'
<1> USE DEF LockInv, LockTypes, OwnsWhere, OwnerWillRemove, Labels, Goto
<1>1. CASE Lock(p) BY <1>1 DEF Lock
<1>2. CASE LookFree(p) BY <1>2 DEF LookFree
<1>3. CASE LookTaken(p) BY <1>3 DEF LookTaken
<1>4. CASE WaitedTooLong(p) BY <1>4 DEF WaitedTooLong
<1>5. CASE BreakLock(p) BY <1>5 DEF BreakLock
<1>6. CASE CreateLockFile(p) BY <1>6 DEF CreateLockFile
<1>7. CASE CreateFails(p) BY <1>7 DEF CreateFails
<1>8. CASE Register(p) BY <1>8 DEF Register
<1>9. CASE OpenFile(p) BY <1>9 DEF OpenFile
<1>10. CASE OpenFails(p) BY <1>10 DEF OpenFails
<1>11. CASE Close(p) BY <1>11 DEF Close
<1>12. CASE RemoveLock(p) BY <1>12 DEF RemoveLock
<1>13. CASE Unlist(p) BY <1>13 DEF Unlist
<1>14. CASE QuitHandler(p) BY <1>14 DEF QuitHandler, Gone
<1>15. CASE Kill(p) BY <1>15 DEF Kill, Gone
<1>16. QED
  BY <1>1, <1>2, <1>3, <1>4, <1>5, <1>6, <1>7, <1>8, <1>9, <1>10, <1>11,
     <1>12, <1>13, <1>14, <1>15 DEF Step

LEMMA LockStutter == LockInv /\ UNCHANGED lockVars => LockInv'
  BY DEF LockInv, LockTypes, OwnsWhere, OwnerWillRemove, lockVars

\* CSharedResource: whatever the processes do, and whichever of them quit, fail to
\* open a file or break a lock, a lock file that is there belongs to a process that
\* runs, unless one was killed or quit before the lock file was on its list.
THEOREM LocksHaveOwners == Spec => []LockHasOwner
<1>1. LockInv /\ [Next]_lockVars => LockInv'
  BY LockStepInv, LockStutter DEF Next
<1>2. LockInv => LockHasOwner
  BY DEF LockInv, OwnerWillRemove, LockHasOwner
<1>3. QED
  BY LockInitInv, <1>1, <1>2, PTL DEF Spec

-----------------------------------------------------------------------------
(* One process at a time keeps ts.bin dense *)

\* What the process counts is what the file holds, from the first look at the file
\* to the end of the call.
CountIsLength ==
    \A p \in Procs : checking[p] \/ pc[p] # "out" => nRecords[p] = Len(ts)

TsInv ==
    /\ ts \in Seq(Nat)
    /\ pc \in [Procs -> Labels]
    /\ checking \in [Procs -> BOOLEAN]
    /\ nRecords \in [Procs -> Nat]
    /\ CountIsLength
    /\ TsDense

LEMMA TsInitInv == TsInit => TsInv
<1> SUFFICES ASSUME TsInit PROVE TsInv
  OBVIOUS
<1>1. ts \in Seq(Nat) /\ TsDense
  <2>1. CASE ts = << >>
    BY <2>1 DEF TsDense
  <2>2. CASE ts = <<0>>
    BY <2>2 DEF TsDense
  <2>3. CASE ts = <<0, 1>>
    BY <2>3 DEF TsDense
  <2>4. QED
    BY <2>1, <2>2, <2>3 DEF TsInit
<1>2. QED
  BY <1>1 DEF TsInit, Init, TsInv, CountIsLength, Labels

\* Appending the block whose number is the length of a dense file.
LEMMA AppendDense ==
  ASSUME ts \in Seq(Nat), TsDense, NEW n \in Nat, n = Len(ts), UNCHANGED unanswered,
         ts' = Append(ts, n)
  PROVE  ts' \in Seq(Nat) /\ Len(ts') = n + 1 /\ TsDense'
  BY DEF TsDense

\* Appending the record of a block that the node does not know.
LEMMA AppendZero ==
  ASSUME ts \in Seq(Nat), TsDense, NEW n \in Nat, n = Len(ts),
         unanswered' = unanswered \cup {n}, ts' = Append(ts, 0)
  PROVE  ts' \in Seq(Nat) /\ Len(ts') = n + 1 /\ TsDense'
  BY DEF TsDense

\* The steps of Lock and Release start nothing: a process that is out stays out.
LEMMA LockStepKeeps ==
  ASSUME TsInv, NEW p \in Procs, LockStep(p)
  PROVE  TsInv'
<1>1. pc[p] # "out" /\ \E l \in Labels : Goto(p, l) \/ UNCHANGED pc
  BY DEF LockStep, Step, LookFree, LookTaken, WaitedTooLong, BreakLock,
         CreateLockFile, CreateFails, Register, OpenFile, OpenFails, RemoveLock,
         Unlist, QuitHandler, Kill, Gone, Labels
<1>2. UNCHANGED tsVars
  BY DEF LockStep
<1>3. QED
  BY <1>1, <1>2 DEF TsInv, CountIsLength, TsDense, tsVars, Goto, Labels

LEMMA TsStepInv ==
  ASSUME TsInv, \A p, q \in Procs : p = q, TsNext
  PROVE  TsInv'
<1>1. PICK p \in Procs : Freshen(p) \/ Work(p) \/ LockStep(p)
  BY DEF TsNext
<1>2. ASSUME NEW m \in Block, FreshenNothing(p, m) PROVE TsInv'
  BY <1>2 DEF FreshenNothing, TsInv, CountIsLength, TsDense, lockVars
<1>3. ASSUME NEW m \in Block, FreshenBegin(p, m) PROVE TsInv'
  BY <1>3 DEF FreshenBegin, Idle, TsInv, CountIsLength, TsDense, lockVars
<1>4. CASE FreshenLocked(p)
  BY <1>4 DEF FreshenLocked, TsInv, CountIsLength, TsDense, lockVars
<1>5. CASE FreshenLock(p)
  BY <1>5 DEF FreshenLock, Lock, Goto, Labels, TsInv, CountIsLength, TsDense
<1>6. CASE WriteFirst(p)
  <2>1. nRecords[p] \in Nat /\ nRecords[p] = Len(ts) /\ ts' = Append(ts, nRecords[p])
    BY <1>6 DEF WriteFirst, TsInv, CountIsLength
  <2>2. ts' \in Seq(Nat) /\ Len(ts') = nRecords[p] + 1 /\ TsDense'
    BY <1>6, <2>1, AppendDense DEF WriteFirst, TsInv
  <2>3. QED
    BY <1>6, <2>1, <2>2 DEF WriteFirst, TsInv, CountIsLength, lockVars
<1>7. CASE WriteNext(p)
  <2>1. nRecords[p] \in Nat /\ nRecords[p] = Len(ts) /\ ts' = Append(ts, nRecords[p])
    BY <1>7 DEF WriteNext, TsInv, CountIsLength
  <2>2. ts' \in Seq(Nat) /\ Len(ts') = nRecords[p] + 1 /\ TsDense'
    BY <1>7, <2>1, AppendDense DEF WriteNext, TsInv
  <2>3. QED
    BY <1>7, <2>1, <2>2 DEF WriteNext, TsInv, CountIsLength, lockVars
<1>8. CASE FreshenDone(p)
  BY <1>8 DEF FreshenDone, Close, Goto, Labels, TsInv, CountIsLength, TsDense
<1>9. CASE LockStep(p)
  BY <1>9, LockStepKeeps
<1>10. CASE WriteUnanswered(p)
  <2>1. nRecords[p] \in Nat /\ nRecords[p] = Len(ts) /\ ts' = Append(ts, 0)
    BY <1>10 DEF WriteUnanswered, TsInv, CountIsLength
  <2>2. ts' \in Seq(Nat) /\ Len(ts') = nRecords[p] + 1 /\ TsDense'
    BY <1>10, <2>1, AppendZero DEF WriteUnanswered, TsInv
  <2>3. QED
    BY <1>10, <2>1, <2>2 DEF WriteUnanswered, TsInv, CountIsLength
<1>11. QED
  BY <1>1, <1>2, <1>3, <1>4, <1>5, <1>6, <1>7, <1>8, <1>9, <1>10
     DEF Freshen, Work

\* freshenTimestamps, one process at a time: however often it fails, quits or is
\* killed, and wherever, record i of ts.bin is block i, or (0, 0) if the node did not
\* answer for block i when it was written.
THEOREM TimestampsDense ==
  ASSUME \A p, q \in Procs : p = q
  PROVE  TsSpec => []TsDense
<1>1. TsInv /\ [TsNext]_vars => TsInv'
  <2>1. ASSUME TsInv, UNCHANGED vars PROVE TsInv'
    BY <2>1 DEF TsInv, CountIsLength, TsDense, vars, lockVars, tsVars
  <2>2. QED
    BY <2>1, TsStepInv
<1>2. TsInv => TsDense
  BY DEF TsInv
<1>3. QED
  BY TsInitInv, <1>1, <1>2, PTL DEF TsSpec

-----------------------------------------------------------------------------
(* Chunks from IPFS *)

\* A file is partial only under the gunzip that writes it, and from the moment the
\* process found that the file is missing until its gunzip begins nobody makes one.
FetchInv ==
    /\ Fetch!TypeOK
    /\ \A f \in Files : out[f] = "partial" => \E p \in Fetchers : upc[p] = "gunzipping" /\ chunk[p] = f
    /\ \A p \in Fetchers : upc[p] = "gunzipping" => out[chunk[p]] = "partial" /\ outBy[chunk[p]] = p
    /\ \A p \in Fetchers :
          upc[p] \in {"zip?", "curl", "curling", "unzip?", "gunzip", "cleanup"}
             => out[chunk[p]] = "none"
    /\ Fetch!NeverReadsPart

LEMMA FetchInitInv == ASSUME Fetch!UnchainConstants, Fetch!Init PROVE FetchInv
  BY DEF Fetch!UnchainConstants, Fetch!Init, FetchInv, Fetch!TypeOK, Fetch!Labels, Fetch!NeverReadsPart

\* Only gunzip and the clean-up after it change a file, and none that is whole.
LEMMA FetchStep ==
  ASSUME Fetch!UnchainConstants, \A p, q \in Fetchers : p = q, "unpack" \notin CrashIn,
         FetchInv, Fetch!Next
  PROVE  FetchInv' /\ \A f \in Files : out[f] = "good" => out'[f] = "good"
<1> USE DEF FetchInv, Fetch!UnchainConstants, Fetch!TypeOK, Fetch!Labels, Fetch!NeverReadsPart
<1> USE DEF Fetch!At, Fetch!Goto, Fetch!SetZip, Fetch!SetOut, Fetch!zipVars, Fetch!outVars
<1>1. CASE Fetch!Crash
  BY <1>1, SMTT(40) DEF Fetch!Crash
<1>2. ASSUME NEW p \in Fetchers, Fetch!Step(p)
      PROVE  FetchInv' /\ \A f \in Files : out[f] = "good" => out'[f] = "good"
  <2>0. \A q \in Fetchers : q = p
    OBVIOUS
  <2>1. CASE Fetch!FindFile(p)
    BY <2>0, <2>1 DEF Fetch!FindFile
  <2>2. CASE Fetch!FindZip(p)
    BY <2>0, <2>2 DEF Fetch!FindZip
  <2>3. CASE Fetch!CurlOpens(p)
    BY <2>0, <2>3 DEF Fetch!CurlOpens
  <2>4. CASE Fetch!CurlReturns(p)
    BY <2>0, <2>4 DEF Fetch!CurlReturns
  <2>5. CASE Fetch!CurlFails(p)
    BY <2>0, <2>5 DEF Fetch!CurlFails
  <2>6. CASE Fetch!HaveZip(p)
    BY <2>0, <2>6 DEF Fetch!HaveZip
  <2>7. CASE Fetch!GunzipOpens(p)
    BY <2>0, <2>7 DEF Fetch!GunzipOpens
  <2>8. CASE Fetch!GunzipReturns(p)
    BY <2>0, <2>8 DEF Fetch!GunzipReturns
  <2>9. CASE Fetch!GunzipFails(p)
    BY <2>0, <2>9 DEF Fetch!GunzipFails
  <2>10. CASE Fetch!Cleanup(p)
    BY <2>0, <2>10 DEF Fetch!Cleanup
  <2>11. CASE Fetch!FileThere(p)
    BY <2>0, <2>11 DEF Fetch!FileThere
  <2>12. CASE Fetch!Use(p)
    BY <2>0, <2>12 DEF Fetch!Use
  <2>13. QED
    BY <1>2, <2>1, <2>2, <2>3, <2>4, <2>5, <2>6, <2>7, <2>8, <2>9, <2>10, <2>11, <2>12
       DEF Fetch!Step
<1>3. QED
  BY <1>1, <1>2 DEF Fetch!Next

LEMMA FetchStutter == ASSUME FetchInv, UNCHANGED Fetch!vars PROVE FetchInv'
  BY DEF FetchInv, Fetch!vars, Fetch!TypeOK, Fetch!NeverReadsPart

\* pinlib_getChunkFromRemote: one process at a time, and as long as the machine does not
\* stop under gunzip, no failed download, error page or clean-up leaves a part of a
\* chunk that is then taken for the chunk.
THEOREM NoPartTakenForAChunk ==
  ASSUME \A p, q \in Fetchers : p = q, "unpack" \notin CrashIn
  PROVE  Fetch!Spec => []NeverReadsPart
<1>1. FetchInv /\ [Fetch!Next]_Fetch!vars => FetchInv'
  BY FetchStep, FetchStutter, FetchConstants
<1>2. Fetch!Init => FetchInv
  BY FetchInitInv, FetchConstants
<1>3. FetchInv => NeverReadsPart
  BY DEF FetchInv, NeverReadsPart
<1>4. QED
  BY <1>1, <1>2, <1>3, PTL DEF Fetch!Spec

\* pinlib_getChunkFromRemote, "clean up on failure": under the same conditions a chunk
\* that has arrived is never removed.
THEOREM ArrivedChunksStay ==
  ASSUME \A p, q \in Fetchers : p = q, "unpack" \notin CrashIn
  PROVE  Fetch!Spec => KeepsWhatArrived
<1>1. FetchInv /\ [Fetch!Next]_Fetch!vars => FetchInv'
  BY FetchStep, FetchStutter, FetchConstants
<1>2. Fetch!Init => FetchInv
  BY FetchInitInv, FetchConstants
<1>3. FetchInv /\ [Fetch!Next]_Fetch!vars
        => [\A f \in Files : out[f] = "good" => out'[f] = "good"]_Fetch!vars
  BY FetchStep, FetchConstants
<1>4. QED
  BY <1>1, <1>2, <1>3, PTL DEF Fetch!Spec, Fetch!KeepsWhatArrived, KeepsWhatArrived

-----------------------------------------------------------------------------
(* The search for a date *)

\* The block looked for is in first..last: its date is not before that of first,
\* and the block after last is too late.
InRange ==
    /\ first \in Dates!Block /\ last \in Dates!Block
    /\ first <= last
    /\ stamps[first] <= target
    /\ last < Latest => target < stamps[last + 1]

SearchInv ==
    /\ stamps \in [Dates!Block -> Nat]
    /\ target \in Nat
    /\ Dates!Increasing
    /\ InRange
    /\ Dates!AtOrBefore

\* The middle of a range of more than one block is in it, and not its end.
LEMMA MidInRange ==
  ASSUME NEW f \in Nat, NEW l \in Nat, f < l
  PROVE  /\ f + (l - f) \div 2 \in Nat
         /\ f <= f + (l - f) \div 2
         /\ f + (l - f) \div 2 < l
  OBVIOUS

LEMMA SearchStep ==
  ASSUME SearchInv, Dates!Next
  PROVE  SearchInv'
<1>1. UNCHANGED <<stamps, target>>
  BY DEF Dates!Next, Dates!Found, Dates!SearchBelow, Dates!SearchAbove, Dates!OneLeft, Dates!Answer
<1>2. first \in Nat /\ last \in Nat /\ Latest \in Nat
  BY DateConstants DEF Dates!SearchConstants, SearchInv, InRange, Dates!Block
<1>3. ASSUME first < last
      PROVE  /\ Dates!Mid \in Dates!Block /\ Dates!Mid + 1 \in Dates!Block
             /\ first <= Dates!Mid /\ Dates!Mid < last
  BY <1>2, <1>3, MidInRange DEF SearchInv, InRange, Dates!Block, Dates!Mid
<1>4. CASE Dates!Found
  <2>1. /\ result' = Dates!Mid /\ Dates!Mid \in Dates!Block /\ Dates!Mid + 1 \in Dates!Block
        /\ stamps[Dates!Mid] <= target /\ ~ (stamps[Dates!Mid + 1] <= target)
    BY <1>2, <1>3, <1>4 DEF Dates!Found, Dates!Answer, Dates!AtMid, Dates!AtMid1, Dates!TsOf
  <2>2. target < stamps[Dates!Mid + 1]
    BY <2>1 DEF SearchInv
  <2>3. UNCHANGED <<first, last>>
    BY <1>4 DEF Dates!Found, Dates!Answer
  <2>4. QED
    BY <1>1, <2>1, <2>2, <2>3 DEF SearchInv, InRange, Dates!Increasing, Dates!AtOrBefore
<1>5. CASE Dates!SearchBelow
  <2>1. /\ last' = Dates!Mid - 1 /\ Dates!Mid \in Dates!Block /\ first <= Dates!Mid /\ Dates!Mid < last
        /\ ~ (stamps[Dates!Mid] <= target)
    BY <1>2, <1>3, <1>5 DEF Dates!SearchBelow, Dates!AtMid, Dates!TsOf
  <2>2. target < stamps[Dates!Mid] /\ Dates!Mid # first
    BY <2>1 DEF SearchInv, InRange
  <2>3. last' \in Dates!Block /\ first <= last' /\ last' + 1 = Dates!Mid
    BY <1>2, <2>1, <2>2, <1>3 DEF Dates!Block, SearchInv, InRange
  <2>4. UNCHANGED <<first, result>>
    BY <1>5 DEF Dates!SearchBelow
  <2>5. QED
    BY <1>1, <2>2, <2>3, <2>4 DEF SearchInv, InRange, Dates!Increasing, Dates!AtOrBefore
<1>6. CASE Dates!SearchAbove
  <2>1. /\ first' = Dates!Mid + 1 /\ Dates!Mid + 1 \in Dates!Block /\ Dates!Mid < last
        /\ stamps[Dates!Mid + 1] <= target
    BY <1>2, <1>3, <1>6 DEF Dates!SearchAbove, Dates!AtMid1, Dates!TsOf
  <2>2. first' <= last
    <3>1. Dates!Mid \in Int
      BY <2>1, <1>2, <1>3, <1>6 DEF Dates!SearchAbove, Dates!Block
    <3>2. QED
      BY <1>2, <2>1, <3>1
  <2>3. UNCHANGED <<last, result>>
    BY <1>6 DEF Dates!SearchAbove
  <2>4. QED
    BY <1>1, <2>1, <2>2, <2>3 DEF SearchInv, InRange, Dates!Increasing, Dates!AtOrBefore
<1>7. CASE Dates!OneLeft
  <2>1. first = last /\ result' = first /\ UNCHANGED <<first, last>>
    BY <1>2, <1>7 DEF Dates!OneLeft, Dates!Answer, SearchInv, InRange
  <2>2. QED
    BY <1>1, <2>1 DEF SearchInv, InRange, Dates!Increasing, Dates!AtOrBefore
<1>8. QED
  BY <1>4, <1>5, <1>6, <1>7 DEF Dates!Next

\* findTimestamp_binarySearch over any chain with growing timestamps and any range
\* that the node has: the answer is the last block that is not after the date.
THEOREM SearchCorrect ==
  ASSUME MaxStop = Latest
  PROVE  Dates!Spec => []AtOrBefore
<1>1. Dates!Init => SearchInv
  BY DateConstants DEF Dates!SearchConstants, Dates!Init, SearchInv, InRange, Dates!Window, Dates!AtOrBefore, Dates!Block
<1>2. SearchInv /\ [Dates!Next]_Dates!vars => SearchInv'
  <2>1. ASSUME SearchInv, UNCHANGED Dates!vars PROVE SearchInv'
    BY <2>1 DEF SearchInv, InRange, Dates!Increasing, Dates!AtOrBefore, Dates!vars
  <2>2. QED
    BY <2>1, SearchStep
<1>3. SearchInv => AtOrBefore
  BY DEF SearchInv, AtOrBefore
<1>4. QED
  BY <1>1, <1>2, <1>3, PTL DEF Dates!Spec

-----------------------------------------------------------------------------
(* The prices *)

\* Where each element of a finite set has the set of those before it, and of any two one
\* is before the other, the numbers of those before are the places from the first on.
LEMMA Ranks ==
    ASSUME NEW S, IsFiniteSet(S), NEW Before \in [S -> SUBSET S],
           \A x \in S : x \notin Before[x],
           \A x, y \in S : x \in Before[y] => Before[x] \subseteq Before[y],
           \A x, y \in S : x # y => x \in Before[y] \/ y \in Before[x]
    PROVE  /\ Cardinality(S) \in Nat
           /\ \A x \in S : Cardinality(Before[x]) \in Nat
           /\ \A x, y \in S : x \in Before[y] => Cardinality(Before[x]) < Cardinality(Before[y])
           /\ \A k \in 1 .. Cardinality(S) : \E x \in S : Cardinality(Before[x]) = k - 1
<1> DEFINE n == Cardinality(S)
           f == [x \in S |-> Cardinality(Before[x])]
<1>1. n \in Nat
  BY FS_CardinalityType
<1>2. ASSUME NEW x \in S
      PROVE  /\ IsFiniteSet(Before[x]) /\ Cardinality(Before[x]) \in Nat
             /\ Cardinality(Before[x]) < n
  <2>1. Before[x] \in SUBSET S /\ x \notin Before[x]
    OBVIOUS
  <2>2. /\ IsFiniteSet(Before[x]) /\ Cardinality(Before[x]) <= n
        /\ n = Cardinality(Before[x]) => S = Before[x]
    BY <2>1, FS_Subset
  <2>3. Cardinality(Before[x]) \in Nat
    BY <2>2, FS_CardinalityType
  <2>4. QED
    BY <2>1, <2>2, <2>3, <1>1
<1>3. ASSUME NEW x \in S, NEW y \in S, x \in Before[y]
      PROVE  Cardinality(Before[x]) < Cardinality(Before[y])
  <2>1. Before[x] \in SUBSET Before[y] /\ x \notin Before[x]
    BY <1>3
  <2>2. /\ Cardinality(Before[x]) <= Cardinality(Before[y])
        /\ Cardinality(Before[y]) = Cardinality(Before[x]) => Before[y] = Before[x]
    BY <2>1, <1>2, FS_Subset
  <2>3. QED
    BY <2>1, <2>2, <1>2, <1>3
<1> HIDE DEF n
<1>4. ASSUME NEW k \in 1 .. n
      PROVE  \E x \in S : Cardinality(Before[x]) = k - 1
  <2>1. \A x, y \in S : Cardinality(Before[x]) = Cardinality(Before[y]) => x = y
    BY <1>2, <1>3
  <2>2. \A x \in S : f[x] \in 0 .. (n - 1)
    BY <1>1, <1>2
  <2>3. f \in Injection(S, 0 .. (n - 1))
    BY <2>1, <2>2 DEF Injection, IsInjective
  <2>4. IsFiniteSet(0 .. (n - 1)) /\ Cardinality(0 .. (n - 1)) = n
    BY FS_Interval, <1>1
  <2> HIDE DEF f
  <2>5. f \in Surjection(S, 0 .. (n - 1))
    BY <2>3, <2>4, FS_Injection DEF n
  <2>6. \E x \in S : f[x] = k - 1
    BY <2>5, <1>1 DEF Surjection
  <2>7. QED
    BY <2>6 DEF f
<1>5. QED
  BY <1>1, <1>2, <1>3, <1>4 DEF n

-----------------------------------------------------------------------------
\* What InOrder makes of a set, whatever the part.
InOrderOf(S, s) ==
    /\ s = [i \in DOMAIN s |-> s[i]] /\ DOMAIN s = 1 .. Cardinality(S)
    /\ \A i \in 1 .. Cardinality(S) :
         s[i] = CHOOSE t \in S : Cardinality({u \in S : u < t}) = i - 1

LEMMA QuotesInOrder == \A S : InOrderOf(S, Quotes!InOrder(S))
<1> SUFFICES ASSUME NEW S PROVE InOrderOf(S, Quotes!InOrder(S))
  OBVIOUS
<1> DEFINE s == Quotes!InOrder(S)
           Pick(i) == CHOOSE t \in S : Quotes!Cardinality({u \in S : u < t}) = i - 1
<1>1. \A T : Quotes!Cardinality(T) = Cardinality(T)
  BY Zenon DEF Quotes!Cardinality, Cardinality
<1>2. s = [i \in 1 .. Quotes!Cardinality(S) |-> Pick(i)]
  BY Zenon DEF Quotes!InOrder
<1>3. \A i : Pick(i) = CHOOSE t \in S : Cardinality({u \in S : u < t}) = i - 1
  BY <1>1
<1> HIDE DEF Pick, s
<1>4. QED
  BY <1>1, <1>2, <1>3 DEF InOrderOf, s

LEMMA RacingInOrder == \A S : InOrderOf(S, RacingQuotes!InOrder(S))
<1> SUFFICES ASSUME NEW S PROVE InOrderOf(S, RacingQuotes!InOrder(S))
  OBVIOUS
<1> DEFINE s == RacingQuotes!InOrder(S)
           Pick(i) == CHOOSE t \in S : RacingQuotes!Cardinality({u \in S : u < t}) = i - 1
<1>1. \A T : RacingQuotes!Cardinality(T) = Cardinality(T)
  BY Zenon DEF RacingQuotes!Cardinality, Cardinality
<1>2. s = [i \in 1 .. RacingQuotes!Cardinality(S) |-> Pick(i)]
  BY Zenon DEF RacingQuotes!InOrder
<1>3. \A i : Pick(i) = CHOOSE t \in S : Cardinality({u \in S : u < t}) = i - 1
  BY <1>1
<1> HIDE DEF Pick, s
<1>4. QED
  BY <1>1, <1>2, <1>3 DEF InOrderOf, s

\* It is ascending, and of the set.
LEMMA InOrderAscends ==
    ASSUME NEW S, S \subseteq Nat, IsFiniteSet(S), NEW s, InOrderOf(S, s)
    PROVE  /\ s \in Seq(S)
           /\ \A i, j \in DOMAIN s : i < j => s[i] < s[j]
<1> DEFINE n == Cardinality(S)
           B == [t \in S |-> {u \in S : u < t}]
<1>1. /\ B \in [S -> SUBSET S]
      /\ \A x \in S : x \notin B[x]
      /\ \A x, y \in S : x \in B[y] => B[x] \subseteq B[y]
      /\ \A x, y \in S : x # y => x \in B[y] \/ y \in B[x]
  <2>1. B \in [S -> SUBSET S]
    OBVIOUS
  <2>2. \A y \in S : \A x : x \in B[y] <=> x \in S /\ x < y
    OBVIOUS
  <2> HIDE DEF B
  <2>3. \A x, y \in S : x \in Int /\ y \in Int
    OBVIOUS
  <2>4. ASSUME NEW x \in S, NEW y \in S, x \in B[y]
        PROVE  B[x] \subseteq B[y]
    <3>1. x < y
      BY <2>2, <2>4
    <3>2. ASSUME NEW u \in B[x]
          PROVE  u \in B[y]
      <4>1. u \in S /\ u < x
        BY <2>2
      <4>2. u < y
        BY <3>1, <4>1, <2>3
      <4>3. QED
        BY <2>2, <4>1, <4>2
    <3>3. QED
      BY <3>2
  <2>5. ASSUME NEW x \in S
        PROVE  x \notin B[x]
    <3>1. x \in B[x] <=> x \in S /\ x < x
      BY <2>2, Zenon
    <3>2. x \in Int
      BY <2>3, Zenon
    <3>3. ~ (x < x)
      BY <3>2
    <3>4. QED
      BY <3>1, <3>3, Zenon
  <2>6. ASSUME NEW x \in S, NEW y \in S, x # y
        PROVE  x \in B[y] \/ y \in B[x]
    <3>1. (x \in B[y] <=> x \in S /\ x < y) /\ (y \in B[x] <=> y \in S /\ y < x)
      BY <2>2, Zenon
    <3>2. x \in Int /\ y \in Int
      BY <2>3, Zenon
    <3>3. x < y \/ y < x
      BY <2>6, <3>2
    <3>4. QED
      BY <3>1, <3>3, Zenon
  <2>7. QED
    BY <2>1, <2>4, <2>5, <2>6, Zenon
<1>2. \A x, y \in S : x \in B[y] <=> x < y
  OBVIOUS
<1>3. \A t \in S : {u \in S : u < t} = B[t]
  OBVIOUS
<1> HIDE DEF B
<1>4. /\ n \in Nat
      /\ \A x \in S : Cardinality(B[x]) \in Nat
      /\ \A x, y \in S : x \in B[y] => Cardinality(B[x]) < Cardinality(B[y])
      /\ \A k \in 1 .. n : \E x \in S : Cardinality(B[x]) = k - 1
  BY <1>1, Ranks, ZenonT(40)
<1>5. ASSUME NEW i \in 1 .. n
      PROVE  s[i] \in S /\ Cardinality(B[s[i]]) = i - 1
  <2>1. \E t \in S : Cardinality({u \in S : u < t}) = i - 1
    BY <1>3, <1>4
  <2>2. s[i] \in S /\ Cardinality({u \in S : u < s[i]}) = i - 1
    BY <2>1 DEF InOrderOf
  <2>3. QED
    BY <2>2, <1>3
<1>6. s \in Seq(S) /\ DOMAIN s = 1 .. n
  BY <1>4, <1>5 DEF InOrderOf
<1>7. ASSUME NEW i \in 1 .. n, NEW j \in 1 .. n, i < j
      PROVE  s[i] < s[j]
  <2>1. s[i] # s[j] /\ ~(s[j] < s[i])
    <3>1. Cardinality(B[s[i]]) = i - 1 /\ Cardinality(B[s[j]]) = j - 1 /\ s[i] \in S /\ s[j] \in S
      BY <1>5
    <3>2. s[j] < s[i] => Cardinality(B[s[j]]) < Cardinality(B[s[i]])
      BY <3>1, <1>2, <1>4
    <3>3. i \in Int /\ j \in Int /\ ~(j - 1 < i - 1) /\ i - 1 # j - 1
      BY <1>7
    <3>4. QED
      BY <3>1, <3>2, <3>3
  <2>2. s[i] \in Nat /\ s[j] \in Nat
    BY <1>5
  <2>3. QED
    BY <2>1, <2>2
<1> HIDE DEF n
<1>8. QED
  BY <1>6, <1>7

\* The periods of an interval in order are one after the other.
LEMMA InOrderOfInterval ==
    ASSUME NEW a \in Nat, NEW b \in Int, NEW s, InOrderOf(a .. b, s)
    PROVE  /\ s \in Seq(Nat) /\ Len(s) = (IF a > b THEN 0 ELSE b - a + 1)
           /\ \A i \in DOMAIN s : s[i] = a + i - 1
<1> DEFINE n == IF a > b THEN 0 ELSE b - a + 1
<1>1. Cardinality(a .. b) = n /\ n \in Nat
  BY FS_Interval
<1>2. ASSUME NEW t \in a .. b
      PROVE  Cardinality({u \in a .. b : u < t}) = t - a
  <2>1. {u \in a .. b : u < t} = a .. (t - 1)
    OBVIOUS
  <2>2. t \in Int /\ a <= t
    OBVIOUS
  <2>3. Cardinality(a .. (t - 1)) = IF a > t - 1 THEN 0 ELSE (t - 1) - a + 1
    BY <2>2, FS_Interval
  <2>4. (IF a > t - 1 THEN 0 ELSE (t - 1) - a + 1) = t - a
    BY <2>2
  <2>5. QED
    BY <2>1, <2>3, <2>4, Zenon
<1>3. ASSUME NEW i \in 1 .. n
      PROVE  s[i] = a + i - 1
  <2>1. a + i - 1 \in a .. b
    OBVIOUS
  <2>2. Cardinality({u \in a .. b : u < a + i - 1}) = i - 1
    BY <2>1, <1>2
  <2>3. \E t \in a .. b : Cardinality({u \in a .. b : u < t}) = i - 1
    BY <2>1, <2>2
  <2>4. s[i] \in a .. b /\ Cardinality({u \in a .. b : u < s[i]}) = i - 1
    BY <2>3, <1>1 DEF InOrderOf
  <2>5. s[i] - a = i - 1
    BY <2>4, <1>2
  <2>6. QED
    BY <2>4, <2>5
<1> HIDE DEF n
<1>4. DOMAIN s = 1 .. n /\ s = [i \in DOMAIN s |-> s[i]]
  BY <1>1 DEF InOrderOf
<1>5. \A i \in 1 .. n : s[i] \in Nat
  <2> TAKE i \in 1 .. n
  <2>1. s[i] = a + i - 1 /\ i >= 1
    BY <1>3
  <2>2. QED
    BY <2>1
<1>6. s \in Seq(Nat) /\ Len(s) = n
  BY <1>1, <1>4, <1>5
<1>7. QED
  BY <1>3, <1>4, <1>6 DEF n

-----------------------------------------------------------------------------
PriceLabels == {"idle", "load", "fetch", "open", "write", "close", "done"}

\* A process of the prices.
PriceProcs == [pc : PriceLabels, freshen : BOOLEAN, last : Int, quotes : Seq(Int)]

\* What a tool has that races with others: its quotes are ascending, but for those that
\* were not yet written when it read them, and lastRead is past none of the others.
Ascends(q, lastRead) ==
    /\ q \in Seq(SomeListed \cup {RacingQuotes!Zero}) /\ lastRead \in Int
    /\ \A i, j \in DOMAIN q :
         i < j /\ RacingQuotes!Zero \notin {q[i], q[j]} => q[i] < q[j]
    /\ \A i \in DOMAIN q : q[i] # RacingQuotes!Zero => q[i] <= lastRead
    /\ q # <<>> => q[Len(q)] \in {lastRead, RacingQuotes!Zero}

RacerRight(r) ==
    /\ r \in PriceProcs
    /\ Ascends(r.quotes, r.last)
    /\ r.pc \in {"open", "write", "close"} => r.quotes # <<>> /\ r.quotes[Len(r.quotes)] = r.last

\* The inductive invariant where tools race.
RacingInv ==
    /\ part = "racing quotes"
    /\ now \in 0 .. RacePeriod
    /\ DOMAIN proc = Users /\ proc = [p \in Users |-> proc[p]]
    /\ \A p \in Users : RacerRight(proc[p])
    /\ prices \in {NoFile, Hollow} \/ (prices.quotes # <<>> /\ Ascends(prices.quotes, prices.last))

LEMMA RacingFacts == RacePeriod \in Nat /\ SomeListed \subseteq 0 .. RacePeriod
                        /\ RacingQuotes!Zero = -1
  BY RacingQuotesConstants DEF RacingQuotes!PriceConstants, RacingQuotes!Zero

LEMMA RacersNeverRead == RacingQuotes!NeverRead \in Int
  BY DEF RacingQuotes!NeverRead, RacingQuotes!Start2009, RacingQuotes!Start2015

LEMMA NothingAscends == \A lastRead \in Int : Ascends(<<>>, lastRead)
  BY DEF Ascends

\* A process that has read nothing.
LEMMA NewRacer ==
    \A lastRead \in Int, f \in BOOLEAN, label \in {"idle", "load"} :
        RacerRight([pc |-> label, freshen |-> f, last |-> lastRead, quotes |-> <<>>])
  BY DEF RacerRight, PriceProcs, PriceLabels, Ascends

\* Only the process that takes the step changes.
LEMMA RacerMoves ==
    ASSUME RacingInv, NEW p \in Users, NEW r, RacerRight(r), proc' = [proc EXCEPT ![p] = r],
           UNCHANGED part, now' \in 0 .. RacePeriod,
           prices' \in {NoFile, Hollow} \/ (prices'.quotes # <<>> /\ Ascends(prices'.quotes, prices'.last))
    PROVE  RacingInv'
<1>1. DOMAIN proc' = Users /\ proc' = [q \in Users |-> proc'[q]]
  BY DEF RacingInv
<1>2. \A q \in Users : proc'[q] = r \/ proc'[q] = proc[q]
  BY DEF RacingInv
<1>3. \A q \in Users : RacerRight(proc'[q])
  BY <1>2 DEF RacingInv
<1>4. part' = "racing quotes"
  BY DEF RacingInv
<1>5. QED
  BY <1>1, <1>3, <1>4 DEF RacingInv

\* A process that goes to another label with what it has.
LEMMA RacerGoes ==
    ASSUME RacingInv, NEW p \in Users, NEW label \in PriceLabels, RacingQuotes!Goto(p, label),
           label \in {"open", "write", "close"} =>
             proc[p].quotes # <<>> /\ proc[p].quotes[Len(proc[p].quotes)] = proc[p].last,
           UNCHANGED part, now' \in 0 .. RacePeriod,
           prices' \in {NoFile, Hollow} \/ (prices'.quotes # <<>> /\ Ascends(prices'.quotes, prices'.last))
    PROVE  RacingInv'
<1> DEFINE r == [proc[p] EXCEPT !.pc = label]
<1>1. RacerRight(proc[p])
  BY DEF RacingInv
<1>2. r \in PriceProcs /\ r.pc = label /\ r.last = proc[p].last /\ r.quotes = proc[p].quotes
  BY <1>1 DEF RacerRight, PriceProcs
<1>3. proc' = [proc EXCEPT ![p] = r]
  BY DEF RacingQuotes!Goto
<1> HIDE DEF r
<1>4. RacerRight(r)
  BY <1>1, <1>2 DEF RacerRight
<1>5. QED
  BY <1>3, <1>4, RacerMoves

\* What a process adds is ascending and later than what it has.
LEMMA RacerAdds ==
    ASSUME NEW q, NEW lastRead, Ascends(q, lastRead), NEW S \in SUBSET SomeListed,
           \A t \in S : t > lastRead, NEW s, InOrderOf(S, s), s # <<>>
    PROVE  /\ Ascends(q \o s, s[Len(s)]) /\ q \o s # <<>> /\ s[Len(s)] \in Int
           /\ (q \o s)[Len(q \o s)] = s[Len(s)] /\ q \o s \in Seq(Int)
<1> DEFINE u == q \o s
<1>1. IsFiniteSet(S) /\ S \subseteq Nat
  <2>1. S \in SUBSET (0 .. RacePeriod) /\ RacePeriod \in Int
    BY RacingFacts
  <2>2. IsFiniteSet(0 .. RacePeriod)
    BY <2>1, FS_Interval
  <2>3. IsFiniteSet(S)
    BY <2>1, <2>2, FS_Subset, Zenon
  <2>4. S \subseteq Nat
    BY <2>1
  <2>5. QED
    BY <2>3, <2>4
<1>2. s \in Seq(S) /\ \A i, j \in DOMAIN s : i < j => s[i] < s[j]
  BY <1>1, InOrderAscends
<1>3. /\ Len(s) \in Nat \ {0} /\ DOMAIN s = 1 .. Len(s)
      /\ \A i \in 1 .. Len(s) : s[i] \in S /\ s[i] \in Nat /\ s[i] > lastRead /\ s[i] <= s[Len(s)]
  <2>1. Len(s) \in Nat \ {0} /\ DOMAIN s = 1 .. Len(s)
    BY <1>2
  <2>2. ASSUME NEW i \in 1 .. Len(s)
        PROVE  s[i] \in S /\ s[i] \in Nat /\ s[i] > lastRead /\ s[i] <= s[Len(s)]
    <3>1. s[i] \in S
      BY <1>2
    <3>5. s[i] \in Nat /\ s[i] > lastRead
      BY <3>1, <1>1
    <3>2. i = Len(s) \/ s[i] < s[Len(s)]
      <4> DEFINE m == Len(s)
      <4>0. m \in Nat /\ i \in 1 .. m
        BY <2>1
      <4> HIDE DEF m
      <4>3. i # m => i < m
        BY <4>0
      <4>1. i # Len(s) => i < Len(s)
        BY <4>3, Zenon DEF m
      <4>2. i \in DOMAIN s /\ Len(s) \in DOMAIN s
        BY <2>1
      <4>4. QED
        BY <4>1, <4>2, <1>2
    <3>3. s[Len(s)] \in Nat
      <4>1. Len(s) \in 1 .. Len(s)
        BY <2>1
      <4>2. s[Len(s)] \in S
        BY <4>1, <1>2
      <4>3. QED
        BY <4>2, <1>1
    <3>4. QED
      BY <3>1, <3>2, <3>3, <3>5
  <2>3. QED
    BY <2>1, <2>2
<1>4. /\ q \in Seq(SomeListed \cup {-1}) /\ lastRead \in Int /\ Len(q) \in Nat
      /\ \A i, j \in DOMAIN q : i < j /\ -1 \notin {q[i], q[j]} => q[i] < q[j]
      /\ \A i \in DOMAIN q : q[i] # -1 => q[i] <= lastRead
  BY RacingFacts DEF Ascends
<1>5. /\ u \in Seq(SomeListed \cup {-1}) /\ Len(u) = Len(q) + Len(s)
      /\ \A i \in 1 .. Len(q) : u[i] = q[i]
      /\ \A i \in 1 .. Len(s) : u[Len(q) + i] = s[i]
  <2>1. s \in Seq(SomeListed \cup {-1})
    BY <1>2
  <2> DEFINE X == SomeListed \cup {-1}
  <2> HIDE DEF X
  <2>2. q \in Seq(X) /\ s \in Seq(X)
    BY <2>1, <1>4 DEF X
  <2>3. /\ u \in Seq(X) /\ Len(u) = Len(q) + Len(s)
        /\ \A i \in 1 .. Len(q) : u[i] = q[i]
        /\ \A i \in 1 .. Len(s) : u[Len(q) + i] = s[i]
    <3>1. /\ u \in Seq(X) /\ Len(u) = Len(q) + Len(s)
          /\ \A i \in 1 .. (Len(q) + Len(s)) : u[i] = IF i <= Len(q) THEN q[i] ELSE s[i - Len(q)]
      BY <2>2, ConcatProperties
    <3> HIDE DEF u
    <3> DEFINE m == Len(q)
               k == Len(s)
    <3>2. m \in Nat /\ k \in Nat
      BY <1>3, <1>4
    <3>3. \A i \in 1 .. (m + k) : u[i] = IF i <= m THEN q[i] ELSE s[i - m]
      BY <3>1
    <3> HIDE DEF m, k
    <3>4. \A i \in 1 .. m : u[i] = q[i]
      BY <3>2, <3>3
    <3>5. ASSUME NEW i \in 1 .. k
          PROVE  u[m + i] = s[i]
      <4>1. m + i \in 1 .. (m + k) /\ ~(m + i <= m) /\ (m + i) - m = i
        BY <3>2
      <4>2. u[m + i] = s[(m + i) - m]
        BY <4>1, <3>3
      <4>3. QED
        BY <4>1, <4>2
    <3>6. QED
      BY <3>1, <3>4, <3>5 DEF m, k
  <2>4. QED
    BY <2>3, Zenon DEF X
<1>6. \A i \in 1 .. Len(q) : q[i] \in Int /\ (q[i] # -1 => q[i] <= lastRead)
  <2>1. \A i \in 1 .. Len(q) : q[i] \in SomeListed \cup {-1}
    BY <1>4
  <2>2. SomeListed \cup {-1} \subseteq Int
    BY RacingFacts
  <2>3. QED
    BY <1>4, <2>1, <2>2
<1>7. \A i \in 1 .. Len(u) : i \in 1 .. Len(q) \/ (i - Len(q) \in 1 .. Len(s) /\ u[i] = s[i - Len(q)])
  <2> TAKE i \in 1 .. Len(u)
  <2>1. CASE i <= Len(q)
    BY <2>1, <1>4
  <2>2. CASE i > Len(q)
    <3>1. i - Len(q) \in 1 .. Len(s) /\ Len(q) + (i - Len(q)) = i
      BY <2>2, <1>3, <1>4, <1>5
    <3>2. QED
      BY <3>1, <1>5
  <2>3. QED
    BY <2>1, <2>2, <1>4
<1> HIDE DEF u
<1>8. u[Len(u)] = s[Len(s)] /\ Len(u) # 0 /\ s[Len(s)] \in Int
  BY <1>3, <1>4, <1>5
<1>9. ASSUME NEW i \in 1 .. Len(u), NEW j \in 1 .. Len(u), i < j, u[i] # -1, u[j] # -1
      PROVE  u[i] < u[j]
  <2>1. CASE j \in 1 .. Len(q)
    <3>1. i \in 1 .. Len(q)
      BY <2>1, <1>4, <1>9
    <3>2. QED
      BY <3>1, <2>1, <1>4, <1>5, <1>9, SMTT(40)
  <2>2. CASE j \notin 1 .. Len(q)
    <3>1. j - Len(q) \in 1 .. Len(s) /\ u[j] = s[j - Len(q)]
      BY <2>2, <1>7
    <3>2. CASE i \in 1 .. Len(q)
      <4>1. u[i] \in Int /\ u[i] <= lastRead
        BY <3>2, <1>5, <1>6, <1>9
      <4>2. u[j] \in Nat /\ u[j] > lastRead
        BY <3>1, <1>3
      <4>3. QED
        BY <4>1, <4>2, <1>4
    <3>3. CASE i \notin 1 .. Len(q)
      <4>1. i - Len(q) \in 1 .. Len(s) /\ u[i] = s[i - Len(q)]
        BY <3>3, <1>7
      <4>2. i - Len(q) < j - Len(q)
        BY <1>4, <1>9
      <4>3. QED
        BY <3>1, <4>1, <4>2, <1>2, <1>3
    <3>4. QED
      BY <3>2, <3>3
  <2>3. QED
    BY <2>1, <2>2
<1>10. ASSUME NEW i \in 1 .. Len(u), u[i] # -1
       PROVE  u[i] <= s[Len(s)]
  <2>1. CASE i \in 1 .. Len(q)
    <3>1. u[i] \in Int /\ u[i] <= lastRead
      BY <2>1, <1>5, <1>6, <1>10
    <3>2. s[Len(s)] \in Nat /\ s[Len(s)] > lastRead
      BY <1>3
    <3>3. QED
      BY <3>1, <3>2, <1>4
  <2>2. CASE i \notin 1 .. Len(q)
    BY <2>2, <1>3, <1>7
  <2>3. QED
    BY <2>1, <2>2
<1>11. Ascends(u, s[Len(s)])
  BY <1>5, <1>8, <1>9, <1>10, RacingFacts DEF Ascends
<1>12. u \in Seq(Int)
  <2>1. SomeListed \cup {-1} \subseteq Int
    BY RacingFacts
  <2>2. QED
    BY <2>1, <1>5
<1>13. u # <<>>
  BY <1>5, <1>8
<1>14. QED
  BY <1>8, <1>11, <1>12, <1>13 DEF u

\* The file after the lastRead quotes have gone to it, and before.
LEMMA FileRight ==
    ASSUME RacingInv, NEW p \in Users, proc[p].pc \in {"open", "write", "close"}
    PROVE  LET f == RacingQuotes!Stored(p)
               g == [f EXCEPT !.quotes[Len(proc[p].quotes)] = RacingQuotes!Zero]
           IN  /\ f.quotes # <<>> /\ Ascends(f.quotes, f.last)
               /\ g.quotes # <<>> /\ Ascends(g.quotes, g.last)
<1> DEFINE f == RacingQuotes!Stored(p)
           q == proc[p].quotes
           u == [q EXCEPT ![Len(q)] = -1]
           g == [f EXCEPT !.quotes[Len(proc[p].quotes)] = RacingQuotes!Zero]
<1>1. /\ q # <<>> /\ Ascends(q, proc[p].last)
  BY DEF RacingInv, RacerRight
<1>2. f = [last |-> proc[p].last, quotes |-> q]
  BY DEF RacingQuotes!Stored
<1>3. /\ g.quotes = u /\ g.last = proc[p].last
      /\ f.quotes = q /\ f.last = proc[p].last
  BY <1>2, RacingFacts
<1>4. /\ q \in Seq(SomeListed \cup {-1}) /\ proc[p].last \in Int
      /\ \A i, j \in DOMAIN q : i < j /\ -1 \notin {q[i], q[j]} => q[i] < q[j]
      /\ \A i \in DOMAIN q : q[i] # -1 => q[i] <= proc[p].last
  BY <1>1, RacingFacts DEF Ascends
<1> HIDE DEF f, g, q
<1>5. /\ u \in Seq(SomeListed \cup {-1}) /\ Len(u) = Len(q) /\ u # <<>> /\ DOMAIN u = DOMAIN q
      /\ u[Len(u)] = -1 /\ \A i \in DOMAIN q : u[i] = q[i] \/ u[i] = -1
  BY <1>1, <1>4
<1> HIDE DEF u
<1>6. \A i, j \in DOMAIN u : i < j /\ -1 \notin {u[i], u[j]} => u[i] < u[j]
  BY <1>4, <1>5
<1>7. \A i \in DOMAIN u : u[i] # -1 => u[i] <= proc[p].last
  BY <1>4, <1>5
<1>8. Ascends(u, proc[p].last)
  BY <1>4, <1>5, <1>6, <1>7, RacingFacts DEF Ascends
<1>9. /\ f.quotes # <<>> /\ Ascends(f.quotes, f.last)
      /\ g.quotes # <<>> /\ Ascends(g.quotes, g.last)
  BY <1>1, <1>3, <1>5, <1>8
<1>10. QED
  BY <1>9, Zenon DEF f, g

\* What a process has after it has read the file.
LEMMA RacingLoad ==
    ASSUME RacingInv, NEW p \in Users, RacingQuotes!Load(p), UNCHANGED part
    PROVE  RacingInv'
<1> DEFINE absent == prices \in {NoFile, Hollow}
           got == IF absent THEN [last |-> RacingQuotes!NeverRead, quotes |-> <<>>] ELSE prices
           f == proc[p].freshen \/ prices = NoFile
           r == [pc |-> IF f THEN "fetch" ELSE "done", freshen |-> f,
                 last |-> got.last, quotes |-> got.quotes]
<1>1. UNCHANGED <<now, prices>>
  BY DEF RacingQuotes!Load
<1>2. /\ now' \in 0 .. RacePeriod
      /\ prices' \in {NoFile, Hollow} \/ (prices'.quotes # <<>> /\ Ascends(prices'.quotes, prices'.last))
  BY <1>1 DEF RacingInv
<1>3. CASE RacingQuotes!Goto(p, "idle")
  BY <1>2, <1>3, RacerGoes DEF PriceLabels
<1>4. CASE proc' = [proc EXCEPT ![p] = r]
  <2>1. RacingQuotes!NeverRead \in Int
    BY RacersNeverRead
  <2>2. Ascends(got.quotes, got.last)
    <3>1. CASE absent
      <4>1. got.quotes = <<>> /\ got.last = RacingQuotes!NeverRead
        BY <3>1
      <4>2. QED
        BY <4>1, <2>1, NothingAscends
    <3>2. CASE ~absent
      BY <3>2 DEF RacingInv
    <3>3. QED
      BY <3>1, <3>2
  <2> HIDE DEF got, absent
  <2>3. got.quotes \in Seq(Int) /\ got.last \in Int
    <3>1. got.quotes \in Seq(SomeListed \cup {-1}) /\ got.last \in Int
      BY <2>2, RacingFacts DEF Ascends
    <3>2. SomeListed \cup {-1} \subseteq Int
      BY RacingFacts
    <3>3. QED
      BY <3>1, <3>2
  <2>4. f \in BOOLEAN
    BY Zenon
  <2> HIDE DEF f
  <2>5. (IF f THEN "fetch" ELSE "done") \in {"fetch", "done"}
    OBVIOUS
  <2>6. r \in PriceProcs
    BY <2>3, <2>4, <2>5 DEF PriceProcs, PriceLabels
  <2>7. RacerRight(r)
    BY <2>2, <2>5, <2>6 DEF RacerRight
  <2> HIDE DEF r
  <2>8. QED
    BY <2>7, <1>2, <1>4, RacerMoves
<1>5. QED
  BY <1>3, <1>4, Zenon DEF RacingQuotes!Load

\* What a process adds to it.
LEMMA RacingFetch ==
    ASSUME RacingInv, NEW p \in Users, RacingQuotes!Fetch(p), UNCHANGED part
    PROVE  RacingInv'
<1>1. PICK early \in {0, 1} :
        LET response == RacingQuotes!Response(RacingQuotes!NextRead(proc[p].last), early)
            begun(t) == \/ proc[p].quotes # <<>>
                        \/ \E m \in response : m <= t /\ RacingQuotes!AtMidnight(m)
            added == RacingQuotes!InOrder({t \in response : RacingQuotes!AddToArray(p, t) /\ begun(t)})
        IN  IF added = <<>> THEN RacingQuotes!Goto(p, "done")
            ELSE proc' = [proc EXCEPT ![p].quotes = @ \o added,
                                      ![p].last = added[Len(added)],
                                      ![p].pc = "open"]
  BY Zenon DEF RacingQuotes!Fetch
<1> DEFINE response == RacingQuotes!Response(RacingQuotes!NextRead(proc[p].last), early)
           begun(t) == \/ proc[p].quotes # <<>>
                       \/ \E m \in response : m <= t /\ RacingQuotes!AtMidnight(m)
           S == {t \in response : RacingQuotes!AddToArray(p, t) /\ begun(t)}
           s == RacingQuotes!InOrder(S)
           r == [proc[p] EXCEPT !.quotes = proc[p].quotes \o s, !.last = s[Len(s)], !.pc = "open"]
<1>2. \/ s = <<>> /\ RacingQuotes!Goto(p, "done")
      \/ /\ s # <<>>
         /\ proc' = [proc EXCEPT ![p].quotes = @ \o s, ![p].last = s[Len(s)], ![p].pc = "open"]
  BY <1>1, Zenon
<1>3. S \in SUBSET SomeListed /\ \A t \in S : t > proc[p].last
  BY DEF RacingQuotes!Response, RacingQuotes!AddToArray
<1>4. InOrderOf(S, s)
  BY RacingInOrder
<1> HIDE DEF s, S, response, begun
<1>5. /\ now' \in 0 .. RacePeriod
      /\ prices' \in {NoFile, Hollow} \/ (prices'.quotes # <<>> /\ Ascends(prices'.quotes, prices'.last))
  BY DEF RacingQuotes!Fetch, RacingInv
<1>6. CASE RacingQuotes!Goto(p, "done")
  BY <1>5, <1>6, RacerGoes DEF PriceLabels
<1>7. CASE /\ s # <<>>
           /\ proc' = [proc EXCEPT ![p].quotes = @ \o s, ![p].last = s[Len(s)], ![p].pc = "open"]
  <2>1. RacerRight(proc[p])
    BY DEF RacingInv
  <2>2. /\ Ascends(proc[p].quotes \o s, s[Len(s)]) /\ proc[p].quotes \o s # <<>>
        /\ s[Len(s)] \in Int /\ proc[p].quotes \o s \in Seq(Int)
        /\ (proc[p].quotes \o s)[Len(proc[p].quotes \o s)] = s[Len(s)]
    BY <1>3, <1>4, <1>7, <2>1, RacerAdds DEF RacerRight
  <2> DEFINE u == proc[p].quotes \o s
             e == s[Len(s)]
  <2> HIDE DEF u, e
  <2>3. r = [proc[p] EXCEPT !.quotes = u, !.last = e, !.pc = "open"]
    BY DEF u, e
  <2>4. r \in PriceProcs /\ r.quotes = u /\ r.last = e
    BY <2>1, <2>2, <2>3 DEF RacerRight, PriceProcs, PriceLabels, u, e
  <2>5. proc' = [proc EXCEPT ![p] = r]
    <3>1. proc = [x \in Users |-> proc[x]] /\ p \in DOMAIN proc
      BY DEF RacingInv
    <3>2. QED
      BY <3>1, <1>7
  <2> HIDE DEF r
  <2>6. RacerRight(r)
    BY <2>2, <2>4 DEF RacerRight, u, e
  <2>7. QED
    BY <2>5, <2>6, <1>5, RacerMoves
<1>8. QED
  BY <1>2, <1>6, <1>7

LEMMA RacingStart == PricesInit /\ part = "racing quotes" => RacingInv
<1> SUFFICES ASSUME PricesInit, part = "racing quotes" PROVE RacingInv
  OBVIOUS
<1>1. /\ now \in 0 .. RacePeriod /\ prices = NoFile
      /\ proc = [p \in Users |-> [pc |-> "idle", freshen |-> FALSE,
                                  last |-> RacingQuotes!NeverRead, quotes |-> <<>>]]
  <2>1. part # "quotes"
    OBVIOUS
  <2>2. RacingQuotes!Init
    BY <2>1, Zenon DEF PricesInit
  <2>3. QED
    BY <2>2, Zenon DEF RacingQuotes!Init
<1>2. RacingQuotes!NeverRead \in Int
  BY RacersNeverRead
<1>3. ASSUME NEW p \in Users PROVE RacerRight(proc[p])
  BY <1>1, <1>2, NewRacer
<1>4. QED
  BY <1>1, <1>3 DEF RacingInv

LEMMA RacingStep ==
    ASSUME RacingInv, [PricesNext /\ UNCHANGED part]_<<part, Quotes!vars>>
    PROVE  RacingInv'
<1>1. CASE UNCHANGED <<part, Quotes!vars>>
  BY <1>1 DEF RacingInv, Quotes!vars
<1>2. CASE PricesNext /\ UNCHANGED part
  <2>1. RacingQuotes!Next /\ UNCHANGED part
    <3>1. part # "quotes"
      BY DEF RacingInv
    <3>2. QED
      BY <1>2, <3>1, Zenon DEF PricesNext
  <2>2. CASE RacingQuotes!Tick
    <3>1. now' \in 0 .. RacePeriod /\ UNCHANGED <<prices, proc>>
      <4>1. now < RacePeriod /\ now' = now + 1 /\ UNCHANGED <<prices, proc>>
        BY <2>2, Zenon DEF RacingQuotes!Tick
      <4>2. now \in 0 .. RacePeriod
        BY DEF RacingInv
      <4>3. QED
        BY <4>1, <4>2, RacingFacts
    <3>2. QED
      BY <2>1, <3>1 DEF RacingInv
  <2>3. ASSUME NEW p \in Users,
               RacingQuotes!Advance(p) \/ RacingQuotes!FetchFails(p) \/ RacingQuotes!Kill(p)
        PROVE  RacingInv'
    <3>1. RacerRight(proc[p]) /\ now \in 0 .. RacePeriod
      BY DEF RacingInv
    <3>2. prices \in {NoFile, Hollow} \/ (prices.quotes # <<>> /\ Ascends(prices.quotes, prices.last))
      BY DEF RacingInv
    <3>3. CASE RacingQuotes!Begin(p)
      <4>1. PICK f \in BOOLEAN :
              proc' = [proc EXCEPT ![p] = [pc |-> "load", freshen |-> f,
                                           last |-> RacingQuotes!NeverRead, quotes |-> <<>>]]
        BY <3>3 DEF RacingQuotes!Begin
      <4> DEFINE r == [pc |-> "load", freshen |-> f,
                       last |-> RacingQuotes!NeverRead, quotes |-> <<>>]
      <4>2. RacingQuotes!NeverRead \in Int
        BY RacersNeverRead
      <4>3. RacerRight(r)
        BY <4>2, NewRacer
      <4>4. UNCHANGED <<now, prices>>
        BY <3>3 DEF RacingQuotes!Begin
      <4> HIDE DEF r
      <4>5. QED
        BY <2>1, <3>1, <3>2, <4>1, <4>3, <4>4, RacerMoves DEF r
    <3>4. CASE RacingQuotes!Load(p)
      BY <2>1, <3>4, RacingLoad
    <3>5. CASE RacingQuotes!Fetch(p)
      BY <2>1, <3>5, RacingFetch
    <3>6. CASE RacingQuotes!Open(p)
      <4>1. /\ proc[p].pc = "open" /\ prices' = Hollow /\ now' = now
            /\ RacingQuotes!Goto(p, "write")
        BY <3>6, SMTT(40) DEF RacingQuotes!Open, RacingQuotes!At
      <4>2. QED
        BY <2>1, <3>1, <4>1, RacerGoes DEF RacerRight, PriceLabels
    <3>7. CASE RacingQuotes!Write(p)
      <4>1. /\ proc[p].pc = "write" /\ now' = now /\ RacingQuotes!Goto(p, "close")
            /\ prices' = [RacingQuotes!Stored(p) EXCEPT
                            !.quotes[Len(proc[p].quotes)] = RacingQuotes!Zero]
        BY <3>7 DEF RacingQuotes!Write, RacingQuotes!At
      <4>2. prices'.quotes # <<>> /\ Ascends(prices'.quotes, prices'.last)
        BY <4>1, FileRight
      <4>3. QED
        BY <2>1, <3>1, <4>1, <4>2, RacerGoes DEF RacerRight, PriceLabels
    <3>8. CASE RacingQuotes!Close(p)
      <4>1. /\ proc[p].pc = "close" /\ now' = now /\ RacingQuotes!Goto(p, "done")
            /\ prices' = RacingQuotes!Stored(p)
        BY <3>8 DEF RacingQuotes!Close, RacingQuotes!At
      <4>2. prices'.quotes # <<>> /\ Ascends(prices'.quotes, prices'.last)
        BY <4>1, FileRight
      <4>3. QED
        BY <2>1, <3>1, <4>1, <4>2, RacerGoes DEF PriceLabels
    <3>9. CASE RacingQuotes!FetchFails(p) \/ RacingQuotes!Kill(p)
      <4>1. UNCHANGED <<now, prices>> /\ RacingQuotes!Goto(p, "idle")
        BY <3>9 DEF RacingQuotes!FetchFails, RacingQuotes!Kill
      <4>2. QED
        BY <2>1, <3>1, <3>2, <4>1, RacerGoes DEF PriceLabels
    <3>10. QED
      BY <2>3, <3>3, <3>4, <3>5, <3>6, <3>7, <3>8, <3>9 DEF RacingQuotes!Advance
  <2>4. QED
    BY <2>1, <2>2, <2>3 DEF RacingQuotes!Next
<1>3. QED
  BY <1>1, <1>2

LEMMA RacingHolds == RacingInv => RacingQuotes!TypeOK /\ RacingQuotes!NeverTwice
<1> SUFFICES ASSUME RacingInv PROVE RacingQuotes!TypeOK /\ RacingQuotes!NeverTwice
  OBVIOUS
<1>1. \A p \in Users : proc[p].pc \in PriceLabels
  BY DEF RacingInv, RacerRight, PriceProcs
<1>2. QED
  BY <1>1 DEF RacingInv, Ascends, PriceLabels, RacingQuotes!TypeOK, RacingQuotes!NeverTwice

-----------------------------------------------------------------------------
\* Being on a mark is being a whole number of steps.
LEMMA WholeSteps ==
    ASSUME NEW x \in Nat, NEW n \in Nat \ {0}
    PROVE  x % n = 0 <=> \E k \in Nat : x = n * k
<1>1. x % n = 0 => x = n * (x \div n) /\ x \div n \in Nat
  OBVIOUS
<1>2. \A k \in Nat : (n * k) % n = 0
  OBVIOUS
<1>3. QED
  BY <1>1, <1>2

\* Whole steps of n after a mark of d, which n divides, are marks of n.
LEMMA MarksAdd ==
    ASSUME NEW x \in Nat, NEW y \in Nat, NEW d \in Nat \ {0}, NEW n \in Nat \ {0},
           x % d = 0, d % n = 0, y % n = 0
    PROVE  (x + y) % n = 0
<1>1. PICK k \in Nat : x = d * k
  BY WholeSteps
<1>2. PICK l \in Nat : d = n * l
  BY WholeSteps
<1>3. PICK m \in Nat : y = n * m
  BY WholeSteps
<1>4. l * k \in Nat /\ l * k + m \in Nat
  OBVIOUS
<1>5. (n * l) * k = n * (l * k) /\ n * (l * k) + n * m = n * (l * k + m)
  OBVIOUS
<1>6. x + y = n * (l * k + m) /\ x + y \in Nat
  BY <1>1, <1>2, <1>3, <1>5
<1>7. QED
  BY <1>4, <1>6, WholeSteps

\* A set of numbers has a least one.
LEMMA LeastOf ==
    ASSUME NEW S, S \subseteq Nat, S # {}
    PROVE  \E n \in S : \A k \in S : n <= k
<1>1. PICK x \in S : \A y \in S : ~(<<y, x>> \in OpToRel(<, Nat))
  BY NatLessThanWellFounded, WFMin
<1>2. \A y \in S : ~(y < x)
  BY <1>1 DEF OpToRel
<1>3. QED
  BY <1>2

\* What a tool has that is alone: the periods from a midnight on, one after the other.
InARow(q, lastRead) ==
    /\ q \in Seq(Nat) /\ lastRead \in Int
    /\ q = <<>> => lastRead = Quotes!NeverRead
    /\ q # <<>> => /\ q[1] % Day = 0
                   /\ \A i \in DOMAIN q : q[i] = q[1] + i - 1
                   /\ lastRead = q[Len(q)] /\ FirstListed <= lastRead

PricerRight(r) ==
    /\ r \in PriceProcs
    /\ InARow(r.quotes, r.last)
    /\ r.pc \in {"open", "write", "close"} => r.quotes # <<>>

\* The inductive invariant where one tool runs after the other, and none is killed: but
\* while the file is written it is as good as what the tool has.
QuotesInv ==
    /\ part = "quotes" /\ kills = 0
    /\ now \in 0 .. LastPeriod
    /\ DOMAIN proc = {Exporter} /\ proc = [p \in {Exporter} |-> proc[p]]
    /\ PricerRight(proc[Exporter])
    /\ \/ proc[Exporter].pc \in {"write", "close"}
       \/ prices \in {NoFile, Hollow}
       \/ InARow(prices.quotes, prices.last)

LEMMA QuotesFacts ==
    /\ LastPeriod \in Nat /\ FirstListed \in Nat /\ Window \in Nat
    /\ Day \in Nat \ {0} /\ Every \in Nat \ {0} /\ Day % Every = 0
  BY QuotesConstants, FirstListedAssumption DEF Quotes!PriceConstants

LEMMA ExporterNeverRead == Quotes!NeverRead \in {-1, -100}
  BY DEF Quotes!NeverRead, Quotes!Start2009, Quotes!Start2015

LEMMA NothingInARow == InARow(<<>>, Quotes!NeverRead)
<1> DEFINE e == Quotes!NeverRead
<1>1. e \in Int
  BY ExporterNeverRead
<1> HIDE DEF e
<1>2. InARow(<<>>, e)
  BY <1>1 DEF InARow, e
<1>3. QED
  BY <1>2 DEF e

LEMMA NewPricer ==
    \A f \in BOOLEAN, label \in {"idle", "load"} :
        PricerRight([pc |-> label, freshen |-> f, last |-> Quotes!NeverRead, quotes |-> <<>>])
<1> DEFINE e == Quotes!NeverRead
<1>1. e \in Int
  BY ExporterNeverRead
<1>2. InARow(<<>>, e)
  BY NothingInARow
<1> HIDE DEF e
<1>3. \A f \in BOOLEAN, label \in {"idle", "load"} :
        PricerRight([pc |-> label, freshen |-> f, last |-> e, quotes |-> <<>>])
  BY <1>1, <1>2 DEF PricerRight, PriceProcs, PriceLabels
<1>4. QED
  BY <1>3 DEF e

LEMMA PricerMoves ==
    ASSUME QuotesInv, NEW r, PricerRight(r), proc' = [proc EXCEPT ![Exporter] = r],
           UNCHANGED <<part, kills>>, now' \in 0 .. LastPeriod,
           \/ r.pc \in {"write", "close"}
           \/ prices' \in {NoFile, Hollow}
           \/ InARow(prices'.quotes, prices'.last)
    PROVE  QuotesInv'
<1>1. DOMAIN proc' = {Exporter} /\ proc' = [q \in {Exporter} |-> proc'[q]] /\ proc'[Exporter] = r
  BY DEF QuotesInv
<1>2. part' = "quotes" /\ kills' = 0
  BY DEF QuotesInv
<1>3. QED
  BY <1>1, <1>2 DEF QuotesInv

LEMMA PricerGoes ==
    ASSUME QuotesInv, NEW label \in PriceLabels, Quotes!Goto(Exporter, label),
           label \in {"open", "write", "close"} => proc[Exporter].quotes # <<>>,
           UNCHANGED <<part, kills>>, now' \in 0 .. LastPeriod,
           \/ label \in {"write", "close"}
           \/ prices' \in {NoFile, Hollow}
           \/ InARow(prices'.quotes, prices'.last)
    PROVE  QuotesInv'
<1> DEFINE r == [proc[Exporter] EXCEPT !.pc = label]
<1>1. PricerRight(proc[Exporter])
  BY DEF QuotesInv
<1>2. /\ r \in PriceProcs /\ r.pc = label /\ r.last = proc[Exporter].last
      /\ r.quotes = proc[Exporter].quotes
  BY <1>1 DEF PricerRight, PriceProcs
<1>3. proc' = [proc EXCEPT ![Exporter] = r]
  BY DEF Quotes!Goto
<1> HIDE DEF r
<1>4. PricerRight(r)
  BY <1>1, <1>2 DEF PricerRight
<1>5. QED
  BY <1>2, <1>3, <1>4, PricerMoves

\* The quotes that are added are all of an interval, which goes on where the others end,
\* or begins at midnight.
LEMMA WhatIsAdded ==
    ASSUME now \in 0 .. LastPeriod, NEW q, NEW lastRead, InARow(q, lastRead), NEW early \in {0, 1},
           NEW response, response = Quotes!Response(Quotes!NextRead(lastRead), early)
    PROVE  LET S == {t \in response :
                       t > lastRead /\ (q # <<>> \/ \E m \in response : m <= t /\ m % Day = 0)}
           IN  \/ S = {}
               \/ \E a \in Nat, b \in Int :
                     /\ S = a .. b /\ FirstListed <= a
                     /\ IF q = <<>> THEN a % Day = 0 ELSE a = lastRead + 1
<1> DEFINE S == {t \in response :
                   t > lastRead /\ (q # <<>> \/ \E m \in response : m <= t /\ m % Day = 0)}
           start == Quotes!NextRead(lastRead)
           end == IF start + Window < now THEN start + Window ELSE now
<1>1. lastRead \in Int /\ start = lastRead + 1
  BY DEF InARow, Quotes!NextRead, Quotes!Start2015
<1>2. end \in Int /\ end <= LastPeriod
  BY <1>1, QuotesFacts
<1>3. response = {t \in FirstListed .. LastPeriod : start - early <= t /\ t <= end}
  BY DEF Quotes!Response
<1> HIDE DEF end, start
<1>4. \A t : t \in response <=> t \in Nat /\ FirstListed <= t /\ lastRead + 1 - early <= t /\ t <= end
  BY <1>1, <1>2, <1>3, QuotesFacts
<1>5. CASE q # <<>>
  <2>1. FirstListed <= lastRead + 1 /\ lastRead + 1 \in Nat
    BY <1>1, <1>5, QuotesFacts DEF InARow
  <2>2. S = (lastRead + 1) .. end
    <3>1. ASSUME NEW t \in S PROVE t \in (lastRead + 1) .. end
      BY <1>1, <1>2, <1>4
    <3>2. ASSUME NEW t \in (lastRead + 1) .. end PROVE t \in S
      <4>1. t \in Nat /\ t > lastRead /\ FirstListed <= t /\ lastRead + 1 - early <= t /\ t <= end
        BY <1>1, <1>2, <2>1, QuotesFacts
      <4>2. QED
        BY <4>1, <1>4, <1>5
    <3>3. QED
      BY <3>1, <3>2
  <2> HIDE DEF S
  <2>3. QED
    BY <2>1, <2>2, <1>2, <1>5 DEF S
<1>6. CASE q = <<>>
  <2> DEFINE M == {m \in response : m % Day = 0}
  <2>1. lastRead + 1 <= 0
    BY <1>6, ExporterNeverRead DEF InARow
  <2>2. \A t \in response : t > lastRead /\ t \in Nat
    BY <1>1, <1>4, <2>1
  <2>3. CASE M = {}
    <3>1. S = {}
      BY <1>6, <2>3
    <3>2. QED
      BY <3>1
  <2>4. CASE M # {}
    <3>1. PICK a \in M : \A m \in M : a <= m
      <4>1. M \subseteq Nat
        BY <2>2
      <4> HIDE DEF M
      <4>2. QED
        BY <4>1, <2>4, LeastOf
    <3>2. a \in Nat /\ a % Day = 0 /\ FirstListed <= a /\ a \in response
      BY <1>4
    <3>3. S = a .. end
      <4>1. ASSUME NEW t \in S PROVE t \in a .. end
        <5>1. PICK m \in response : m <= t /\ m % Day = 0
          BY <1>6
        <5>2. a <= m /\ m \in Nat /\ t \in Nat /\ t <= end
          BY <5>1, <3>1, <1>4
        <5>3. QED
          BY <5>1, <5>2, <3>2, <1>2
      <4>2. ASSUME NEW t \in a .. end PROVE t \in S
        <5>1. t \in Nat /\ a <= t /\ t <= end
          BY <3>2, <1>2
        <5>2. t \in response
          BY <5>1, <3>2, <1>1, <1>2, <1>4, QuotesFacts
        <5>3. t > lastRead
          BY <5>2, <2>2
        <5>4. QED
          BY <5>1, <5>2, <5>3, <3>2
      <4>3. QED
        BY <4>1, <4>2
    <3> HIDE DEF S
    <3>4. QED
      BY <3>2, <3>3, <1>2, <1>6 DEF S
  <2>5. QED
    BY <2>3, <2>4
<1>7. QED
  BY <1>5, <1>6

LEMMA PricerAdds ==
    ASSUME NEW q, NEW lastRead, InARow(q, lastRead), NEW a \in Nat, NEW b \in Int, FirstListed <= a,
           IF q = <<>> THEN a % Day = 0 ELSE a = lastRead + 1,
           NEW s, InOrderOf(a .. b, s), s # <<>>
    PROVE  /\ InARow(q \o s, s[Len(s)]) /\ q \o s # <<>>
           /\ q \o s \in Seq(Int) /\ s[Len(s)] \in Int
<1> DEFINE u == q \o s
           n == Len(q)
           k == Len(s)
<1>1. /\ s \in Seq(Nat) /\ \A i \in DOMAIN s : s[i] = a + i - 1
  BY InOrderOfInterval
<1>2. k \in Nat \ {0} /\ DOMAIN s = 1 .. k
  BY <1>1
<1>3. q \in Seq(Nat) /\ n \in Nat /\ DOMAIN q = 1 .. n /\ (q = <<>> <=> n = 0) /\ lastRead \in Int
  BY DEF InARow
<1>4. /\ u \in Seq(Nat) /\ Len(u) = n + k
      /\ \A i \in 1 .. (n + k) : u[i] = IF i <= n THEN q[i] ELSE s[i - n]
  BY <1>1, <1>3, ConcatProperties
<1>5. DOMAIN u = 1 .. (n + k)
  BY <1>4
<1>6. n # 0 => /\ q[1] % Day = 0 /\ q[1] \in Nat
               /\ \A i \in 1 .. n : q[i] = q[1] + i - 1
               /\ lastRead = q[n]
  <2>1. SUFFICES ASSUME n # 0 PROVE /\ q[1] % Day = 0 /\ q[1] \in Nat
                                    /\ \A i \in 1 .. n : q[i] = q[1] + i - 1
                                    /\ lastRead = q[n]
    OBVIOUS
  <2>2. q # <<>> /\ 1 \in 1 .. n
    BY <2>1, <1>3
  <2> HIDE DEF n
  <2>3. q[1] \in Nat
    BY <2>2, <1>3
  <2>4. /\ q[1] % Day = 0
        /\ \A i \in DOMAIN q : q[i] = q[1] + i - 1
        /\ lastRead = q[Len(q)]
    BY <2>2 DEF InARow
  <2>5. QED
    BY <2>3, <2>4, <1>3 DEF n
<1>7. n # 0 => a = lastRead + 1
  BY <1>3
<1>8. n = 0 => a % Day = 0
  BY <1>3
<1> HIDE DEF u, n, k
<1>9. \A i \in 1 .. k : s[i] = a + i - 1
  BY <1>1, <1>2
<1>10. s[k] = a + k - 1 /\ s[k] \in Nat /\ FirstListed <= s[k]
  <2>1. k \in 1 .. k /\ s[k] = a + k - 1
    BY <1>2, <1>9
  <2>2. QED
    BY <2>1, <1>2, QuotesFacts
<1>11. u[n + k] = s[k]
  BY <1>2, <1>3, <1>4
<1>12. CASE n = 0
  <2>1. \A i \in 1 .. k : u[i] = a + i - 1
    BY <1>2, <1>4, <1>9, <1>12
  <2>2. u[1] = a
    BY <2>1, <1>2
  <2>3. u[1] % Day = 0 /\ \A i \in 1 .. (n + k) : u[i] = u[1] + i - 1
    BY <2>1, <2>2, <1>8, <1>12, <1>2
  <2>4. InARow(u, s[k]) /\ u # <<>>
    BY <2>3, <1>2, <1>4, <1>5, <1>10, <1>11, <1>12 DEF InARow
  <2>5. QED
    BY <2>4, <1>4, <1>10, SMTT(40) DEF u, k
<1>13. CASE n # 0
  <2>1. u[1] = q[1] /\ q[1] \in Nat /\ q[1] % Day = 0
    BY <1>3, <1>4, <1>2, <1>6, <1>13
  <2>2. lastRead = q[1] + n - 1
    BY <1>3, <1>6, <1>13
  <2>3. ASSUME NEW i \in 1 .. (n + k)
        PROVE  u[i] = u[1] + i - 1
    <3>1. CASE i <= n
      BY <3>1, <2>1, <1>3, <1>4, <1>6, <1>13
    <3>2. CASE ~(i <= n)
      <4>1. i - n \in 1 .. k /\ u[i] = s[i - n]
        BY <3>2, <1>2, <1>3, <1>4
      <4>2. s[i - n] = a + (i - n) - 1
        BY <4>1, <1>9
      <4>3. a = q[1] + n
        BY <2>1, <2>2, <1>3, <1>7, <1>13
      <4>4. QED
        BY <4>1, <4>2, <4>3, <2>1, <1>3, SMTT(30)
    <3>3. QED
      BY <3>1, <3>2
  <2>4. u # <<>>
    BY <1>2, <1>3, <1>4
  <2>5. InARow(u, s[k])
    BY <2>1, <2>3, <2>4, <1>4, <1>5, <1>10, <1>11 DEF InARow
  <2>6. QED
    BY <2>4, <2>5, <1>4, <1>10, SMTT(40) DEF u, k
<1>14. QED
  BY <1>12, <1>13

LEMMA QuotesLoad ==
    ASSUME QuotesInv, Quotes!Load(Exporter), UNCHANGED part
    PROVE  QuotesInv'
<1> DEFINE absent == prices \in {NoFile, Hollow}
           got == IF absent THEN [last |-> Quotes!NeverRead, quotes |-> <<>>] ELSE prices
           f == proc[Exporter].freshen \/ prices = NoFile
           r == [pc |-> IF f THEN "fetch" ELSE "done", freshen |-> f,
                 last |-> got.last, quotes |-> got.quotes]
<1>1. UNCHANGED <<now, prices, kills>> /\ proc[Exporter].pc = "load"
  BY DEF Quotes!Load, Quotes!At
<1>2. absent \/ InARow(prices.quotes, prices.last)
  BY <1>1 DEF QuotesInv
<1>3. now' \in 0 .. LastPeriod /\ (prices' \in {NoFile, Hollow} \/ InARow(prices'.quotes, prices'.last))
  BY <1>1, <1>2 DEF QuotesInv
<1>4. CASE Quotes!Goto(Exporter, "idle")
  BY <1>1, <1>3, <1>4, PricerGoes DEF PriceLabels
<1>5. CASE proc' = [proc EXCEPT ![Exporter] = r]
  <2>1. InARow(got.quotes, got.last)
    <3>1. CASE absent
      <4>1. got.quotes = <<>> /\ got.last = Quotes!NeverRead
        BY <3>1
      <4>2. QED
        BY <4>1, NothingInARow
    <3>2. CASE ~absent
      BY <3>2, <1>2
    <3>3. QED
      BY <3>1, <3>2
  <2> HIDE DEF got, absent
  <2>2. got.quotes \in Seq(Int) /\ got.last \in Int
    BY <2>1 DEF InARow
  <2>3. f \in BOOLEAN
    BY Zenon
  <2> HIDE DEF f
  <2>4. (IF f THEN "fetch" ELSE "done") \in {"fetch", "done"}
    OBVIOUS
  <2>5. r \in PriceProcs
    BY <2>2, <2>3, <2>4 DEF PriceProcs, PriceLabels
  <2>6. PricerRight(r)
    BY <2>1, <2>4, <2>5, SMTT(40) DEF PricerRight
  <2> HIDE DEF r
  <2>7. QED
    BY <2>6, <1>1, <1>3, <1>5, PricerMoves
<1>6. QED
  BY <1>4, <1>5, Zenon DEF Quotes!Load

LEMMA QuotesFetch ==
    ASSUME QuotesInv, Quotes!Fetch(Exporter), UNCHANGED part
    PROVE  QuotesInv'
<1> DEFINE q == proc[Exporter].quotes
           lastRead == proc[Exporter].last
<1>1. PICK early \in {0, 1} :
        LET response == Quotes!Response(Quotes!NextRead(lastRead), early)
            begun(t) == \/ q # <<>>
                        \/ \E m \in response : m <= t /\ Quotes!AtMidnight(m)
            added == Quotes!InOrder({t \in response : Quotes!AddToArray(Exporter, t) /\ begun(t)})
        IN  IF added = <<>> THEN Quotes!Goto(Exporter, "done")
            ELSE proc' = [proc EXCEPT ![Exporter].quotes = @ \o added,
                                      ![Exporter].last = added[Len(added)],
                                      ![Exporter].pc = "open"]
  BY Zenon DEF Quotes!Fetch
<1> DEFINE response == Quotes!Response(Quotes!NextRead(lastRead), early)
           begun(t) == \/ q # <<>>
                       \/ \E m \in response : m <= t /\ Quotes!AtMidnight(m)
           S == {t \in response : Quotes!AddToArray(Exporter, t) /\ begun(t)}
           T == {t \in response :
                   t > lastRead /\ (q # <<>> \/ \E m \in response : m <= t /\ m % Day = 0)}
           s == Quotes!InOrder(S)
           r == [proc[Exporter] EXCEPT !.quotes = q \o s, !.last = s[Len(s)], !.pc = "open"]
<1>2. \/ s = <<>> /\ Quotes!Goto(Exporter, "done")
      \/ /\ s # <<>>
         /\ proc' = [proc EXCEPT ![Exporter].quotes = @ \o s,
                                 ![Exporter].last = s[Len(s)], ![Exporter].pc = "open"]
  BY <1>1, Zenon
<1>3. UNCHANGED <<now, prices, kills>> /\ proc[Exporter].pc = "fetch"
  BY DEF Quotes!Fetch, Quotes!At
<1>4. /\ now' \in 0 .. LastPeriod /\ now \in 0 .. LastPeriod
      /\ prices' \in {NoFile, Hollow} \/ InARow(prices'.quotes, prices'.last)
  BY <1>3 DEF QuotesInv
<1>5. S = T
  BY DEF Quotes!AddToArray, Quotes!AtMidnight
<1>6. PricerRight(proc[Exporter])
  BY DEF QuotesInv
<1>7. InARow(q, lastRead)
  BY <1>6 DEF PricerRight
<1>8. InOrderOf(S, s)
  BY QuotesInOrder
<1> HIDE DEF q, lastRead
<1> HIDE DEF s, S, begun
<1>9. \/ T = {}
      \/ \E a \in Nat, b \in Int :
            /\ T = a .. b /\ FirstListed <= a
            /\ IF q = <<>> THEN a % Day = 0 ELSE a = lastRead + 1
  <2> HIDE DEF response
  <2>1. response = Quotes!Response(Quotes!NextRead(lastRead), early)
    BY DEF response
  <2>2. QED
    BY <2>1, <1>4, <1>7, WhatIsAdded
<1> HIDE DEF response, T
<1>10. CASE Quotes!Goto(Exporter, "done")
  BY <1>3, <1>4, <1>10, PricerGoes DEF PriceLabels
<1>11. CASE /\ s # <<>>
            /\ proc' = [proc EXCEPT ![Exporter].quotes = @ \o s,
                                    ![Exporter].last = s[Len(s)], ![Exporter].pc = "open"]
  <2>1. T # {}
    <3>1. SUFFICES ASSUME T = {} PROVE FALSE
      OBVIOUS
    <3>2. T = 1 .. 0
      BY <3>1
    <3>3. InOrderOf(1 .. 0, s)
      BY <3>2, <1>5, <1>8
    <3>4. s \in Seq(Nat) /\ Len(s) = 0
      BY <3>3, InOrderOfInterval
    <3>5. QED
      BY <3>4, <1>11
  <2>2. PICK a \in Nat, b \in Int :
            /\ T = a .. b /\ FirstListed <= a
            /\ IF q = <<>> THEN a % Day = 0 ELSE a = lastRead + 1
    BY <1>9, <2>1
  <2>3. InOrderOf(a .. b, s)
    BY <2>2, <1>5, <1>8
  <2>4. /\ InARow(q \o s, s[Len(s)]) /\ q \o s # <<>>
        /\ q \o s \in Seq(Int) /\ s[Len(s)] \in Int
    BY <2>2, <2>3, <1>7, <1>11, PricerAdds
  <2> DEFINE u == q \o s
             e == s[Len(s)]
  <2> HIDE DEF u, e
  <2>5. r = [proc[Exporter] EXCEPT !.quotes = u, !.last = e, !.pc = "open"]
    BY DEF u, e
  <2>6. r \in PriceProcs /\ r.quotes = u /\ r.last = e
    BY <1>6, <2>4, <2>5 DEF PricerRight, PriceProcs, PriceLabels, u, e
  <2>7. proc' = [proc EXCEPT ![Exporter] = r]
    <3>1. proc = [x \in {Exporter} |-> proc[x]] /\ Exporter \in DOMAIN proc
      BY DEF QuotesInv
    <3>2. QED
      BY <3>1, <1>11 DEF q
  <2> HIDE DEF r
  <2>8. PricerRight(r)
    BY <2>4, <2>6 DEF PricerRight, u, e
  <2>9. QED
    BY <2>7, <2>8, <1>3, <1>4, PricerMoves
<1>12. QED
  BY <1>2, <1>10, <1>11

LEMMA QuotesStart == PricesInit /\ part = "quotes" => QuotesInv
<1> SUFFICES ASSUME PricesInit, part = "quotes" PROVE QuotesInv
  OBVIOUS
<1>1. /\ now \in 0 .. LastPeriod /\ prices = NoFile /\ kills = 0
      /\ proc = [p \in {Exporter} |-> [pc |-> "idle", freshen |-> FALSE,
                                       last |-> Quotes!NeverRead, quotes |-> <<>>]]
  <2>1. part # "racing quotes"
    OBVIOUS
  <2>2. Quotes!Init
    BY <2>1, Zenon DEF PricesInit
  <2>3. QED
    BY <2>2, Zenon DEF Quotes!Init
<1>2. PricerRight(proc[Exporter])
  BY <1>1, NewPricer
<1>3. QED
  BY <1>1, <1>2 DEF QuotesInv

LEMMA QuotesStep ==
    ASSUME QuotesInv, [PricesNext /\ UNCHANGED part]_<<part, Quotes!vars>>
    PROVE  QuotesInv'
<1>1. CASE UNCHANGED <<part, Quotes!vars>>
  BY <1>1 DEF QuotesInv, Quotes!vars
<1>2. CASE PricesNext /\ UNCHANGED part
  <2> DEFINE p == Exporter
  <2>1. Quotes!Next /\ UNCHANGED part
    <3>1. part # "racing quotes"
      BY DEF QuotesInv
    <3>2. QED
      BY <1>2, <3>1, Zenon DEF PricesNext
  <2>2. PricerRight(proc[p]) /\ now \in 0 .. LastPeriod /\ kills = 0
    BY DEF QuotesInv
  <2>3. \/ proc[p].pc \in {"write", "close"}
        \/ prices \in {NoFile, Hollow}
        \/ InARow(prices.quotes, prices.last)
    BY DEF QuotesInv
  <2>4. CASE Quotes!Tick
    <3>1. now < LastPeriod /\ now' = now + 1 /\ UNCHANGED <<prices, proc, kills>>
      BY <2>4, Zenon DEF Quotes!Tick
    <3>2. now' \in 0 .. LastPeriod
      BY <3>1, <2>2, QuotesFacts
    <3>3. QED
      BY <2>1, <3>1, <3>2 DEF QuotesInv
  <2>5. CASE Quotes!Begin(p)
    <3>1. PICK f \in BOOLEAN :
            proc' = [proc EXCEPT ![p] = [pc |-> "load", freshen |-> f,
                                         last |-> Quotes!NeverRead, quotes |-> <<>>]]
      BY <2>5 DEF Quotes!Begin
    <3>2. PricerRight([pc |-> "load", freshen |-> f, last |-> Quotes!NeverRead, quotes |-> <<>>])
      BY NewPricer
    <3>3. UNCHANGED <<now, prices, kills>> /\ proc[p].pc \in {"idle", "done"}
      BY <2>5 DEF Quotes!Begin
    <3>4. prices' \in {NoFile, Hollow} \/ InARow(prices'.quotes, prices'.last)
      BY <2>3, <3>3
    <3>5. QED
      BY <2>1, <2>2, <3>1, <3>2, <3>3, <3>4, PricerMoves
  <2>6. CASE Quotes!Load(p)
    BY <2>1, <2>6, QuotesLoad
  <2>7. CASE Quotes!Fetch(p)
    BY <2>1, <2>7, QuotesFetch
  <2>8. CASE Quotes!Open(p)
    <3>1. proc[p].pc = "open" /\ prices' = Hollow /\ Quotes!Goto(p, "write") /\ UNCHANGED <<now, kills>>
      BY <2>8 DEF Quotes!Open, Quotes!At
    <3>2. QED
      BY <2>1, <2>2, <3>1, PricerGoes DEF PricerRight, PriceLabels
  <2>9. CASE Quotes!Write(p)
    <3>1. proc[p].pc = "write" /\ Quotes!Goto(p, "close") /\ UNCHANGED <<now, kills>>
      BY <2>9 DEF Quotes!Write, Quotes!At
    <3>2. QED
      BY <2>1, <2>2, <3>1, PricerGoes DEF PricerRight, PriceLabels
  <2>10. CASE Quotes!Close(p)
    <3>1. /\ Quotes!Goto(p, "done") /\ UNCHANGED <<now, kills>>
          /\ prices' = [last |-> proc[p].last, quotes |-> proc[p].quotes]
      BY <2>10 DEF Quotes!Close, Quotes!Stored
    <3>2. InARow(prices'.quotes, prices'.last)
      BY <2>2, <3>1 DEF PricerRight
    <3>3. QED
      BY <2>1, <2>2, <3>1, <3>2, PricerGoes DEF PriceLabels
  <2>11. CASE Quotes!FetchFails(p)
    <3>1. /\ proc[p].pc = "fetch" /\ Quotes!Goto(p, "idle") /\ UNCHANGED <<now, prices, kills>>
      BY <2>11 DEF Quotes!FetchFails, Quotes!At
    <3>2. prices' \in {NoFile, Hollow} \/ InARow(prices'.quotes, prices'.last)
      BY <2>3, <3>1
    <3>3. QED
      BY <2>1, <2>2, <3>1, <3>2, PricerGoes DEF PriceLabels
  <2>12. ~Quotes!Kill(p)
    BY <2>2 DEF Quotes!Kill
  <2>13. Quotes!Advance(p) \/ Quotes!FetchFails(p) \/ Quotes!Kill(p) \/ Quotes!Tick
    BY <2>1 DEF Quotes!Next
  <2>14. QED
    BY <2>4, <2>5, <2>6, <2>7, <2>8, <2>9, <2>10, <2>11, <2>12, <2>13, Zenon DEF Quotes!Advance
<1>3. QED
  BY <1>1, <1>2

LEMMA QuotesHold == QuotesInv => Quotes!PricedRight /\ Quotes!OnTheMark
<1> SUFFICES ASSUME QuotesInv, proc[Exporter].pc = "done", proc[Exporter].quotes # <<>>
             PROVE  /\ \A t \in FirstListed .. LastPeriod :
                         proc[Exporter].quotes[1] <= t /\ t <= proc[Exporter].last =>
                           proc[Exporter].quotes[
                             Quotes!IndexFromTimeStamp(proc[Exporter].quotes, t)] = t
                    /\ \A j \in 1 .. Len(proc[Exporter].quotes) :
                         (j - 1) % Every = 0 => proc[Exporter].quotes[j] % Every = 0
  <2>1. CASE proc[Exporter].pc = "done" /\ proc[Exporter].quotes # <<>>
    <3>1. Quotes!Quotes(Exporter) = proc[Exporter].quotes
      BY <2>1 DEF Quotes!Quotes, Quotes!At
    <3>2. QED
      BY <2>1, <3>1 DEF Quotes!PricedRight, Quotes!OnTheMark, Quotes!Shown
  <2>2. CASE ~(proc[Exporter].pc = "done" /\ proc[Exporter].quotes # <<>>)
    <3>1. Quotes!Quotes(Exporter) = <<>>
      BY <2>2 DEF Quotes!Quotes, Quotes!At
    <3>2. QED
      BY <3>1 DEF Quotes!PricedRight, Quotes!OnTheMark, Quotes!Shown
  <2>3. QED
    BY <2>1, <2>2
<1> DEFINE q == proc[Exporter].quotes
           n == Len(q)
           a == q[1]
<1>1. InARow(q, proc[Exporter].last)
  BY DEF QuotesInv, PricerRight
<1> HIDE DEF q
<1>0. q # <<>> /\ q \in Seq(Nat) /\ DOMAIN q = 1 .. n
  BY <1>1 DEF InARow, q
<1>2. n \in Nat \ {0} /\ a \in Nat /\ a % Day = 0 /\ proc[Exporter].last = q[n]
      /\ \A i \in 1 .. n : q[i] = a + i - 1
  <2>1. n \in Nat \ {0} /\ a \in Nat
    BY <1>0
  <2>2. /\ q[1] % Day = 0
        /\ \A i \in DOMAIN q : q[i] = q[1] + i - 1
        /\ proc[Exporter].last = q[Len(q)]
    BY <1>0, <1>1 DEF InARow
  <2>3. QED
    BY <2>1, <2>2, <1>0
<1> HIDE DEF n, a
<1>3. q[n] = a + n - 1
  BY <1>2
<1>4. ASSUME NEW t \in FirstListed .. LastPeriod, a <= t, t <= q[n]
      PROVE  q[Quotes!IndexFromTimeStamp(q, t)] = t
  <2>1. t \in Int
    BY QuotesFacts
  <2>2. Quotes!IndexFromTimeStamp(q, t) = 1 + (IF t - a < n - 1 THEN t - a ELSE n - 1)
    <3>1. Quotes!IndexFromTimeStamp(q, t) =
            1 + (IF (IF t < a THEN 0 ELSE t - a) < n - 1 THEN (IF t < a THEN 0 ELSE t - a) ELSE n - 1)
      BY Zenon DEF Quotes!IndexFromTimeStamp, a, n
    <3>2. QED
      BY <3>1, <2>1, <1>2, <1>4
  <2>3. 1 + (IF t - a < n - 1 THEN t - a ELSE n - 1) = t - a + 1 /\ t - a + 1 \in 1 .. n
    BY <2>1, <1>2, <1>3, <1>4
  <2>4. q[t - a + 1] = a + (t - a + 1) - 1
    BY <2>3, <1>2
  <2>5. QED
    BY <2>1, <2>2, <2>3, <2>4, <1>2
<1>5. ASSUME NEW j \in 1 .. n, (j - 1) % Every = 0
      PROVE  q[j] % Every = 0
  <2>1. j - 1 \in Nat /\ q[j] = a + (j - 1)
    BY <1>2
  <2>2. (a + (j - 1)) % Every = 0
    <3> DEFINE y == j - 1
    <3>1. y \in Nat /\ y % Every = 0
      BY <2>1, <1>5
    <3> HIDE DEF y
    <3>2. (a + y) % Every = 0
      <4>1. a \in Nat /\ a % Day = 0
        BY <1>2, Zenon
      <4>2. Day \in Nat \ {0} /\ Every \in Nat \ {0} /\ Day % Every = 0
        BY QuotesFacts, Zenon
      <4>3. QED
        BY <3>1, <4>1, <4>2, MarksAdd, ZenonT(40)
    <3>3. QED
      BY <3>2 DEF y
  <2>3. QED
    BY <2>1, <2>2
<1>6. QED
  BY <1>2, <1>4, <1>5 DEF q, n, a

\* wei_2_Dollars, getQuotes: the quote found by counting is the one of the moment, and
\* those shown lie on the marks.  addToArray: no quote is twice in the database.
THEOREM PricesHold == PricesSpec => []PricesRight
<1>1. PricesInit /\ part = "quotes" => QuotesInv
  BY QuotesStart
<1>2. QuotesInv /\ [PricesNext /\ UNCHANGED part]_<<part, Quotes!vars>> => QuotesInv'
  BY QuotesStep
<1>3. PricesInit /\ part = "racing quotes" => RacingInv
  BY RacingStart
<1>4. RacingInv /\ [PricesNext /\ UNCHANGED part]_<<part, Quotes!vars>> => RacingInv'
  BY RacingStep
<1>5. PricesInit => part = "quotes" \/ part = "racing quotes"
  BY Zenon DEF PricesInit
<1>6. QuotesInv => PricesRight
  <2>1. QuotesInv => part = "quotes" /\ part # "racing quotes"
    BY DEF QuotesInv
  <2>2. QED
    BY <2>1, QuotesHold, Zenon DEF PricesRight
<1>7. RacingInv => PricesRight
  <2>1. RacingInv => part # "quotes"
    BY DEF RacingInv
  <2>2. QED
    BY <2>1, RacingHolds, Zenon DEF PricesRight
<1>8. QED
  BY <1>1, <1>2, <1>3, <1>4, <1>5, <1>6, <1>7, PTL DEF PricesSpec
=============================================================================
