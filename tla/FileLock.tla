------------------------------ MODULE FileLock ------------------------------
(***************************************************************************)
(* CSharedResource::Lock and Release: how the tools share one data file.   *)
(*                                                                         *)
(* A process that wants to write looks for <file>.lck, once a second, and  *)
(* creates it when it is not there; looking and creating are two system    *)
(* calls.  When the lock file is still there after maxSecondsLock looks, a *)
(* LOCK_WAIT writer gives up, a LOCK_CREATE (or LOCK_NOWAIT) writer and a  *)
(* LOCK_WAIT reader remove it.  A lock file that is created is put on the  *)
(* list of files that a quit handler removes.                              *)
(***************************************************************************)
EXTENDS Integers, FiniteSets

CONSTANTS Procs,            \* the processes that use the file
          Kind,             \* how each of them calls Lock
          maxSecondsLock,   \* 3: how often the lock file is looked for
          FaultKinds,       \* the faults of this instance
          MaxFaults         \* bound: how many of them happen

Kinds == {"waitWriter",    \* a write mode, LOCK_WAIT
          "createWriter",  \* a write mode, LOCK_CREATE or LOCK_NOWAIT
          "waitReader"}    \* modeReadOnly, LOCK_WAIT

ASSUME LockConstants ==
    /\ Kind \in [Procs -> Kinds]
    /\ maxSecondsLock \in Nat \ {0}
    /\ FaultKinds \subseteq {"io", "quit", "kill", "rpc"}  \* "rpc": of module Timestamps
    /\ MaxFaults \in Nat

VARIABLES
    lck,        \* the lock file exists
    pc,         \* where each process is
    looks,      \* i of createLock and waitOnLock
    owns,       \* m_ownsLock
    listed,     \* the lock file is on the process's remove list
    faults,
    renewed,    \* history: a lock file was made since the process's first look
    abandoned   \* history: a process ended without removing what it made

lockVars == <<lck, pc, looks, owns, listed, faults, renewed, abandoned>>

\* Between fopen and Register the lock file is there and m_ownsLock is not set.
Labels == {"out", "look", "break", "create", "register", "opening", "open",
           "closing", "unlist"}

Init ==
    /\ lck = FALSE
    /\ pc = [p \in Procs |-> "out"]
    /\ looks = [p \in Procs |-> 0]
    /\ owns = [p \in Procs |-> FALSE]
    /\ listed = [p \in Procs |-> FALSE]
    /\ faults = 0
    /\ renewed = [p \in Procs |-> FALSE]
    /\ abandoned = FALSE

Goto(p, label) == pc' = [pc EXCEPT ![p] = label]

Fault(kind) ==
    /\ kind \in FaultKinds
    /\ faults < MaxFaults
    /\ faults' = faults + 1

-----------------------------------------------------------------------------
(* Lock *)

Lock(p) ==
    /\ pc[p] = "out"
    /\ looks' = [looks EXCEPT ![p] = 0]
    /\ renewed' = [renewed EXCEPT ![p] = FALSE]
    /\ Goto(p, "look")
    /\ UNCHANGED <<lck, owns, listed, faults, abandoned>>

\* fileExists says no: waitOnLock returns, createLock goes on to create.
LookFree(p) ==
    /\ pc[p] = "look"
    /\ looks[p] < maxSecondsLock
    /\ ~ lck
    /\ Goto(p, IF Kind[p] = "waitReader" THEN "opening" ELSE "create")
    /\ UNCHANGED <<lck, looks, owns, listed, faults, renewed, abandoned>>

\* It says yes: sleep a second.
LookTaken(p) ==
    /\ pc[p] = "look"
    /\ looks[p] < maxSecondsLock
    /\ lck
    /\ looks' = [looks EXCEPT ![p] = @ + 1]
    /\ UNCHANGED <<lck, pc, owns, listed, faults, renewed, abandoned>>

\* Mutant: the flag createOnFail is not looked at.
NobodyBreaks(p) ==
    /\ pc[p] = "look"
    /\ looks[p] = maxSecondsLock
    /\ Goto(p, "out")
    /\ UNCHANGED <<lck, looks, owns, listed, faults, renewed, abandoned>>

\* "Someone has had the lock for maxSecondsLock seconds".
WaitedTooLong(p) ==
    /\ pc[p] = "look"
    /\ looks[p] = maxSecondsLock
    /\ Goto(p, IF Kind[p] = "waitWriter" THEN "out" ELSE "break")
    /\ UNCHANGED <<lck, looks, owns, listed, faults, renewed, abandoned>>

\* m_ownsLock is set so that Release removes the lock file of someone else.
BreakLock(p) ==
    /\ pc[p] = "break"
    /\ lck' = FALSE
    /\ owns' = [owns EXCEPT ![p] = FALSE]
    /\ listed' = [listed EXCEPT ![p] = FALSE]
    /\ Goto(p, IF Kind[p] = "waitReader" THEN "opening" ELSE "create")
    /\ UNCHANGED <<looks, faults, renewed, abandoned>>

\* createLockFile: fopen with mode "w", which succeeds if the file is there too.
CreateLockFile(p) ==
    /\ pc[p] = "create"
    /\ lck' = TRUE
    /\ renewed' = [q \in Procs |-> renewed[q] \/ (q # p /\ pc[q] = "look")]
    /\ Goto(p, "register")
    /\ UNCHANGED <<looks, owns, listed, faults, abandoned>>

CreateFails(p) ==
    /\ pc[p] = "create"
    /\ Fault("io")
    /\ Goto(p, "out")
    /\ UNCHANGED <<lck, looks, owns, listed, renewed, abandoned>>

\* m_ownsLock = true; manageRemoveList(lockfilename)
Register(p) ==
    /\ pc[p] = "register"
    /\ owns' = [owns EXCEPT ![p] = TRUE]
    /\ listed' = [listed EXCEPT ![p] = TRUE]
    /\ Goto(p, "opening")
    /\ UNCHANGED <<lck, looks, faults, renewed, abandoned>>

OpenFile(p) ==
    /\ pc[p] = "opening"
    /\ Goto(p, "open")
    /\ UNCHANGED <<lck, looks, owns, listed, faults, renewed, abandoned>>

\* Mutant: a resource that is not open has nothing to release.
OpenFailsAndLeaves(p) ==
    /\ pc[p] = "opening"
    /\ Fault("io")
    /\ owns' = [owns EXCEPT ![p] = FALSE]
    /\ Goto(p, "out")
    /\ UNCHANGED <<lck, looks, listed, renewed, abandoned>>

\* The data file cannot be opened: Lock returns false, and the destructor of the
\* resource releases what createLock made.
OpenFails(p) ==
    /\ pc[p] = "opening"
    /\ Fault("io")
    /\ Goto(p, "closing")
    /\ UNCHANGED <<lck, looks, owns, listed, renewed, abandoned>>

-----------------------------------------------------------------------------
(* Release *)

\* Close() writes what is buffered.
Close(p) ==
    /\ pc[p] = "open"
    /\ Goto(p, "closing")
    /\ UNCHANGED <<lck, looks, owns, listed, faults, renewed, abandoned>>

\* The lock file goes, whoever made the one that is there now.
RemoveLock(p) ==
    /\ pc[p] = "closing"
    /\ IF owns[p] THEN lck' = FALSE /\ Goto(p, "unlist")
                  ELSE lck' = lck   /\ Goto(p, "out")
    /\ UNCHANGED <<looks, owns, listed, faults, renewed, abandoned>>

\* manageRemoveList("r:" + lockFilename); m_ownsLock = false
Unlist(p) ==
    /\ pc[p] = "unlist"
    /\ owns' = [owns EXCEPT ![p] = FALSE]
    /\ listed' = [listed EXCEPT ![p] = FALSE]
    /\ Goto(p, "out")
    /\ UNCHANGED <<lck, looks, faults, renewed, abandoned>>

-----------------------------------------------------------------------------
(* The end of a process; another may be started in its place *)

\* What is gone with the memory of the process.
Gone(p) ==
    /\ pc[p] # "out"
    /\ Goto(p, "out")
    /\ owns' = [owns EXCEPT ![p] = FALSE]
    /\ listed' = [listed EXCEPT ![p] = FALSE]
    /\ looks' = [looks EXCEPT ![p] = 0]
    /\ renewed' = [renewed EXCEPT ![p] = FALSE]

\* quickQuitHandler, or defaultQuitHandler called for the third time:
\* cleanFileLocks removes what is on the list, then exit.
QuitHandler(p) ==
    /\ Fault("quit")
    /\ Gone(p)
    /\ lck' = (lck /\ ~ listed[p])
    /\ abandoned' = (abandoned \/ pc[p] = "register")

\* The process is killed.
Kill(p) ==
    /\ Fault("kill")
    /\ Gone(p)
    /\ abandoned' = (abandoned \/ pc[p] = "register" \/ owns[p])
    /\ UNCHANGED lck

-----------------------------------------------------------------------------
\* The steps that are the code's own once Lock was called.
Step(p) ==
    \/ LookFree(p) \/ LookTaken(p) \/ WaitedTooLong(p) \/ BreakLock(p)
    \/ CreateLockFile(p) \/ CreateFails(p) \/ Register(p)
    \/ OpenFile(p) \/ OpenFails(p)
    \/ RemoveLock(p) \/ Unlist(p)

Next == \E p \in Procs : Lock(p) \/ Step(p) \/ Close(p) \/ QuitHandler(p) \/ Kill(p)

Spec == Init /\ [][Next]_lockVars

\* A process that is scheduled finishes what it began, and closes what it opened.
FairSpec == Spec /\ \A p \in Procs : WF_lockVars(Step(p) \/ Close(p))

-----------------------------------------------------------------------------
(* Properties *)

TypeOK ==
    /\ lck \in BOOLEAN
    /\ pc \in [Procs -> Labels]
    /\ looks \in [Procs -> 0 .. maxSecondsLock]
    /\ owns \in [Procs -> BOOLEAN]
    /\ listed \in [Procs -> BOOLEAN]
    /\ faults \in 0 .. MaxFaults
    /\ renewed \in [Procs -> BOOLEAN]
    /\ abandoned \in BOOLEAN

\* A lock file never stays behind: while one is there, some running process made
\* it or is making it and will remove it.  Failed opens, broken locks, two owners
\* and processes that quit are all allowed for; only a kill, or a quit in the two
\* statements between fopen and manageRemoveList, leaves a lock without an owner.
LockHasOwner ==
    lck => abandoned \/ \E p \in Procs : owns[p] \/ pc[p] = "register"

\* What database.h says a lock is for: no two processes write the file at once.
\* The code does not keep this: README, section 5.
OneWriter ==
    \A p, q \in Procs :
        /\ pc[p] = "open" /\ pc[q] = "open"
        /\ Kind[p] # "waitReader" /\ Kind[q] # "waitReader"
        => p = q

\* What the comment in createLock says before it breaks a lock: the lock file that
\* is there is the one that was there at the first look.
\* The code does not keep this: README, section 5.
BreaksOldLockOnly == \A p \in Procs : pc[p] = "break" => ~ renewed[p]

\* A stale lock never keeps a LOCK_CREATE writer out, and neither do the other
\* users of the file: when no more faults come, a call of Lock gets the file.
BreakerGetsIn ==
    \A p \in Procs :
        Kind[p] = "createWriter" =>
            (pc[p] = "look" /\ faults = MaxFaults ~> pc[p] = "open")
=============================================================================
