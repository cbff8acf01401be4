------------------------------ MODULE Monitor -------------------------------
(***************************************************************************)
(* acctExport's monitors.  A monitor is what is known of one address: its  *)
(* appearances (.acct.bin) and the next block to look at (.last.txt).      *)
(* Every invocation first freshens its monitors from the chunks of the     *)
(* index; new monitors are built in a staging folder and moved.  Any       *)
(* number of invocations may run, and each may be killed anywhere.         *)
(***************************************************************************)
EXTENDS Integers, FiniteSets

CONSTANTS Monitors,     \* addresses
          Procs,        \* slots for invocations of acctExport
          MaxChunks,    \* bound: chunks of the finalized index
          Prefund,      \* addresses whose appearance in the first chunk is 0.0
          Commands,     \* what acctExport is invoked with
          FaultKinds,   \* the faults of this instance
          MaxFaults     \* bound: how many of them happen

ASSUME MonitorConstants ==
    /\ Prefund \subseteq Monitors
    /\ MaxChunks \in Nat \ {0} /\ MaxFaults \in Nat
    /\ Commands \subseteq {"freshen", "clean", "delete", "undelete", "remove"}
    /\ FaultKinds \subseteq {"kill", "killclean", "killremove", "fail"}

Chunks == 1 .. MaxChunks

\* bnFromPath: both ends are part of the chunk, and the next one follows directly.
Width == 2
First(c) == (c - 1) * Width
Last(c) == First(c) + Width - 1

NoBin == [c \in {} |-> 0]             \* there is no .acct.bin
EmptyBin == [c \in Chunks |-> 0]      \* how often it holds the appearances of c
Bins == {NoBin} \cup [Chunks -> Nat]

VARIABLES
    nChunks,   \* chunks on disk: 1 .. nChunks
    hits,      \* chunks each address appears in
    blooms,    \* chunks whose bloom filter says so: no less
    bin,       \* .acct.bin, in production and in staging
    last,      \* .last.txt; 0: there is none
    dels,      \* monitors with a .deleted file
    faults,
    pc,        \* where each process is; "none": it does not exist
    addrs,     \* allMonitors
    staged,    \* of which isStaging
    range,     \* listRange.first, and the chunks found in the folder
    chunk,     \* the next of them to visit
    poss,      \* possibles
    todo,      \* what is left of the loop over monitors
    kept       \* the appearances that cleaning keeps

index == <<nChunks, hits, blooms>>
disk == <<bin, last, dels>>
locals == <<addrs, staged, range, chunk, poss, todo, kept>>
vars == <<index, disk, faults, pc, locals>>

Init ==
    /\ nChunks = 0
    /\ hits \in [Monitors -> SUBSET Chunks]
    /\ blooms \in [Monitors -> SUBSET Chunks]
    /\ \A m \in Monitors : hits[m] \subseteq blooms[m]
    /\ bin = [place \in {"prod", "stage"} |-> [m \in Monitors |-> NoBin]]
    /\ last = [place \in {"prod", "stage"} |-> [m \in Monitors |-> 0]]
    /\ dels = {}
    /\ faults = 0
    /\ pc = [p \in Procs |-> "none"]
    /\ addrs = [p \in Procs |-> {}]
    /\ staged = [p \in Procs |-> {}]
    /\ range = [p \in Procs |-> <<0, 0>>]
    /\ chunk = [p \in Procs |-> 0]
    /\ poss = [p \in Procs |-> {}]
    /\ todo = [p \in Procs |-> {}]
    /\ kept = [p \in Procs |-> NoBin]

Goto(p, label) == pc' = [pc EXCEPT ![p] = label]
NextChunk(p) == chunk' = [chunk EXCEPT ![p] = @ + 1]
Loop(p, S) == todo' = [todo EXCEPT ![p] = S]
Done(p, m) == Loop(p, todo[p] \ {m})

\* The process ends: nothing of its memory is left.
Ends(p) ==
    /\ Goto(p, "none")
    /\ addrs' = [addrs EXCEPT ![p] = {}]
    /\ staged' = [staged EXCEPT ![p] = {}]
    /\ range' = [range EXCEPT ![p] = <<0, 0>>]
    /\ chunk' = [chunk EXCEPT ![p] = 0]
    /\ poss' = [poss EXCEPT ![p] = {}]
    /\ todo' = [todo EXCEPT ![p] = {}]
    /\ kept' = [kept EXCEPT ![p] = NoBin]

Exists(m) == bin["prod"][m] # NoBin \/ last["prod"][m] # 0 \/ m \in dels
Place(p, m) == IF m \in staged[p] THEN "stage" ELSE "prod"

-----------------------------------------------------------------------------
(* parseArguments, and process_freshen *)

\* Locks of production files are removed, whoever has them: none is ever found.
Begin(p, A) ==
    /\ pc[p] = "none"
    /\ "freshen" \in Commands
    /\ addrs' = [addrs EXCEPT ![p] = A]
    /\ staged' = [staged EXCEPT ![p] = {m \in A : bin["prod"][m] = NoBin}]
    /\ LET firsts == {IF Exists(m) THEN last["prod"][m] ELSE 0 : m \in A}
       IN  range' = [range EXCEPT ![p] = <<CHOOSE f \in firsts : \A g \in firsts : f <= g, nChunks>>]
    /\ chunk' = [chunk EXCEPT ![p] = 1]
    /\ Goto(p, "clean")
    /\ UNCHANGED <<index, disk, faults, poss, todo, kept>>

\* cleanMonitorStage: the whole folder.
CleanStage(p) ==
    /\ pc[p] = "clean"
    /\ bin' = [bin EXCEPT !["stage"] = [m \in Monitors |-> NoBin]]
    /\ last' = [last EXCEPT !["stage"] = [m \in Monitors |-> 0]]
    /\ Goto(p, "visit")
    /\ UNCHANGED <<index, dels, faults, locals>>

\* Mutant: a monitor without .last.txt is not looked at.
PossiblesVisited(p, c) ==
    {m \in addrs[p] : last["prod"][m] # 0 /\ last["prod"][m] < First(c)}

\* What is known of a monitor is read from production, staged or not.
Possibles(p, c) ==
    {m \in addrs[p] : last["prod"][m] = 0 \/ last["prod"][m] < First(c)}

Intersects(p, c) ==
    LET lastToVisit == IF range[p][2] = 0 THEN 1 ELSE Last(range[p][2])
    IN  ~ (lastToVisit < First(c) \/ range[p][1] > Last(c))

SkipChunk(p) ==
    /\ pc[p] = "visit"
    /\ chunk[p] <= range[p][2]
    /\ ~ Intersects(p, chunk[p]) \/ Possibles(p, chunk[p]) = {}
    /\ NextChunk(p)
    /\ UNCHANGED <<index, disk, faults, pc, addrs, staged, range, poss, todo, kept>>

\* The bloom filter: hitMap is what is left to do; nothing may be.
VisitChunk(p) ==
    LET S == Possibles(p, chunk[p])
    IN  /\ pc[p] = "visit"
        /\ chunk[p] <= range[p][2]
        /\ Intersects(p, chunk[p])
        /\ S # {}
        /\ poss' = [poss EXCEPT ![p] = S]
        /\ Loop(p, {m \in S : chunk[p] \in blooms[m]})
        /\ Goto(p, "scan")
        /\ UNCHANGED <<index, disk, faults, addrs, staged, range, chunk, kept>>

\* Mutant: the appearances replace those that were there.
ScanOver(p, m) ==
    /\ pc[p] = "scan"
    /\ m \in todo[p]
    /\ bin' = [bin EXCEPT ![Place(p, m)][m] =
                  [EmptyBin EXCEPT ![chunk[p]] = IF chunk[p] \in hits[m] THEN 1 ELSE 0]]
    /\ Done(p, m)
    /\ UNCHANGED <<index, last, dels, faults, pc, addrs, staged, range, chunk, poss, kept>>

\* openForWriting, and if the chunk has the address, writeMonitorArray appends.
Scan(p, m) ==
    LET old == IF bin[Place(p, m)][m] = NoBin THEN EmptyBin ELSE bin[Place(p, m)][m]
    IN  /\ pc[p] = "scan"
        /\ m \in todo[p]
        /\ bin' = [bin EXCEPT ![Place(p, m)][m] =
                      [old EXCEPT ![chunk[p]] = IF chunk[p] \in hits[m] THEN @ + 1 ELSE @]]
        /\ Done(p, m)
        /\ UNCHANGED <<index, last, dels, faults, pc, addrs, staged, range, chunk, poss, kept>>

ScanDone(p) ==
    /\ pc[p] = "scan"
    /\ todo[p] = {}
    /\ Loop(p, poss[p])
    /\ Goto(p, "lasts")
    /\ UNCHANGED <<index, disk, faults, addrs, staged, range, chunk, poss, kept>>

\* writeMonitorLastBlock
WriteLast(p, m) ==
    /\ pc[p] = "lasts"
    /\ m \in todo[p]
    /\ last' = [last EXCEPT ![Place(p, m)][m] = Last(chunk[p]) + 1]
    /\ Done(p, m)
    /\ UNCHANGED <<index, bin, dels, faults, pc, addrs, staged, range, chunk, poss, kept>>

LastsDone(p) ==
    /\ pc[p] = "lasts"
    /\ todo[p] = {}
    /\ NextChunk(p)
    /\ Goto(p, "visit")
    /\ UNCHANGED <<index, disk, faults, addrs, staged, range, poss, todo, kept>>

VisitsDone(p) ==
    /\ pc[p] = "visit"
    /\ chunk[p] > range[p][2]
    /\ Loop(p, staged[p])
    /\ Goto(p, "move")
    /\ UNCHANGED <<index, disk, faults, addrs, staged, range, chunk, poss, kept>>

\* doMoveFile: a file that is not there is not moved.  The possibles are not needed
\* any more: poss is the monitor that is being moved.
MoveBin(p, m) ==
    /\ pc[p] = "move"
    /\ m \in todo[p]
    /\ bin' = IF bin["stage"][m] = NoBin THEN bin
              ELSE [bin EXCEPT !["prod"][m] = bin["stage"][m], !["stage"][m] = NoBin]
    /\ poss' = [poss EXCEPT ![p] = {m}]
    /\ Goto(p, "moveLast")
    /\ UNCHANGED <<index, last, dels, faults, addrs, staged, range, chunk, todo, kept>>

\* Mutant: only the appearances are moved.
MoveLastNever(p, m) ==
    /\ pc[p] = "moveLast"
    /\ poss[p] = {m}
    /\ Done(p, m)
    /\ Goto(p, "move")
    /\ UNCHANGED <<index, disk, faults, addrs, staged, range, chunk, poss, kept>>

MoveLast(p, m) ==
    /\ pc[p] = "moveLast"
    /\ poss[p] = {m}
    /\ last' = IF last["stage"][m] = 0 THEN last
               ELSE [last EXCEPT !["prod"][m] = last["stage"][m], !["stage"][m] = 0]
    /\ Done(p, m)
    /\ Goto(p, "move")
    /\ UNCHANGED <<index, bin, dels, faults, addrs, staged, range, chunk, poss, kept>>

Freshened(p) ==
    /\ pc[p] = "move"
    /\ todo[p] = {}
    /\ Ends(p)
    /\ UNCHANGED <<index, disk, faults>>

-----------------------------------------------------------------------------
(* process_clean, process_rm *)

\* Each record that differs from the one before is kept, the first from 0.0.
Deduped(m) ==
    [c \in Chunks |-> IF bin["prod"][m][c] = 0 \/ (c = 1 /\ m \in Prefund) THEN 0 ELSE 1]

\* The appearances are loaded, sorted and the copies dropped...
CleanRead(p, m) ==
    /\ pc[p] = "none"
    /\ "clean" \in Commands
    /\ bin["prod"][m] \notin {NoBin, EmptyBin}
    /\ kept' = [kept EXCEPT ![p] = Deduped(m)]
    /\ Loop(p, {m})
    /\ Goto(p, "cleanOpen")
    /\ UNCHANGED <<index, disk, faults, addrs, staged, range, chunk, poss>>

\* ...the file is opened with modeWriteCreate, which empties it...
CleanOpen(p, m) ==
    /\ pc[p] = "cleanOpen"
    /\ m \in todo[p]
    /\ bin' = [bin EXCEPT !["prod"][m] = EmptyBin]
    /\ Goto(p, "cleanWrite")
    /\ UNCHANGED <<index, last, dels, faults, locals>>

\* ...and they are written.
CleanWrite(p, m) ==
    /\ pc[p] = "cleanWrite"
    /\ m \in todo[p]
    /\ bin' = [bin EXCEPT !["prod"][m] = kept[p]]
    /\ Ends(p)
    /\ UNCHANGED <<index, last, dels, faults>>

Delete(p, m) ==
    /\ pc[p] = "none"
    /\ "delete" \in Commands
    /\ Exists(m) /\ m \notin dels
    /\ dels' = dels \cup {m}
    /\ UNCHANGED <<index, bin, last, faults, pc, locals>>

Undelete(p, m) ==
    /\ pc[p] = "none"
    /\ "undelete" \in Commands
    /\ m \in dels
    /\ dels' = dels \ {m}
    /\ UNCHANGED <<index, bin, last, faults, pc, locals>>

\* removeMonitor: one file after the other.
Remove(p, m) ==
    /\ pc[p] = "none"
    /\ "remove" \in Commands
    /\ m \in dels
    /\ bin' = [bin EXCEPT !["prod"][m] = NoBin]
    /\ Loop(p, {m})
    /\ Goto(p, "rmLast")
    /\ UNCHANGED <<index, last, dels, faults, addrs, staged, range, chunk, poss, kept>>

RemoveLast(p, m) ==
    /\ pc[p] = "rmLast"
    /\ m \in todo[p]
    /\ last' = [last EXCEPT !["prod"][m] = 0]
    /\ Goto(p, "rmDels")
    /\ UNCHANGED <<index, bin, dels, faults, locals>>

RemoveDels(p, m) ==
    /\ pc[p] = "rmDels"
    /\ m \in todo[p]
    /\ dels' = dels \ {m}
    /\ Ends(p)
    /\ UNCHANGED <<index, bin, last, faults>>

-----------------------------------------------------------------------------
(* Surroundings *)

Fault(kind) ==
    /\ kind \in FaultKinds
    /\ faults < MaxFaults
    /\ faults' = faults + 1

KillKind(label) ==
    CASE label \in {"cleanOpen", "cleanWrite"} -> "killclean"
      [] label \in {"rmLast", "rmDels"} -> "killremove"
      [] OTHER -> "kill"

\* A kill, or the first Ctrl-C: quickQuitHandler exits even in a locked section.
Kill(p) ==
    /\ pc[p] # "none"
    /\ Fault(KillKind(pc[p]))
    /\ Ends(p)
    /\ UNCHANGED <<index, disk>>

\* A chunk cannot be had or read, or a monitor not be opened (in between, its file is
\* created): no more chunks are visited, and what is staged is moved all the same.
VisitFails(p) ==
    /\ pc[p] = "scan"
    /\ todo[p] # {}
    /\ Fault("fail")
    /\ \/ UNCHANGED bin
       \/ \E m \in todo[p] : bin[Place(p, m)][m] = NoBin
                            /\ bin' = [bin EXCEPT ![Place(p, m)][m] = EmptyBin]
    /\ Loop(p, staged[p])
    /\ Goto(p, "move")
    /\ UNCHANGED <<index, last, dels, addrs, staged, range, chunk, poss, kept>>

\* blockScrape consolidates.
NewChunk ==
    /\ nChunks < MaxChunks
    /\ nChunks' = nChunks + 1
    /\ UNCHANGED <<hits, blooms, disk, faults, pc, locals>>

Freshen(p) ==
    \/ CleanStage(p) \/ SkipChunk(p) \/ VisitChunk(p) \/ ScanDone(p) \/ LastsDone(p)
    \/ VisitsDone(p) \/ Freshened(p)
    \/ \E m \in Monitors : Scan(p, m) \/ WriteLast(p, m) \/ MoveBin(p, m) \/ MoveLast(p, m)

CleanOrRemove(p) ==
    \E m \in Monitors : CleanOpen(p, m) \/ CleanWrite(p, m) \/ RemoveLast(p, m) \/ RemoveDels(p, m)

Start(p) ==
    \/ \E A \in (SUBSET Monitors) \ {{}} : Begin(p, A)
    \/ \E m \in Monitors : CleanRead(p, m) \/ Delete(p, m) \/ Undelete(p, m) \/ Remove(p, m)

Next ==
    \/ NewChunk
    \/ \E p \in Procs : Start(p) \/ Freshen(p) \/ CleanOrRemove(p) \/ Kill(p) \/ VisitFails(p)

Spec == Init /\ [][Next]_vars

\* Chunks are made, processes are scheduled, and all monitors are exported now and then.
Fairness ==
    /\ WF_vars(NewChunk)
    /\ \A p \in Procs : WF_vars(Freshen(p) \/ CleanOrRemove(p)) /\ SF_vars(Begin(p, Monitors))

FairSpec == Spec /\ Fairness

-----------------------------------------------------------------------------
(* Properties *)

TypeOK ==
    /\ nChunks \in 0 .. MaxChunks
    /\ hits \in [Monitors -> SUBSET Chunks] /\ blooms \in [Monitors -> SUBSET Chunks]
    /\ bin \in [{"prod", "stage"} -> [Monitors -> Bins]]
    /\ last \in [{"prod", "stage"} -> [Monitors -> 0 .. Last(MaxChunks) + 1]]
    /\ dels \subseteq Monitors
    /\ faults \in 0 .. MaxFaults
    /\ pc \in [Procs -> {"none", "clean", "visit", "scan", "lasts", "move", "moveLast",
                         "cleanOpen", "cleanWrite", "rmLast", "rmDels"}]
    /\ addrs \in [Procs -> SUBSET Monitors] /\ staged \in [Procs -> SUBSET Monitors]
    /\ range \in [Procs -> (0 .. Last(MaxChunks) + 1) \X (0 .. MaxChunks)]
    /\ chunk \in [Procs -> 0 .. MaxChunks + 1]
    /\ poss \in [Procs -> SUBSET Monitors] /\ todo \in [Procs -> SUBSET Monitors]
    /\ kept \in [Procs -> Bins]

Rewritten(m) == \E p \in Procs : m \in todo[p] /\ pc[p] \in {"cleanWrite", "rmLast"}
Holds(m, c) == bin["prod"][m] # NoBin /\ bin["prod"][m][c] > 0

\* The contract of .last.txt, "the next block": every appearance before it is in the
\* monitor.  The code does not keep this: README, section 5.
Complete ==
    \A m \in Monitors, c \in Chunks :
        c \in hits[m] /\ Last(c) < last["prod"][m] /\ ~ Rewritten(m) => Holds(m, c)

\* Cleaning drops the record 0.0, which it takes for the one before the first.
Dropped(m, c) == c = 1 /\ m \in Prefund /\ "clean" \in Commands
Found(m, c) == c \in hits[m] => Holds(m, c) \/ Dropped(m, c)

\* What the code keeps of it, whatever was killed, failed, cleaned, removed or moved on
\* the way: the chunk that begins at .last.txt is passed over, but never the first one
\* and never two that follow each other.
MissesNoTwo ==
    \A m \in Monitors, c \in Chunks :
        Last(c) < last["prod"][m] /\ ~ Rewritten(m) =>
            Found(m, c) \/ (c > 1 /\ Found(m, c - 1))

\* No appearance is found that the index does not have, whatever fails, and without
\* faults none twice; every variable has its type.
Exact ==
    /\ TypeOK
    /\ \A m \in Monitors, c \in Chunks : Holds(m, c) =>
          c \in hits[m] /\ (faults = 0 => bin["prod"][m][c] = 1)

\* However often it is killed or fails, exporting again and again brings every monitor
\* to the end of the index, but for the chunk that is passed over if it is the last one.
CatchesUp == \A m \in Monitors : []<>(last["prod"][m] >= First(MaxChunks))
=============================================================================
