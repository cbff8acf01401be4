--------------------------- MODULE ScraperControl ---------------------------
(***************************************************************************)
(* How blockScrape is started, paused and stopped: every invocation is a   *)
(* process of its own, and they talk through tmp/scraper-state.txt.  The   *)
(* invocation that finds the file missing and was asked to run becomes the *)
(* scraper; all others change the file, or not, and end.                   *)
(***************************************************************************)
EXTENDS Integers

CONSTANTS Procs,        \* slots for invocations of blockScrape
          Modes,        \* what they are invoked with
          FaultKinds,   \* the faults of this instance
          MaxFaults     \* bound: how many of them happen

ASSUME ControlConstants ==
    /\ Modes \subseteq {"run", "quit", "pause", "restart"}
    /\ FaultKinds \subseteq {"signal", "kill", "export"}
    /\ MaxFaults \in Nat

\* getCurrentState: a missing file reads as stopped.
States == {"stopped", "running", "paused"}

VARIABLES
    file,        \* the control file
    exporting,   \* isRunning("acctExport")
    faults,
    pc,          \* where each process is; "none": it does not exist
    mode,        \* --mode of its invocation
    once,        \* --once
    seen,        \* options.state
    prev,        \* prevState of the sleep loop
    quit,        \* its quit count
    misled       \* history: a run ended as if the scraper ran, and none did

env == <<exporting, faults>>
locals == <<mode, once, seen, prev, quit>>
vars == <<file, env, pc, locals, misled>>

Starting == {"amIRunning", "export", "read", "act"}
Scraping == {"start", "loop", "pass", "sleep", "tick", "cleanup"}

Init ==
    /\ file = "stopped"
    /\ exporting = FALSE
    /\ faults = 0
    /\ pc = [p \in Procs |-> "none"]
    /\ mode = [p \in Procs |-> "run"]
    /\ once = [p \in Procs |-> FALSE]
    /\ seen = [p \in Procs |-> "stopped"]
    /\ prev = [p \in Procs |-> "stopped"]
    /\ quit = [p \in Procs |-> 0]
    /\ misled = FALSE

Goto(p, label) == pc' = [pc EXCEPT ![p] = label]

\* The process ends: nothing of its memory is left.
Ends(p) ==
    /\ Goto(p, "none")
    /\ mode' = [mode EXCEPT ![p] = "run"]
    /\ once' = [once EXCEPT ![p] = FALSE]
    /\ seen' = [seen EXCEPT ![p] = "stopped"]
    /\ prev' = [prev EXCEPT ![p] = "stopped"]
    /\ quit' = [quit EXCEPT ![p] = 0]

IsScraping(p) == pc[p] \in Scraping

-----------------------------------------------------------------------------
(* parseArguments *)

Invoke(p, m, o) ==
    /\ pc[p] = "none"
    /\ m = "run" \/ ~ o
    /\ Goto(p, "amIRunning")
    /\ mode' = [mode EXCEPT ![p] = m]
    /\ once' = [once EXCEPT ![p] = o]
    /\ UNCHANGED <<file, env, seen, prev, quit, misled>>

\* Mutant: one other process of that name is taken for ourselves.
AmIRunningTwice(p) ==
    /\ pc[p] = "amIRunning"
    /\ IF mode[p] = "run" /\ \E q, r \in Procs \ {p} : q # r /\ pc[q] # "none" /\ pc[r] # "none"
       THEN Ends(p)
       ELSE Goto(p, "export") /\ UNCHANGED locals
    /\ UNCHANGED <<file, env, misled>>

\* A run ends if any other blockScrape is in the list of processes.
AmIRunning(p) ==
    /\ pc[p] = "amIRunning"
    /\ IF mode[p] = "run" /\ \E q \in Procs \ {p} : pc[q] # "none"
       THEN Ends(p)
       ELSE Goto(p, "export") /\ UNCHANGED locals
    /\ UNCHANGED <<file, env, misled>>

\* No command is obeyed while acctExport runs.
IsExporting(p) ==
    /\ pc[p] = "export"
    /\ IF exporting THEN Ends(p) ELSE Goto(p, "read") /\ UNCHANGED locals
    /\ UNCHANGED <<file, env, misled>>

\* changeState: read the file...
ReadState(p) ==
    /\ pc[p] = "read"
    /\ seen' = [seen EXCEPT ![p] = file]
    /\ Goto(p, "act")
    /\ UNCHANGED <<file, env, mode, once, prev, quit, misled>>

\* ...and start: the control file is on the list of files to remove.
StartScraper(p) ==
    /\ pc[p] = "act"
    /\ seen[p] = "stopped" /\ mode[p] = "run"
    /\ file' = "running"
    /\ seen' = [seen EXCEPT ![p] = "running"]
    /\ Goto(p, "start")
    /\ UNCHANGED <<env, mode, once, prev, quit, misled>>

\* What a command leaves in the file, given what it read.
NewState(state, cmd) ==
    CASE cmd = "quit" -> "stopped"
      [] state = "running" /\ cmd = "pause" -> "paused"
      [] state = "paused" /\ cmd \in {"restart", "run"} -> "running"
      [] OTHER -> state

\* ...or write what the command says, if it changes anything, and end.
ChangeState(p) ==
    LET new == NewState(seen[p], mode[p])
    IN  /\ pc[p] = "act"
        /\ ~ (seen[p] = "stopped" /\ mode[p] = "run")
        /\ file' = IF new = seen[p] THEN file ELSE new
        /\ misled' = (misled \/ (mode[p] = "run" /\ ~ \E q \in Procs : IsScraping(q)))
        /\ Ends(p)
        /\ UNCHANGED env

-----------------------------------------------------------------------------
(* The loop of main *)

EnterMain(p) ==
    /\ pc[p] = "start"
    /\ seen' = [seen EXCEPT ![p] = file]
    /\ Goto(p, "loop")
    /\ UNCHANGED <<file, env, mode, once, prev, quit, misled>>

\* shouldQuit removes the files on the list when it returns true.
Loop(p) ==
    /\ pc[p] = "loop"
    /\ IF seen[p] = "stopped" \/ quit[p] > 0
       THEN Goto(p, "cleanup")
       ELSE Goto(p, IF exporting \/ seen[p] = "paused" THEN "sleep" ELSE "pass")
    /\ file' = IF seen[p] # "stopped" /\ quit[p] > 0 THEN "stopped" ELSE file
    /\ prev' = [prev EXCEPT ![p] = seen[p]]
    /\ UNCHANGED <<env, mode, once, seen, quit, misled>>

\* A pass of scrape_blocks, which may ask shouldQuit itself.
Pass(p) ==
    /\ pc[p] = "pass"
    /\ file' \in {file} \cup (IF quit[p] > 0 THEN {"stopped"} ELSE {})
    /\ Goto(p, IF once[p] THEN "cleanup" ELSE "sleep")
    /\ UNCHANGED <<env, locals, misled>>

\* Paused, and --once: the loop is left without a pass.
SkipOnce(p) ==
    /\ pc[p] = "sleep"
    /\ once[p]
    /\ Goto(p, "cleanup")
    /\ UNCHANGED <<file, env, locals, misled>>

\* Mutant: the file is not read again.
SleepBlindly(p) ==
    /\ pc[p] = "sleep"
    /\ ~ once[p]
    /\ quit[p] = 0
    /\ Goto(p, "tick")
    /\ UNCHANGED <<file, env, mode, once, seen, prev, quit, misled>>

\* Half a second, then the state is read again.
Sleep(p) ==
    /\ pc[p] = "sleep"
    /\ ~ once[p]
    /\ quit[p] = 0
    /\ seen' = [seen EXCEPT ![p] = file]
    /\ Goto(p, "tick")
    /\ UNCHANGED <<file, env, mode, once, prev, quit, misled>>

\* The loop goes on while nothing changed, until the time is over.
SleepMore(p) ==
    /\ pc[p] = "tick"
    /\ seen[p] = prev[p]
    /\ Goto(p, "sleep")
    /\ UNCHANGED <<file, env, locals, misled>>

SleepOver(p) ==
    /\ pc[p] = "tick"
    /\ Goto(p, "loop")
    /\ UNCHANGED <<file, env, locals, misled>>

SleepQuit(p) ==
    /\ pc[p] = "sleep"
    /\ ~ once[p]
    /\ quit[p] > 0
    /\ file' = "stopped"
    /\ Goto(p, "loop")
    /\ UNCHANGED <<env, locals, misled>>

\* cleanupAndQuit: changeState with mode quit.
Cleanup(p) ==
    /\ pc[p] = "cleanup"
    /\ file' = "stopped"
    /\ Ends(p)
    /\ UNCHANGED <<env, misled>>

-----------------------------------------------------------------------------
(* Surroundings *)

Fault(kind) ==
    /\ kind \in FaultKinds
    /\ faults < MaxFaults
    /\ faults' = faults + 1
    /\ UNCHANGED exporting

\* defaultQuitHandler counts; the third time it removes the files and exits.
CtrlC(p) ==
    /\ IsScraping(p)
    /\ Fault("signal")
    /\ IF quit[p] < 2
       THEN /\ quit' = [quit EXCEPT ![p] = @ + 1]
            /\ UNCHANGED <<file, pc, mode, once, seen, prev>>
       ELSE file' = "stopped" /\ Ends(p)
    /\ UNCHANGED misled

Kill(p) ==
    /\ IsScraping(p)
    /\ Fault("kill")
    /\ Ends(p)
    /\ UNCHANGED <<file, misled>>

\* acctExport starts or ends; this is not bounded.
ExportToggles ==
    /\ "export" \in FaultKinds
    /\ exporting' = ~ exporting
    /\ UNCHANGED <<file, faults, pc, locals, misled>>

Command(p) ==
    \/ AmIRunning(p) \/ IsExporting(p) \/ ReadState(p)
    \/ StartScraper(p) \/ ChangeState(p)

Scraper(p) ==
    \/ EnterMain(p) \/ Loop(p) \/ Pass(p) \/ SkipOnce(p)
    \/ Sleep(p) \/ SleepMore(p) \/ SleepOver(p) \/ SleepQuit(p) \/ Cleanup(p)

Next ==
    \/ \E p \in Procs : \/ \E m \in Modes, o \in BOOLEAN : Invoke(p, m, o)
                        \/ Command(p) \/ Scraper(p) \/ CtrlC(p) \/ Kill(p)
    \/ ExportToggles

Spec == Init /\ [][Next]_vars

\* Every process is scheduled, and a sleep is over at some time.
FairSpec ==
    /\ Spec
    /\ \A p \in Procs : WF_vars(Command(p) \/ Scraper(p)) /\ SF_vars(SleepOver(p))

-----------------------------------------------------------------------------
(* Properties *)

TypeOK ==
    /\ file \in States
    /\ exporting \in BOOLEAN /\ misled \in BOOLEAN
    /\ faults \in 0 .. MaxFaults
    /\ pc \in [Procs -> {"none"} \cup Starting \cup Scraping]
    /\ mode \in [Procs -> {"run", "quit", "pause", "restart"}]
    /\ once \in [Procs -> BOOLEAN]
    /\ seen \in [Procs -> States] /\ prev \in [Procs -> States]
    /\ quit \in [Procs -> 0 .. 2]

\* "We shouldn't run if we're already running": two scrapers never share the index,
\* though the list of processes and the control file are read at different times.
OneScraper == \A p, q \in Procs : IsScraping(p) /\ IsScraping(q) => p = q

\* A quit that removed the file under a scraper stops it, wherever it was: the file
\* is read again in every sleep.  It needs that no second command is under way.
QuitObeyed == \A p \in Procs : (file = "stopped" /\ IsScraping(p)) ~> ~ IsScraping(p)

\* A signal stops the scraper too, paused or not, and takes the file along.
SignalObeyed ==
    \A p \in Procs : (quit[p] > 0) ~> (pc[p] = "none")

\* "It is possible to start and stop `chifra scrape` as needed": a run that finds no
\* scraper becomes one.
\* The code does not keep this: README, section 5.
StartsAsNeeded == ~ misled
=============================================================================
