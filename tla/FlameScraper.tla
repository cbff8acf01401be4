---------------------------- MODULE FlameScraper ----------------------------
(***************************************************************************)
(* A scraper of flame: a goroutine that runs blockScrape, or acctExport    *)
(* for one monitor after the other, while it is turned on.  The handlers   *)
(* of HTTP requests turn it on and off and write that to a file, which a   *)
(* restarted server reads.                                                 *)
(***************************************************************************)
EXTENDS Integers

CONSTANTS Handlers,      \* requests that may be handled at the same time
          MaxCmds,       \* commands of a pass: 1, or as many as there are monitors
          SleepHalves,   \* SleepSecs * 2
          MaxRestarts,   \* bound: kills of the server
          MaxToggles     \* bound: toggles

FlameConstants ==
    /\ MaxCmds \in Nat /\ SleepHalves \in Nat /\ MaxRestarts \in Nat /\ MaxToggles \in Nat

VARIABLES
    Running, WasRunning,   \* fields of the Scraper
    file,                  \* tmp/<name>.txt
    loop,                  \* where its goroutine is
    state,                 \* what Pause saw when it began
    left,                  \* half seconds, or commands, that are left
    passes,                \* Counter, modulo 2
    handler, mode,         \* where each handler is, and what it was asked
    restarts, toggles

env == <<restarts, toggles>>
loopVars == <<WasRunning, loop, state, left, passes>>
vars == <<Running, file, loopVars, handler, mode, env>>

Init ==
    /\ file \in BOOLEAN
    /\ Running = file /\ WasRunning = FALSE
    /\ loop = "check" /\ state = FALSE /\ left = 0 /\ passes = 0
    /\ handler = [h \in Handlers |-> "none"]
    /\ mode = [h \in Handlers |-> FALSE]
    /\ restarts = 0 /\ toggles = 0

-----------------------------------------------------------------------------
(* RunIndexScraper, RunMonitorScraper *)

\* Mutant: WasRunning is not reset.
CheckOffSilently ==
    /\ loop = "check" /\ ~ Running
    /\ loop' = "pause"
    /\ UNCHANGED <<Running, file, WasRunning, state, left, passes, handler, mode, env>>

CheckOff ==
    /\ loop = "check" /\ ~ Running
    /\ WasRunning' = FALSE
    /\ loop' = "pause"
    /\ UNCHANGED <<Running, file, state, left, passes, handler, mode, env>>

CheckOn ==
    /\ loop = "check" /\ Running
    /\ WasRunning' = TRUE
    /\ passes' = (passes + 1) % 2
    /\ left' = MaxCmds
    /\ loop' = "command"
    /\ UNCHANGED <<Running, file, state, handler, mode, env>>

\* Before each command the scraper looks whether it was turned off.
RunCommand ==
    /\ loop = "command" /\ left > 0 /\ Running
    /\ left' = left - 1
    /\ UNCHANGED <<Running, file, WasRunning, loop, state, passes, handler, mode, env>>

CommandsDone ==
    /\ loop = "command"
    /\ left = 0 \/ ~ Running
    /\ loop' = IF Running THEN "pause" ELSE "check"
    /\ UNCHANGED <<Running, file, WasRunning, state, left, passes, handler, mode, env>>

\* Pause
PauseBegins ==
    /\ loop = "pause"
    /\ state' = Running
    /\ left' = SleepHalves
    /\ loop' = "sleep"
    /\ UNCHANGED <<Running, file, WasRunning, passes, handler, mode, env>>

SleepHalf ==
    /\ loop = "sleep" /\ left > 0 /\ state = Running
    /\ left' = left - 1
    /\ UNCHANGED <<Running, file, WasRunning, loop, state, passes, handler, mode, env>>

PauseOver ==
    /\ loop = "sleep"
    /\ left = 0 \/ state # Running
    /\ loop' = "check"
    /\ UNCHANGED <<Running, file, WasRunning, state, left, passes, handler, mode, env>>

-----------------------------------------------------------------------------
(* ManageScraper, ChangeState, and the server's restart *)

SetRunning(h, on) ==
    /\ handler[h] = "none"
    /\ toggles < MaxToggles
    /\ toggles' = toggles + 1
    /\ Running' = on
    /\ handler' = [handler EXCEPT ![h] = "write"]
    /\ mode' = [mode EXCEPT ![h] = on]
    /\ UNCHANGED <<file, loopVars, restarts>>

\* Mutant: the file is left alone.
WriteNoState(h) ==
    /\ handler[h] = "write"
    /\ handler' = [handler EXCEPT ![h] = "none"]
    /\ UNCHANGED <<Running, file, loopVars, mode, env>>

WriteState(h) ==
    /\ handler[h] = "write"
    /\ file' = mode[h]
    /\ handler' = [handler EXCEPT ![h] = "none"]
    /\ UNCHANGED <<Running, loopVars, mode, env>>

\* NewScraper: LoadStateFromCache.
Restart ==
    /\ restarts < MaxRestarts
    /\ restarts' = restarts + 1
    /\ Running' = file /\ WasRunning' = FALSE
    /\ loop' = "check" /\ state' = FALSE /\ left' = 0 /\ passes' = 0
    /\ handler' = [h \in Handlers |-> "none"]
    /\ UNCHANGED <<file, mode, toggles>>

ScraperStep ==
    \/ CheckOff \/ CheckOn \/ RunCommand \/ CommandsDone
    \/ PauseBegins \/ SleepHalf \/ PauseOver

Next ==
    \/ ScraperStep
    \/ \E h \in Handlers : (\E on \in BOOLEAN : SetRunning(h, on)) \/ WriteState(h)
    \/ Restart

Spec == Init /\ [][Next]_vars

\* The goroutine is scheduled, commands end, and so does a request.
FairSpec == Spec /\ WF_vars(ScraperStep) /\ \A h \in Handlers : WF_vars(WriteState(h))

-----------------------------------------------------------------------------
(* Properties *)

TypeOK ==
    /\ Running \in BOOLEAN /\ WasRunning \in BOOLEAN /\ file \in BOOLEAN /\ state \in BOOLEAN
    /\ loop \in {"check", "command", "pause", "sleep"}
    /\ left \in 0 .. (IF MaxCmds > SleepHalves THEN MaxCmds ELSE SleepHalves)
    /\ passes \in 0 .. 1
    /\ handler \in [Handlers -> {"none", "write"}] /\ mode \in [Handlers -> BOOLEAN]
    /\ restarts \in 0 .. MaxRestarts /\ toggles \in 0 .. MaxToggles

\* "the user will tell us to turn them on": what a restarted server would do is what
\* the last request said, once no request is under way.
Persisted == (\A h \in Handlers : handler[h] = "none") => file = Running

\* A scraper that stays on makes pass after pass, wherever the toggle met it.
KeepsPassing == <>[]Running => []<>(passes = 0) /\ []<>(passes = 1)

\* A scraper that stays off comes to rest, and shows it.
ComesToRest == <>[](~ Running) => <>[](~ WasRunning)
=============================================================================
