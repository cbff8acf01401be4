------------------------------- MODULE GoApps -------------------------------
(***************************************************************************)
(* The Go programs side by side: blaze, whose module this one extends,     *)
(* flame's scrapers, flame's websockets and acctScrape2.  They share no    *)
(* state; part names the one that runs.                                    *)
(***************************************************************************)
EXTENDS BlazePipeline, Sequences

CONSTANTS
    Handlers, MaxCmds, SleepHalves, MaxRestarts, MaxToggles,   \* of FlameScraper
    Conns, Jobs, MaxLines, PipeSize, Faults,                   \* of Websockets
    N, MaxTasks, Bad                                           \* of AcctScrape2

VARIABLES
    part,
    Running, WasRunning, file, loop, state, halves, passes, handler, mode, restarts, toggles,
    connections, todo, sent, writer, closed, broken, held, since, got, job, lines, pipe, reader,
    pc, info, count, left, tasks, wg, channel, out

Flame == INSTANCE FlameScraper WITH left <- halves
Sockets == INSTANCE Websockets
Search == INSTANCE AcctScrape2

ASSUME GoConstants ==
    Flame!FlameConstants /\ Sockets!WebsocketsConstants /\ Search!AcctScrape2Constants

-----------------------------------------------------------------------------
(* What the modules promise, of whichever part runs *)

\* scraper.go: a restarted server does what the last request said.
Persisted == Flame!TypeOK /\ Flame!Persisted

\* pool.run, Connection.write: who listens gets every message, once and in order, and
\* nothing is sent on a channel that was closed.
InOrder == Sockets!TypeOK /\ Sockets!NeverSendsOnClosed /\ Sockets!InOrder

\* Execute of acctScrape2: what is found in a chunk is printed once, and that of all;
\* its counters of goroutines count what they are meant to.
PrintedOnce == Search!PrintedOnce /\ (part = "search" => Search!TypeOK)
=============================================================================
