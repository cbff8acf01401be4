------------------------------ MODULE MCGoApps ------------------------------
(***************************************************************************)
(* The Go programs for TLC: blaze, flame's scrapers, flame's websockets    *)
(* and acctScrape2.  They share no state, so a behaviour of this module is *)
(* one of a single program, the part; the others stay as they began.       *)
(***************************************************************************)
EXTENDS GoApps

CONSTANTS b1, b2, a1, a2, c1, c2, j1, h1

flame == <<Running, WasRunning, file, loop, state, halves, passes, handler, mode, restarts, toggles>>
sockets == <<connections, todo, sent, writer, closed, broken, held, since, got, job, lines,
             pipe, reader>>
search == <<pc, info, count, left, tasks, wg, channel, out>>
all == <<part, vars, flame, sockets, search>>

\* acctScrape2 where the fourth chunk cannot be read.
SearchBad == INSTANCE AcctScrape2 WITH MaxTasks <- 2, Bad <- {4}

ASSUME SearchBad!AcctScrape2Constants

GoInit ==
    /\ part \in {"blaze", "flame", "sockets", "search", "searchBad"}
    /\ Init /\ Flame!Init /\ Sockets!Init /\ Search!Init
    /\ part # "flame" => ~ file

GoNext ==
    /\ UNCHANGED part
    /\ \/ part = "blaze" /\ Next /\ UNCHANGED <<flame, sockets, search>>
       \/ part = "flame" /\ Flame!Next /\ UNCHANGED <<vars, sockets, search>>
       \/ part = "sockets" /\ Sockets!Next /\ UNCHANGED <<vars, flame, search>>
       \/ part = "search" /\ Search!Next /\ UNCHANGED <<vars, flame, sockets>>
       \/ part = "searchBad" /\ SearchBad!Next /\ UNCHANGED <<vars, flame, sockets>>

\* The fairness of each program, as its module states it.
GoFairSpec ==
    /\ GoInit /\ [][GoNext]_all
    /\ WF_vars(part = "blaze" /\ Work)
    /\ WF_flame(part = "flame" /\ Flame!ScraperStep)
    /\ \A h \in Handlers : WF_flame(part = "flame" /\ Flame!WriteState(h))
    /\ \A c \in Conns :
          /\ WF_sockets(part = "sockets" /\ Sockets!Write(c))
          /\ WF_sockets(part = "sockets" /\ Sockets!Send(c))
          /\ SF_sockets(part = "sockets" /\ Sockets!MeetPool(c))
    /\ \A j \in Jobs :
          /\ WF_sockets(part = "sockets" /\ Sockets!Child(j))
          /\ WF_sockets(part = "sockets" /\ Sockets!ScanLine(j))
          /\ WF_sockets(part = "sockets" /\ Sockets!Answer(j))
          /\ SF_sockets(part = "sockets" /\ Sockets!BroadcastProgress(j))
          /\ SF_sockets(part = "sockets" /\ Sockets!BroadcastError(j))
    /\ WF_search(part = "search" /\ Search!Execute)
    /\ WF_search(part = "searchBad" /\ SearchBad!Execute)
    /\ \A f \in 1 .. N :
          /\ WF_search(part = "search" /\ Search!Goroutine(f))
          /\ WF_search(part = "searchBad" /\ SearchBad!Goroutine(f))

-----------------------------------------------------------------------------
(* What the modules promise, of the part that runs *)

\* Both programs of goroutines and unbuffered channels come to an end: blaze's two
\* pools never wait for each other (scrape.go), and acctScrape2 neither for a result
\* that nobody sends nor for one that failed (Execute).
ProgramsEnd ==
    /\ part = "blaze" => BlazeEnds
    /\ part \in {"search", "searchBad"} => Search!Ends

\* RunIndexScraper, Pause: a scraper that stays on makes pass after pass, and one that
\* stays off comes to rest and shows it.
SwitchObeyed == part = "flame" => Flame!KeepsPassing /\ Flame!ComesToRest

\* CallOneExtra: as long as no connection breaks, every command is answered.
Answered == Sockets!Answered
=============================================================================
