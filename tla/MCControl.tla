----------------------------- MODULE MCControl ------------------------------
(***************************************************************************)
(* How a scraper is started and stopped, for TLC.  A behaviour of this     *)
(* module is one of the control file or one of the critical sections, the  *)
(* part; the other stays as it began.                                      *)
(***************************************************************************)
EXTENDS Control

CONSTANTS p1, p2

VARIABLE part

all == <<part, vars, sections>>

ControlInit ==
    /\ part \in {"control", "sections"}
    /\ Init /\ Quit!Init
    /\ part = "control" => ~ bad

ControlNext ==
    /\ UNCHANGED part
    /\ \/ part = "control" /\ Next /\ UNCHANGED sections
       \/ part = "sections" /\ Quit!Next /\ UNCHANGED vars

\* The fairness of each part, as its module states it.
ControlFairSpec ==
    /\ ControlInit /\ [][ControlNext]_all
    /\ \A p \in Procs :
          /\ WF_vars(part = "control" /\ (Command(p) \/ Scraper(p)))
          /\ SF_vars(part = "control" /\ SleepOver(p))
    /\ WF_sections(part = "sections" /\ Quit!Step)
    /\ SF_sections(part = "sections" /\ Quit!EndOfFolder)
    /\ SF_sections(part = "sections" /\ Quit!EndOfChunks)

-----------------------------------------------------------------------------
\* changeState, main: a scraper whose control file is gone, or that was signalled, ends,
\* through pauses, exports and sleeps.
StopsWhenTold == QuitObeyed /\ SignalObeyed

\* defaultQuitHandler: as long as every record of the stage is well formed, one Ctrl-C
\* at any moment ends the scraper.
CtrlCIsHeard == ~ bad => Quit!CtrlCIsHeard
=============================================================================
