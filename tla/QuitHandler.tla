----------------------------- MODULE QuitHandler -----------------------------
(***************************************************************************)
(* Ctrl-C in the block scraper: the counter of quit requests, the counter  *)
(* of nested critical sections, and the control flow of a pass as far as   *)
(* it locks, unlocks and asks whether to quit.                             *)
(*                                                                         *)
(* A request that arrives while another one is pending and a section is    *)
(* locked is ignored, and so is the pending one itself; the third that     *)
(* counts ends the process on the spot.                                    *)
(***************************************************************************)
EXTENDS Integers

CONSTANTS MaxSignals,   \* bound: how often the user presses Ctrl-C
          MaxLocks,     \* bound on sectionLocks: it stays there
          Malformed     \* the stage may hold a record without two tabs

QuitConstants ==
    /\ MaxSignals \in Nat /\ MaxLocks \in Nat \ {0, 1, 2} /\ Malformed \in BOOLEAN

VARIABLES pc, sectionLocks, g_QuitCount, signals,
          bad   \* the stage holds such a record: it stays there

vars == <<pc, sectionLocks, g_QuitCount, signals, bad>>

\* Where a step of the scraper may be cut short without harm, and where not.
Open == {"main", "scan", "staging", "while", "index", "sleep"}
Sections == {"copy", "rename", "cut", "bloom", "bloomFile", "chunkFile",
             "pin", "pinsFile", "rewrite"}

Init ==
    /\ pc = "main" /\ sectionLocks = 0 /\ g_QuitCount = 0 /\ signals = 0
    /\ bad \in {FALSE, Malformed}

lockSection == sectionLocks' = IF sectionLocks < MaxLocks THEN sectionLocks + 1
                                                          ELSE sectionLocks

unlockSectionFlat == sectionLocks' = 0

unlockSection == sectionLocks' = IF sectionLocks > 0 THEN sectionLocks - 1 ELSE 0

isSectionLocked == sectionLocks > 0

\* What quitCount(s) returns; it adds s unless it returns 0 for the lock.
ignored == g_QuitCount > 0 /\ isSectionLocked

quitCount(s) == IF ignored THEN 0 ELSE g_QuitCount + s

shouldQuitAtThird == quitCount(0) > 2

shouldQuit == quitCount(0) # 0

\* A signal is delivered between any two steps of the scraper.
DefaultQuitHandler ==
    /\ pc # "exit" /\ signals < MaxSignals
    /\ signals' = signals + 1
    /\ g_QuitCount' = IF ignored THEN g_QuitCount ELSE g_QuitCount + 1
    /\ pc' = IF quitCount(1) > 2 THEN "exit" ELSE pc
    /\ UNCHANGED <<sectionLocks, bad>>

Move(from, to) ==
    /\ pc = from /\ pc' = to
    /\ UNCHANGED <<g_QuitCount, signals, bad>>

Stay == UNCHANGED sectionLocks

MainLoop ==
    \/ ~shouldQuit /\ Move("main", "scan") /\ Stay
    \/ ~shouldQuit /\ Move("main", "sleep") /\ Stay     \* paused
    \/ shouldQuit /\ Move("main", "exit") /\ Stay
    \/ ~shouldQuit /\ Move("main", "exit") /\ Stay      \* STATE_STOPPED, once

EndOfFolder == Move("scan", "sleep") /\ Stay
EndOfChunks == Move("while", "sleep") /\ Stay

\* copyRipeToStage: one ripe file, then perhaps the next, a snap to the grid
\* (stage_chunks and write_chunks), the end of the folder, or a failure.
CopyRipe ==
    \/ Move("scan", "copy") /\ lockSection
    \/ Move("copy", "scan") /\ unlockSection
    \/ Move("scan", "staging") /\ Stay
    \/ EndOfFolder
    \/ shouldQuit /\ Move("while", "scan") /\ Stay      \* at a snap

StageChunks ==
    \/ Move("staging", "rename") /\ lockSection
    \/ Move("rename", "while") /\ unlockSection
    \/ Move("staging", "sleep") /\ Stay

\* write_chunks: the while, and the check of the records that gives up.
WriteChunksWhile ==
    \/ ~shouldQuit /\ Move("while", "cut") /\ lockSection
    \/ shouldQuit /\ Move("while", "sleep") /\ Stay
    \/ EndOfChunks
    \/ bad /\ Move("cut", "sleep") /\ Stay              \* EXIT_NOMSG(false)
    \/ Move("cut", "index") /\ Stay                    \* none in this chunk

\* writeIndexAsBinary, called inside the section of write_chunks, and
\* writeBloomToBinary, called inside its own.
WriteIndexAsBinary ==
    \/ Move("index", "bloom") /\ lockSection
    \/ Move("bloom", "bloomFile") /\ lockSection
    \/ Move("bloomFile", "chunkFile") /\ unlockSection
    \/ Move("chunkFile", "pin") /\ unlockSection

\* visitToPin when pinning is on, then the stage is rewritten.
PinAndRewrite ==
    \/ Move("pin", "pinsFile") /\ lockSection
    \/ Move("pinsFile", "rewrite") /\ unlockSection
    \/ Move("pin", "rewrite") /\ Stay
    \/ Move("rewrite", "while") /\ unlockSection

\* The time is up, the state in the control file has changed, or shouldQuit.
Sleep == Move("sleep", "main") /\ Stay

Exited == pc = "exit" /\ UNCHANGED vars

Step == MainLoop \/ CopyRipe \/ StageChunks \/ WriteChunksWhile
          \/ WriteIndexAsBinary \/ PinAndRewrite \/ Sleep

Next == DefaultQuitHandler \/ Step \/ Exited

Spec == Init /\ [][Next]_vars

\* The scraper keeps running, its folder of ripe files has an end, and so do
\* the chunks of a stage.
FairSpec == Spec /\ WF_vars(Step) /\ SF_vars(EndOfFolder) /\ SF_vars(EndOfChunks)

-----------------------------------------------------------------------------
\* Every variable has its type.
TypeOK ==
    /\ pc \in Open \cup Sections \cup {"exit"}
    /\ sectionLocks \in 0..MaxLocks
    /\ g_QuitCount \in 0..MaxSignals /\ signals \in 0..MaxSignals
    /\ bad \in BOOLEAN

\* "disallow control+c": however often the user presses Ctrl-C and however the
\* sections nest, the process is never ended inside write_chunks' section or
\* another one, with the bloom written and not the chunk, or the chunk and not
\* the stage.
NeverCutsASection ==
    [][pc' = "exit" => pc \notin Sections \cup {"index"}]_vars

\* "Check for user input control+C at each pass": one Ctrl-C and the scraper
\* finishes what it is doing and ends.
CtrlCIsHeard == (signals > 0) ~> (pc = "exit")
=============================================================================
