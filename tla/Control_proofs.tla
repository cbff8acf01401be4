--------------------------- MODULE Control_proofs ---------------------------
(***************************************************************************)
(* How a scraper is started and stopped: at most one at a time, for any    *)
(* number of invocations and faults, and none ended inside a critical      *)
(* section, for any number of signals.                                     *)
(***************************************************************************)
EXTENDS Control, TLAPS

-----------------------------------------------------------------------------
(* One scraper *)

\* A process that is, or may still become, the scraper.
Admitted(p) ==
    \/ mode[p] = "run" /\ pc[p] \in {"export", "read", "act"}
    \/ IsScraping(p)

OneAdmitted == \A p, q \in Procs : Admitted(p) /\ Admitted(q) => p = q

Labels == {"none"} \cup Starting \cup Scraping

ControlInv ==
    /\ pc \in [Procs -> Labels]
    /\ mode \in [Procs -> {"run", "quit", "pause", "restart"}]
    /\ OneAdmitted

\* Steps that admit nobody: whoever is admitted after the step was before it.
LEMMA NobodyNew ==
  ASSUME ControlInv,
         pc' \in [Procs -> Labels],
         mode' \in [Procs -> {"run", "quit", "pause", "restart"}],
         \A q \in Procs : Admitted(q)' => Admitted(q)
  PROVE  ControlInv'
  BY DEF ControlInv, OneAdmitted

LEMMA CommandKeeps ==
  ASSUME ControlInv, NEW p \in Procs, Command(p)
  PROVE  ControlInv'
<1> USE DEF ControlInv, Labels, Starting, Scraping
<1>1. CASE AmIRunning(p)
  <2>1. CASE mode[p] = "run" /\ \E q \in Procs \ {p} : pc[q] # "none"
    <3>1. Ends(p)
      BY <1>1, <2>1 DEF AmIRunning
    <3>2. \A q \in Procs : Admitted(q)' => Admitted(q)
      BY <3>1 DEF Ends, Goto, Admitted, IsScraping
    <3>3. QED
      BY <3>1, <3>2, NobodyNew DEF Ends, Goto
  <2>2. CASE ~ (mode[p] = "run" /\ \E q \in Procs \ {p} : pc[q] # "none")
    <3>1. Goto(p, "export") /\ UNCHANGED mode
      BY <1>1, <2>2 DEF AmIRunning, locals
    <3>2. CASE mode[p] # "run"
      <4>1. \A q \in Procs : Admitted(q)' => Admitted(q)
        BY <3>1, <3>2 DEF Goto, Admitted, IsScraping
      <4>2. QED
        BY <3>1, <4>1, NobodyNew DEF Goto
    <3>3. CASE mode[p] = "run"
      \* Nobody else exists: the one that is admitted is alone.
      <4>1. \A q \in Procs \ {p} : pc[q] = "none"
        BY <2>2, <3>3
      <4>2. \A q \in Procs \ {p} : ~ Admitted(q)'
        BY <3>1, <4>1 DEF Goto, Admitted, IsScraping
      <4>3. OneAdmitted'
        BY <4>2 DEF OneAdmitted
      <4>4. QED
        BY <3>1, <4>3 DEF Goto
    <3>4. QED
      BY <3>2, <3>3
  <2>3. QED
    BY <2>1, <2>2
<1>2. CASE IsExporting(p)
  <2>1. \A q \in Procs : Admitted(q)' => Admitted(q)
    BY <1>2 DEF IsExporting, Ends, Goto, Admitted, IsScraping, locals
  <2>2. QED
    BY <1>2, <2>1, NobodyNew DEF IsExporting, Ends, Goto, locals
<1>3. CASE ReadState(p)
  <2>1. \A q \in Procs : Admitted(q)' => Admitted(q)
    BY <1>3 DEF ReadState, Goto, Admitted, IsScraping
  <2>2. QED
    BY <1>3, <2>1, NobodyNew DEF ReadState, Goto
<1>4. CASE StartScraper(p)
  <2>1. \A q \in Procs : Admitted(q)' => Admitted(q)
    BY <1>4 DEF StartScraper, Goto, Admitted, IsScraping
  <2>2. QED
    BY <1>4, <2>1, NobodyNew DEF StartScraper, Goto
<1>5. CASE ChangeState(p)
  <2>1. \A q \in Procs : Admitted(q)' => Admitted(q)
    BY <1>5 DEF ChangeState, Ends, Goto, Admitted, IsScraping
  <2>2. QED
    BY <1>5, <2>1, NobodyNew DEF ChangeState, Ends, Goto
<1>6. QED
  BY <1>1, <1>2, <1>3, <1>4, <1>5 DEF Command

LEMMA ScraperKeeps ==
  ASSUME ControlInv, NEW p \in Procs, Scraper(p) \/ CtrlC(p) \/ Kill(p)
  PROVE  ControlInv'
<1> USE DEF Labels, Starting, Scraping
<1>1. /\ IsScraping(p)
      /\ \/ Ends(p)
         \/ UNCHANGED mode /\ UNCHANGED pc
         \/ UNCHANGED mode /\ \E l \in Scraping : Goto(p, l)
  BY DEF Scraper, EnterMain, Loop, Pass, SkipOnce, Sleep, SleepMore, SleepOver,
         SleepQuit, Cleanup, CtrlC, Kill, IsScraping, locals
<1>2. \A q \in Procs : Admitted(q)' => Admitted(q)
  BY <1>1 DEF Ends, Goto, Admitted, IsScraping, ControlInv
<1>3. QED
  BY <1>1, <1>2, NobodyNew DEF Ends, Goto, ControlInv

\* blockScrape: though a run looks for other processes, reads the control file and
\* writes it in three steps, and others do so at the same time, there is never more
\* than one scraper.
THEOREM AtMostOneScraper == Spec => []OneScraper
<1>1. Init => ControlInv
  BY DEF Init, ControlInv, OneAdmitted, Admitted, IsScraping, Labels, Scraping
<1>2. ControlInv /\ [Next]_vars => ControlInv'
  <2> SUFFICES ASSUME ControlInv, [Next]_vars PROVE ControlInv'
    OBVIOUS
  <2>1. ASSUME NEW p \in Procs, NEW m \in Modes, NEW o \in BOOLEAN, Invoke(p, m, o)
        PROVE  ControlInv'
    <3>1. \A q \in Procs : Admitted(q)' => Admitted(q)
      BY <2>1 DEF Invoke, Goto, Admitted, IsScraping, Scraping, ControlInv, Labels
    <3>2. QED
      BY <2>1, <3>1, NobodyNew, ControlConstants
      DEF Invoke, Goto, ControlInv, Labels, Starting
  <2>2. ASSUME UNCHANGED <<pc, mode>> PROVE ControlInv'
    BY <2>2 DEF ControlInv, OneAdmitted, Admitted, IsScraping
  <2>3. CASE ExportToggles
    BY <2>2, <2>3 DEF ExportToggles, locals
  <2>4. CASE UNCHANGED vars
    BY <2>2, <2>4 DEF vars, locals
  <2>5. QED
    BY <2>1, <2>3, <2>4, CommandKeeps, ScraperKeeps DEF Next
<1>3. ControlInv => OneScraper
  BY DEF ControlInv, OneAdmitted, Admitted, OneScraper
<1>4. QED
  BY <1>1, <1>2, <1>3, PTL DEF Spec

-----------------------------------------------------------------------------
(* Critical sections *)

\* How many sections are open where the scraper is.
Depth ==
    CASE place \in {"copy", "rename", "cut", "index", "pin", "rewrite"} -> 1
      [] place \in {"bloom", "chunkFile", "pinsFile"} -> 2
      [] place = "bloomFile" -> 3
      [] OTHER -> 0

\* The count of open sections is never below what the place calls for.
QuitInv ==
    /\ Quit!TypeOK
    /\ g_QuitCount <= signals
    /\ Depth <= sectionLocks

LEMMA QuitInitInv == ASSUME Quit!QuitConstants, Quit!Init PROVE QuitInv
<1>1. bad \in BOOLEAN
  BY Zenon DEF Quit!Init, Quit!QuitConstants
<1>2. QED
  BY <1>1 DEF Quit!Init, Quit!QuitConstants, QuitInv, Quit!TypeOK, Depth, Quit!Open, Quit!Sections

LEMMA QuitStep == ASSUME Quit!QuitConstants, QuitInv, [Quit!Next]_Quit!vars PROVE QuitInv'
<1> USE DEF Quit!QuitConstants, QuitInv, Quit!TypeOK, Depth, Quit!Open, Quit!Sections
<1> USE DEF Quit!Move, Quit!Stay, Quit!lockSection, Quit!unlockSection
<1>1. CASE Quit!DefaultQuitHandler
  BY <1>1 DEF Quit!DefaultQuitHandler, Quit!ignored, Quit!quitCount, Quit!isSectionLocked
<1>2. CASE Quit!MainLoop
  BY <1>2 DEF Quit!MainLoop
<1>3. CASE Quit!CopyRipe
  BY <1>3 DEF Quit!CopyRipe, Quit!EndOfFolder
<1>4. CASE Quit!StageChunks
  BY <1>4 DEF Quit!StageChunks
<1>5. CASE Quit!WriteChunksWhile
  BY <1>5 DEF Quit!WriteChunksWhile, Quit!EndOfChunks
<1>6. CASE Quit!WriteIndexAsBinary
  BY <1>6 DEF Quit!WriteIndexAsBinary
<1>7. CASE Quit!PinAndRewrite
  BY <1>7 DEF Quit!PinAndRewrite
<1>8. CASE Quit!Sleep
  BY <1>8 DEF Quit!Sleep
<1>9. CASE UNCHANGED Quit!vars
  BY <1>9 DEF Quit!vars
<1>10. QED
  BY <1>1, <1>2, <1>3, <1>4, <1>5, <1>6, <1>7, <1>8, <1>9
     DEF Quit!Next, Quit!Step, Quit!Exited

\* lockSection, defaultQuitHandler: however often the user presses Ctrl-C and however
\* deep the sections nest, the handler ends the process in none of them, and the count
\* of open sections stays within its bounds.
THEOREM SectionsAreNotCut == Quit!Spec => NeverCutsASection
<1>1. Quit!Init => QuitInv
  BY QuitInitInv, SectionConstants
<1>2. QuitInv /\ [Quit!Next]_Quit!vars => QuitInv'
  BY QuitStep, SectionConstants
<1>3. QuitInv /\ [Quit!Next]_Quit!vars
        => [place' = "exit" => place \notin Quit!Sections \cup {"index"}]_Quit!vars
  BY SectionConstants
     DEF Quit!QuitConstants, QuitInv, Quit!Next, Quit!Step, Quit!DefaultQuitHandler, Quit!ignored, Quit!quitCount,
         Quit!isSectionLocked, Quit!MainLoop, Quit!CopyRipe, Quit!EndOfFolder, Quit!StageChunks,
         Quit!WriteChunksWhile, Quit!EndOfChunks, Quit!WriteIndexAsBinary, Quit!PinAndRewrite,
         Quit!Sleep, Quit!Exited, Quit!Move, Depth, Quit!Sections, Quit!TypeOK, Quit!vars
<1>4. QuitInv => Quit!TypeOK
  BY DEF QuitInv
<1>5. QED
  BY <1>1, <1>2, <1>3, <1>4, PTL DEF Quit!Spec, Quit!NeverCutsASection, NeverCutsASection
=============================================================================
