------------------------------ MODULE Control -------------------------------
(***************************************************************************)
(* How a scraper is started and stopped: by other invocations, through the *)
(* control file, and by Ctrl-C, past its critical sections.  The two are   *)
(* looked at side by side: ScraperControl, which this module extends, has  *)
(* one step for a pass, QuitHandler has the pass.                          *)
(***************************************************************************)
EXTENDS ScraperControl

CONSTANTS MaxSignals, MaxLocks, Malformed                      \* of QuitHandler

VARIABLES place, sectionLocks, g_QuitCount, signals, bad

sections == <<place, sectionLocks, g_QuitCount, signals, bad>>

Quit == INSTANCE QuitHandler WITH pc <- place

ASSUME SectionConstants == Quit!QuitConstants

-----------------------------------------------------------------------------
\* lockSection, "disallow control+c": however often the user presses Ctrl-C and however
\* the sections nest, the process is never ended inside one, and the count of sections
\* never goes below zero.
NeverCutsASection == []Quit!TypeOK /\ Quit!NeverCutsASection
=============================================================================
