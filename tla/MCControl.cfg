CONSTANTS
  p1 = p1
  p2 = p2
  Procs = {p1, p2}
  Modes = {"run", "quit", "pause", "restart"}
  FaultKinds = {"signal", "kill", "export"}
  MaxFaults = 3
  MaxSignals = 5
  MaxLocks = 4
  Malformed = TRUE
SPECIFICATION ControlFairSpec
INVARIANTS OneScraper
PROPERTIES StopsWhenTold NeverCutsASection CtrlCIsHeard
