CONSTANTS
  m1 = m1
  m2 = m2
  p1 = p1
  Monitors = {m1}
  Procs = {p1}
  MaxChunks = 3
  Prefund = {}
  Commands = {"freshen"}
  FaultKinds = {}
  MaxFaults = 0
SPECIFICATION Spec
INVARIANT Complete
