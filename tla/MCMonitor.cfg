CONSTANTS
  m1 = m1
  m2 = m2
  p1 = p1
  Monitors = {m1, m2}
  Procs = {p1}
  MaxChunks = 3
  Prefund = {m1}
  Commands = {"freshen", "clean", "delete", "undelete", "remove"}
  FaultKinds = {"kill", "fail"}
  MaxFaults = 1
SPECIFICATION MCFairSpec
INVARIANTS MissesNoTwo Exact
PROPERTY CatchesUp
