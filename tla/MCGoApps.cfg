CONSTANTS
  b1 = b1
  b2 = b2
  a1 = a1
  a2 = a2
  c1 = c1
  c2 = c2
  j1 = j1
  h1 = h1
  StartBlock = 1
  NBlocks = 4
  RipeBlock = 2
  BlockProcs = {b1, b2}
  AddrProcs = {a1, a2}
  EmptyBlocks = {1}
  LogBlocks = {3}
  Errors = TRUE
  Handlers = {h1}
  MaxCmds = 3
  SleepHalves = 2
  MaxRestarts = 2
  MaxToggles = 4
  Conns = {c1, c2}
  Jobs = {j1}
  MaxLines = 3
  PipeSize = 1
  Faults = {"break", "fail"}
  N = 5
  MaxTasks = 3
  Bad = {}
SPECIFICATION GoFairSpec
INVARIANTS ClosedInTime OnePlace Persisted InOrder PrintedOnce
PROPERTIES ImplementsBlaze ProgramsEnd SwitchObeyed Answered
CHECK_DEADLOCK FALSE
