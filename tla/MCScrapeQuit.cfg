SPECIFICATION Spec
CONSTANTS
  MaxBlock = 7
  Weight <- MCWeight
  MaxRows = 2
  SnapGrid = 4
  FirstSnap = 0
  NBlocks = 3
  RipeDepth = 2
  FaultKinds = {"signal", "blaze", "io", "export", "resync"}
  MaxFaults = 3
  MaxSignals = 2
INVARIANTS
  TypeOK
  IndexExactlyOnce
PROPERTIES
  ImplementsIndex
