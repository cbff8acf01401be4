SPECIFICATION Spec
CONSTANTS
  MaxBlock = 7
  Weight <- MCWeight
  MaxRows = 3
  SnapGrid = 2
  FirstSnap = 2
  NBlocks = 3
  RipeDepth = 1
  FaultKinds = {"blaze", "io", "write", "export", "resync"}
  MaxFaults = 2
  MaxSignals = 0
INVARIANTS
  ChunksCanonical
