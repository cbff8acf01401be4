SPECIFICATION Spec
CONSTANTS
  MaxBlock = 7
  Weight <- MCWeight
  MaxRows = 2
  SnapGrid = 4
  FirstSnap = 0
  NBlocks = 3
  RipeDepth = 2
  FaultKinds = {"kill", "signal", "blaze", "io", "write", "resync"}
  MaxFaults = 2
  MaxSignals = 3
INVARIANTS
  ChunkHasBloom
  IndexOnlyRipe
