SPECIFICATION FairSpec
CONSTANTS
  MaxBlock = 5
  Weight <- MCWeight
  MaxRows = 2
  SnapGrid = 4
  FirstSnap = 0
  NBlocks = 3
  RipeDepth = 1
  FaultKinds = {"blaze", "io", "signal", "export", "resync"}
  MaxFaults = 2
  MaxSignals = 2
PROPERTIES
  CatchesUpUnlessStuck
