SPECIFICATION FairSpec
CONSTANTS
  MaxBlock = 7
  Weight <- MCOnes
  MaxRows = 2
  SnapGrid = 4
  FirstSnap = 0
  NBlocks = 3
  RipeDepth = 2
  FaultKinds = {"export"}
  MaxFaults = 1
  MaxSignals = 0
PROPERTIES
  CatchesUp
