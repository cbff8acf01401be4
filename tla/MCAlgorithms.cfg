SPECIFICATION AlgSpec
CONSTANTS
  MaxBlock = 3
  Weight <- MCWeight
  MaxRows = 4
  SnapGrid = 2
  FirstSnap = 0
  MaxLen = 4
  Exports <- MCExports
  LastBlock = 2
  MaxTxs = 4
INVARIANTS CutsAtBlockBreak BooksBalance TokensAddUp
CHECK_DEADLOCK FALSE
