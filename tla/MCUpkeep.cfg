CONSTANTS
  p1 = p1
  q1 = q1
  q2 = q2
  f1 = f1
  Nobody = Nobody
  NoFile = NoFile
  Hollow = Hollow
  Procs = {p1}
  Kind <- MCKind
  maxSecondsLock = 3
  FaultKinds = {"io", "quit", "kill", "rpc"}
  MaxFaults = 3
  MaxBlock = 5
  MaxRecords = 8
  Fetchers = {p1}
  Files = {f1}
  CrashIn = {"download"}
  MaxCrashes = 2
  Latest = 6
  MaxTs = 9
  MaxStop = 6
SPECIFICATION UpFairSpec
INVARIANTS TsDense LockHasOwner NeverReadsPart AtOrBefore
PROPERTIES FilesCatchUp StaleLockIsBroken KeepsWhatArrived SearchComesToAnEnd
