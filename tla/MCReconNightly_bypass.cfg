SPECIFICATION OperatorSpec
CONSTANTS
  w1 = w1  s1 = s1  ra = ra  rb = rb  t1 = t1
  Items <- MCItems  Runs <- MCRuns  Trucks <- MCTrucks  Workers <- MCWorkers  Sweepers <- MCSweepers
  RunOf <- MCRunOf  RunKind <- MCCanaryBackfill  SystemOf <- MCGhostThenHolman  ActionOf <- MCClearAssign  TruckOf <- MCTruckOf
  CanaryOf <- MCCanaryOf  Approved <- MCApproved  Ceiling = 0
  MaxAttempts = 1  BatchSize = 2  MaxCrashes = 0  SweepLimit = 2
  Techs = {x, y}  CostCenters = {c1}  None = None
  NoOwner = NoOwner  NoItem = NoItem  NoRun = NoRun
CHECK_DEADLOCK FALSE
INVARIANTS NTypeOK VolumeGuarded OnlyCompletedRunsWrite
