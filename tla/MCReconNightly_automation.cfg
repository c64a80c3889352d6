SPECIFICATION AutomationSpec
CONSTANTS
  w1 = w1  s1 = s1  ra = ra  rb = rb  t1 = t1
  Items <- MCItems  Runs <- MCRuns  Trucks <- MCTrucks  Workers <- MCWorkers  Sweepers <- MCSweepers
  RunOf <- MCRunOf  RunKind <- MCNightly  SystemOf <- MCSameWms  ActionOf <- MCBothClear  TruckOf <- MCTruckOf
  CanaryOf <- MCNoCanary  Approved <- MCNobody  Ceiling = 5
  MaxAttempts = 2  BatchSize = 2  MaxCrashes = 1  SweepLimit = 2
  Techs = {x, y}  CostCenters = {c1}  None = None
  NoOwner = NoOwner  NoItem = NoItem  NoRun = NoRun
CHECK_DEADLOCK FALSE
INVARIANTS OneActivePerTarget
PROPERTIES WriterHoldsTarget
