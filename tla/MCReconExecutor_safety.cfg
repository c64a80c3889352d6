SPECIFICATION Spec
CONSTANTS
  w1 = w1  w2 = w2  r1 = r1  t1 = t1
  Items <- MCItems  Runs <- MCRuns  Trucks <- MCTrucks  Workers <- MCWorkers
  RunOf <- MCRunOf  RunKind <- MCRunKind  SystemOf <- MCSystemOf  ActionOf <- MCActionOf  TruckOf <- MCTruckOf
  MaxAttempts = 2  BatchSize = 2  MaxCrashes = 1
  NoOwner = NoOwner  NoItem = NoItem  NoRun = NoRun
SYMMETRY MCSymmetry
CHECK_DEADLOCK FALSE
INVARIANTS TypeOK AtMostOnce NothingWrittenUnrecorded OneWriterPerItem LeaseDiscipline
PROPERTIES RowsFollowLifecycle
