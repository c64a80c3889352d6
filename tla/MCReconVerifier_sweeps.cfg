SPECIFICATION VSpec
CONSTANTS
  w1 = w1  s1 = s1  s2 = s2  r1 = r1  t1 = t1
  Items <- MCItems  Runs <- MCRuns  Trucks <- MCTrucks  Workers <- MCOneWorker  Sweepers <- MCTwoSweepers
  RunOf <- MCRunOf  RunKind <- MCRunKind  SystemOf <- MCGhostFirst  ActionOf <- MCGhostFirstAction  TruckOf <- MCTruckOf
  MaxAttempts = 1  BatchSize = 2  MaxCrashes = 0  SweepLimit = 1
  NoOwner = NoOwner  NoItem = NoItem  NoRun = NoRun
SYMMETRY MCSweeperSymmetry
INVARIANTS VTypeOK LandedHasClock CanaryStampedClean GhostStampAgrees
PROPERTIES TerminalIsFinal FlagsAreLate
