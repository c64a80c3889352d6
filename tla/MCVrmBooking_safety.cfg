SPECIFICATION Spec
CONSTANTS
  r1 = r1
  r2 = r2
  p1 = p1
  h1 = h1
  h2 = h2
  Nobody = Nobody
  Runners <- MCRunners
  Staff <- MCStaff
  Lanes <- MCBothLanes
  Hashes <- MCOneHash
  Searches <- MCBothSearches
  MaxAttempts = 2
  MaxClaims = 5
  MaxFaults = 1
  MaxStaff = 4
SYMMETRY MCSymmetry
CHECK_DEADLOCK FALSE
INVARIANTS
  TypeOK
  NeverBookedTwice
  EvidenceIsReal
  LedgerTellsTheTruth
PROPERTIES
  LedgerIsKept
  RemovalIsFinal
  
