SPECIFICATION Spec
CONSTANTS
  r1 = r1
  r2 = r2
  p1 = p1
  h1 = h1
  h2 = h2
  Nobody = Nobody
  Runners <- MCRunners
  Staff <- MCStaff
  Lanes <- MCCutover
  Hashes <- MCOneHash
  Searches <- MCPast
  MaxAttempts = 2
  MaxClaims = 4
  MaxFaults = 0
  MaxStaff = 3
SYMMETRY MCSymmetry
CHECK_DEADLOCK FALSE
INVARIANTS
  BookedOnce
