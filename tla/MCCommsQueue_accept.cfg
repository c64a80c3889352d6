SPECIFICATION Spec
CONSTANTS
  c1 = c1
  c2 = c2
  c3 = c3
  k1 = k1
  b1 = b1
  b2 = b2
  p1 = p1
  p2 = p2
  NoKey = NoKey
  NoRow = NoRow
  Keys <- MCKeys
  Callers <- MCThreeCallers
  KeyOf <- MCRetryAndPlain
  BodyOf <- MCSameBody
  Guarded <- MCThird
  WantsCc <- MCFirst
  Holds <- MCSecond
  Audience <- MCNobody
  BulkCc = FALSE
  RowIds <- MCRows3
  Processors <- MCOneProcessor
  MaxAttempts = 1
  CrashLimit = 0
PROPERTIES KeyedAcceptanceHolds
