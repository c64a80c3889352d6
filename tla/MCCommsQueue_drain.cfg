SPECIFICATION Spec
CONSTANTS
  c1 = c1
  c2 = c2
  c3 = c3
  k1 = k1
  b1 = b1
  b2 = b2
  p1 = p1
  p2 = p2
  NoKey = NoKey
  NoRow = NoRow
  Keys <- MCKeys
  Callers <- MCOneCaller
  KeyOf <- MCSameKey
  BodyOf <- MCSameBody
  Guarded <- MCNobody
  WantsCc <- MCNobody
  Holds <- MCNobody
  Audience <- MCAudience
  BulkCc = TRUE
  RowIds <- MCRows2
  Processors <- MCProcessors
  MaxAttempts = 2
  CrashLimit = 1
INVARIANTS TypeOK ClaimsAreExclusive TextsArePaidFor CompletedBatchIsDrained
PROPERTIES PendingRowsSettle
