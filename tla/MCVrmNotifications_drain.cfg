SPECIFICATION Spec
CONSTANTS
    None = None
    i1 = i1
    i2 = i2
    t1 = t1
    t2 = t2
    t3 = t3
    k1 = k1
    Rows = {1}
    Instances <- MCInstances
    Ticks <- MCTicks
    Callbacks <- MCCallbacks
    Host <- MCHost
    MaxFaults <- MCMaxFaults
    MaxSlow = 0
INVARIANTS
    TypeOK
    ExtraTextsArePaidFor
PROPERTIES
    RestStays
    RowsSettle
CHECK_DEADLOCK FALSE
