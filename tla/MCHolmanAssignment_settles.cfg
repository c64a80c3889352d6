SPECIFICATION Spec
CONSTANTS
    NoTech = none
    Techs = {t1, t2}
    AtFirst = {t2}
    Syncs = {s1}
    Checkers = {c1}
    MaxWrites = 1
    Backstops = {1}
    MaxFaults = 1
    MaxReaders = 2
INVARIANT
    TypeOK
PROPERTIES
    SubmissionsSettle
    EventuallyAgrees
CHECK_DEADLOCK FALSE
