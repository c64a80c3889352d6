SPECIFICATION Spec
CONSTANTS
    NoTech = none
    Techs = {t1}
    AtFirst = {none}
    Syncs = {s1}
    Checkers = {c1}
    MaxWrites = 2
    Backstops = {1}
    MaxFaults = 0
    MaxReaders = 1
PROPERTIES
    CorrectionOutlivesSyncs
    EarlyLiftsHaveEvidence
CHECK_DEADLOCK FALSE
