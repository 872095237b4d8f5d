SPECIFICATION Spec
CONSTANTS
    Records = {r1, r2, r3}
    Keys = {k1, k2}
    Values = {v1, v2}
    Missing = Missing
    HeapMayFail = TRUE
    MAX_DATA_RECORDS = 2
INVARIANTS
    TypeOK
PROPERTIES
    AllOrNothing
    TrimEnds
