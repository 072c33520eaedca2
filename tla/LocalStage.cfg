\* The early stage: two threads, four keys, local nodes of two slots.
CONSTANTS
    Threads = {t1, t2}
    MaxKey = 4
    Values = {v1, v2}
    Capacity = 2
    NoValue = NoValue
SPECIFICATION Spec
INVARIANTS
    TypeOK
    NodesOrdered
    AckedPutReadable
PROPERTIES
    FirstPutWins
    UpdateVisible
SYMMETRY StageSymmetry
