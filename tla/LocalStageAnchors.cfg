\* The flush of two local nodes that have the same anchor.
CONSTANTS
    Threads = {t1}
    MaxKey = 4
    Values = {v1}
    Capacity = 2
    NoValue = NoValue
SPECIFICATION Spec
INVARIANT FlushKeepsRecords
