\* Two threads put, one of them gets as well; the flush leaves two nodes with room for one more record each.
SPECIFICATION Spec
CONSTANTS
    Threads = {t1, t2}
    Readers = {t1}
    MaxKey = 4
    MaxNodes = 3
    Second = 4
    Flushed = {1, 4}
    PutKeys = {2, 3, 4}
    Small = 2
    Large = 3
    Extra = 2
    None = None
INVARIANTS TypeOK RecordsPlaced
PROPERTIES Implements
CHECK_DEADLOCK FALSE
