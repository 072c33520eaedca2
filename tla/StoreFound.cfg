\* What a get is expected to find (tests/test_store.cpp).
SPECIFICATION Spec
CONSTANTS
    Threads = {t1, t2}
    Readers = {t2}
    MaxKey = 4
    MaxNodes = 3
    Second = 4
    Flushed = {1, 4}
    PutKeys = {1, 2, 3, 4}
    Small = 2
    Large = 3
    Extra = 2
    None = None
INVARIANT WrittenFound
CHECK_DEADLOCK FALSE
