\* Remote memory, checked by hand: two threads take one segment out of the response
\* buffer they share.
CONSTANTS
    Threads = {t1, t2}
    MemoryNodes = 2
    NodeSpan = 2
    FillSpan = 8
    AddressSpan = 256
    PageSize = 4
    Memory <- MCMemory
    Capacity <- MCCapacity
    ByteBits = 1
    PagesOf = 5
    GroupSize = 2
    small = small
    large = large
    Classes = {small, large}
    Size <- MCSize
    OffsetLimit = 3
    MaxRequests = 4
    Nobody = Nobody
SPECIFICATION Spec
INVARIANT SegmentsTakenOnce
SYMMETRY AllocatorSymmetry
\* The bound on the requests ends every behaviour.
CHECK_DEADLOCK FALSE
