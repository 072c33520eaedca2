\* Remote memory: two threads, two size classes; one memory node is full before the
\* other.
CONSTANTS
    Threads = {t1, t2}
    MemoryNodes = 2
    NodeSpan = 2
    FillSpan = 8
    AddressSpan = 256
    PageSize = 4
    Memory <- MCMemory
    Capacity <- MCCapacity
    ByteBits = 1
    PagesOf = 5
    GroupSize = 2
    small = small
    large = large
    Classes = {small, large}
    Size <- MCSize
    OffsetLimit = 3
    MaxRequests = 4
    Nobody = Nobody
SPECIFICATION Spec
INVARIANTS
    TypeOK
    PagesPrivate
    PointersResolve
SYMMETRY AllocatorSymmetry
\* The bound on the requests ends every behaviour.
CHECK_DEADLOCK FALSE
