\* Remote memory: a bitmap of whole bytes has bits for segments behind the memory.
CONSTANTS
    Threads = {t1}
    MemoryNodes = 2
    NodeSpan = 2
    FillSpan = 8
    AddressSpan = 256
    PageSize = 4
    Memory <- MCMemory
    Capacity <- MCUnequal
    ByteBits = 2
    PagesOf = 5
    GroupSize = 2
    small = small
    large = large
    Classes = {small, large}
    Size <- MCSize
    OffsetLimit = 3
    MaxRequests = 8
    Nobody = Nobody
SPECIFICATION Spec
INVARIANT WithinRegion
\* The bound on the requests ends every behaviour.
CHECK_DEADLOCK FALSE
