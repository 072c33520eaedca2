\* Liveness of the handover lock table: three threads putting to one node,
\* any number of operations.
CONSTANTS
    Threads = {t1, t2, t3}
    n1 = n1
    n2 = n2
    n3 = n3
    Nodes = {n1}
    Sentinel = Sentinel
    Backward <- MCBackward
    MaxDepth = 1
    Offered = {"insert"}
    None = None
SPECIFICATION BusySpec
PROPERTIES
    LockReleased
    RequestAnswered
