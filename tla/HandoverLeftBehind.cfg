\* A request can outlive the operation of the winner it was sent to.
\* Three threads, two neighbouring nodes, any number of operations.
CONSTANTS
    Threads = {t1, t2, t3}
    n1 = n1
    n2 = n2
    n3 = n3
    Nodes = {n1, n2}
    Sentinel = Sentinel
    Backward <- MCBackward
    MaxDepth = 1
    Offered = {"insert", "update", "get"}
    None = None
SPECIFICATION Spec
INVARIANT NoRequestLeftBehind
