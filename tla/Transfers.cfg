\* Gets, puts, updates and scans of one thread over six data nodes.
SPECIFICATION Spec
CONSTANTS
    Last = 6
    Updated = {2, 5}
    Depth = 8
    Garbage = Garbage
INVARIANTS TypeOK QueuesDrained RemoteIntact ScanForward
PROPERTIES PollsEnd
CHECK_DEADLOCK FALSE
