\* What write_back_current is said to write (memory/compute_node/compute_node.hpp:322).
SPECIFICATION Spec
CONSTANTS
    Last = 3
    Updated = {2}
    Depth = 8
    Garbage = Garbage
INVARIANT FilledByFetch
CHECK_DEADLOCK FALSE
