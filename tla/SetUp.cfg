\* Two threads register while the two memory nodes boot and serve.
SPECIFICATION Spec
CONSTANTS
    MaxMemory = 2
    Threads = {t1, t2}
    Backlog = 1
    NoConnection = NoConnection
INVARIANTS TypeOK InfoDelivered
PROPERTIES RegistrationEnds BothEndsReady
CHECK_DEADLOCK FALSE
