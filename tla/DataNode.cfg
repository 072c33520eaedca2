\* The records of one data node through any number of puts: six threads, so that
\* a late request can join the four of a window.
CONSTANTS
    Losers = 5
    Window = 4
    MaxZero = 1
SPECIFICATION Spec
INVARIANTS
    TypeOK
    OwnStored
    HalvesFit
PROPERTY MorphReadable
