\* The shared skip list: two splitting threads, the background thread and one
\* search, over every list of up to four anchors and two levels.
CONSTANTS
    MaxAnchor = 4
    MaxLevel = 2
    Splitters = {s1, s2}
    Readers = {r1}
    Members = {3}
SPECIFICATION FairSpec
INVARIANTS
    TypeOK
    LevelsSorted
    BackwardBehind
    SearchFindsHolder
PROPERTIES
    NothingUnlinked
    BackwardStable
    Calibrated
