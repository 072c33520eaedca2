\* A search that races a split can return no node at all.
CONSTANTS
    MaxAnchor = 4
    MaxLevel = 2
    Splitters = {s1, s2}
    Readers = {r1}
    Members = {1, 2, 3, 4}
SPECIFICATION Spec
INVARIANT SearchNeverNull
