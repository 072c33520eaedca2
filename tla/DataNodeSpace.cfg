\* Two late requests beside the four of a window, with seven threads: put10 meets
\* a full buffer.
CONSTANTS
    Losers = 6
    Window = 4
    MaxZero = 0
SPECIFICATION Spec
INVARIANT SpaceGuaranteed
