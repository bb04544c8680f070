\* Two rows, a batch that is not small, a window always open.
CONSTANTS
    Day = 8
    Unparsed <- MCUnparsed
    Rows = {r1, r2}
    Attempts = 2
    RetryTime = 10
    Windows <- AlwaysOpen
    Periods = {1, 4}
    CpsPause = 3
    SlowPause = 2
    SlowRows = 2
    Trip = 1
    Halves = 2
    NoCall = NoCall
SPECIFICATION Spec
SYMMETRY Symmetry
PROPERTIES
    CallsPaced
