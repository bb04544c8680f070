\* Two lines, three goroutines, both halves hang up, cps written back, originate
\* fails, the event loop dies.
CONSTANTS
    Uids = {"b1"}
    Geos = {"g1"}
    Rows = {"r1"}
    Dsts = {"d1"}
    Queues = {"q1"}
    Calls = {p1, p2, p3}
    Legs = {l1, l2}
    NoRow = NoRow
    TaskGeo <- MCGeo
    TaskId <- MCId
    TaskType <- TypeNormal
    TaskQueue <- MCQueue
    Attempts <- OneAttempt
    Branch <- MCBranch
    Dst <- OwnNumbers
    LimitItems <- ItemsCps
    MaxLines <- TwoLines
    Available = {0}
    Env = {"limits", "originate", "events"}
SPECIFICATION Spec
SYMMETRY Symmetry
INVARIANTS
    ReleasesBacked
    LinesCoverClaims
