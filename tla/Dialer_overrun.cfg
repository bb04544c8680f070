\* One line, two ready rows.
CONSTANTS
    Uids = {"b1"}
    Geos = {"g1"}
    Rows = {"r1", "r2"}
    Dsts = {"d1", "d2"}
    Queues = {"q1"}
    Calls = {p1, p2, p3}
    Legs = {l1}
    NoRow = NoRow
    TaskGeo <- MCGeo
    TaskId <- MCId
    TaskType <- TypeNormal
    TaskQueue <- MCQueue
    Attempts <- OneAttempt
    Branch <- MCBranch
    Dst <- OwnNumbers
    LimitItems <- ItemsFixed
    MaxLines <- OneLine
    Available = {0}
    Env = {"limits"}
SPECIFICATION Spec
SYMMETRY Symmetry
INVARIANTS
    WithinLimits
