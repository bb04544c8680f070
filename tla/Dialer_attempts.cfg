\* Two lines, one row with one attempt, no fault of any kind.
CONSTANTS
    Uids = {"b1"}
    Geos = {"g1"}
    Rows = {"r1"}
    Dsts = {"d1"}
    Queues = {"q1"}
    Calls = {p1, p2}
    Legs = {l1}
    NoRow = NoRow
    TaskGeo <- MCGeo
    TaskId <- MCId
    TaskType <- TypeNormal
    TaskQueue <- MCQueue
    Attempts <- OneAttempt
    Branch <- MCBranch
    Dst <- OwnNumbers
    LimitItems <- ItemsFixed
    MaxLines <- TwoLines
    Available = {0}
    Env = {"limits"}
SPECIFICATION Spec
SYMMETRY Symmetry
INVARIANTS
    AttemptsRespected
