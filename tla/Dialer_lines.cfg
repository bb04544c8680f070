\* Two branches of one geo dial one number, both halves hang up, UPDATEs fail.
CONSTANTS
    Uids = {"b1", "b2"}
    Geos = {"g1"}
    Rows = {"r1", "r3"}
    Dsts = {"d1"}
    Queues = {"q1"}
    Calls = {p1, p2}
    Legs = {l1, l2}
    NoRow = NoRow
    TaskGeo <- MCGeo
    TaskId <- MCId
    TaskType <- TypeNormal
    TaskQueue <- MCQueue
    Attempts <- OneAttempt
    Branch <- MCBranch
    Dst <- SharedNumber
    LimitItems <- ItemsFixed
    MaxLines <- OneLine
    Available = {0}
    Env = {"limits", "db"}
SPECIFICATION Spec
SYMMETRY Symmetry
INVARIANTS
    TypeOK
    LinesCoverClaims
    OvershootBounded
    NoOrphanEntry
