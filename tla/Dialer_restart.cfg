\* A progressive task, agents coming and going, restarts.
CONSTANTS
    Uids = {"b1"}
    Geos = {"g1"}
    Rows = {"r1"}
    Dsts = {"d1"}
    Queues = {"q1"}
    Calls = {"p1", "p2"}
    Legs = {"l1"}
    NoRow = NoRow
    TaskGeo <- MCGeo
    TaskId <- MCId
    TaskType <- TypeProgressive
    TaskQueue <- MCQueue
    Attempts <- OneAttempt
    Branch <- MCBranch
    Dst <- OwnNumbers
    LimitItems <- ItemsFixed
    MaxLines <- TwoLines
    Available = {0, 1}
    Env = {"limits", "queues", "tasks", "clock", "crash"}
SPECIFICATION LiveSpec
INVARIANTS
    NoOrphanEntry
PROPERTIES
    AttemptsBacked
    NumbersGoOffline
    GoroutinesSettle
