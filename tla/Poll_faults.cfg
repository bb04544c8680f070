\* Two queues; answers refused, strays, lost connections, failed statements.
CONSTANTS
    Queues = {"q1", "q2"}
    NoQueue = "none"
    MaxChanges = 1
    MaxFaults = 2
SPECIFICATION LiveSpec
INVARIANTS
    TypeOK
    LagBounded
    BlockedOnlyOnSilence
    MapMatchesTable
PROPERTIES
    AvailableCatchesUp
