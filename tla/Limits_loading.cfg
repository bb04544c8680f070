\* Two branches, uploaded and deleted, a geo that is edited; a query fails.
CONSTANTS
    Uids = {"b1", "b2"}
    Geos = {"g1", "g2"}
    TaskGeo <- MCGeo
    TaskId <- MCId
    Items <- MCItems
    NoItem = NoItem
    Deleted = Deleted
    MaxFaults = 1
SPECIFICATION LiveSpec
INVARIANTS
    TypeOK
    OverrideIsConfigured
PROPERTIES
    EditsReachLimits
    CpsCatchesUp
