\* One branch, edited, of a geo with a cps of its own; no query fails.
CONSTANTS
    Uids = {"b1"}
    Geos = {"g1"}
    TaskGeo <- MCGeo
    TaskId <- MCId
    Items <- MCItemsGeo
    NoItem = NoItem
    Deleted = Deleted
    MaxFaults = 0
SPECIFICATION LiveSpec
PROPERTIES
    CpsFollowsLimits
