\* A good file, a refused one and one with a single column, the last of a geo of
\* its own; geos made at any time; two faults.
CONSTANTS
    Tasks = {"rows", "refused", "column"}
    Geos = {"g1", "g2"}
    TaskGeo <- MCTaskGeo
    File <- MCFile
    NoTask = "none"
    MaxEnables = 2
    MaxFaults = 2
SPECIFICATION LiveSpec
INVARIANTS
    TypeOK
    WholeFiles
    OncePerEnable
PROPERTIES
    ReadyTasksExpand
    FilesQueued
