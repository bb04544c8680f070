--------------------------- MODULE TaskExpansion ---------------------------
(***************************************************************************)
(* How an uploaded task becomes rows of calls_queue: the HTTP handlers     *)
(* that insert, enable and delete rows of tasks (handleUpload, /task-edit, *)
(* /task-delete), the one that makes geos (/geo-edit/0), and the goroutine *)
(* processTasks, which once a second expands the file of every enabled     *)
(* task of a known geo, each in a transaction.                             *)
(*                                                                         *)
(* MySQL keeps tasks, geos, calls_queue and dialer_branches; the goroutine's*)
(* snapshot of the tasks and its open transaction die with the process.    *)
(***************************************************************************)
EXTENDS Integers, Sequences

CONSTANTS
    Tasks,       \* rows of tasks; BOUND: each is uploaded at most once
    Geos,        \* ids a row of geos may have
    TaskGeo,     \* tasks.geo_id, which nothing holds to the rows of geos
    File,        \* tasks.phone_number: the CSV records of each task, by kind
    NoTask,      \* no transaction is open
    MaxEnables,  \* BOUND on how often a task is enabled
    MaxFaults    \* BOUND on crashes and failed SQL statements

(***************************************************************************)
(* A record is a row (a lead and a number), short (one field, which the    *)
(* code indexes past its end) or bad (the CSV reader refuses it).  The     *)
(* reader holds every record to the fields of the first, so only the       *)
(* first can be short, and no row follows it.                              *)
(***************************************************************************)
ASSUME FileData == File \in [Tasks -> Seq({"row", "short", "bad"})]
ASSUME GeoData == TaskGeo \in [Tasks -> Geos]
ASSUME NoTaskFresh == NoTask \notin Tasks
ASSUME Bounds == MaxEnables \in Nat /\ MaxFaults \in Nat

VARIABLES
    ready,       \* tasks.ready: off is 0, ready is 1, done is 2
    geos,        \* the ids of the rows of geos
    queued,      \* rows of calls_queue, by task
    reports,     \* rows of dialer_branches, by task
    rowsTotal,   \* the sum of their rows_total, by task
    todo,        \* processTasks: the snapshot of ready tasks left to process
    cur, pos,    \* processTask: its task, and the rows inserted by its transaction
    enables,     \* history: how often a task was made ready
    faults

tables == <<queued, reports, rowsTotal>>
worker == <<todo, cur, pos>>
vars == <<ready, geos, tables, worker, enables, faults>>

States == {"absent", "off", "ready", "done", "deleted"}

TypeOK ==
    /\ ready \in [Tasks -> States]
    /\ geos \subseteq Geos
    /\ queued \in [Tasks -> Nat]
    /\ reports \in [Tasks -> Nat]
    /\ rowsTotal \in [Tasks -> Nat]
    /\ todo \subseteq Tasks
    /\ cur \in todo \cup {NoTask}
    /\ pos \in Nat
    /\ enables \in [Tasks -> Nat]
    /\ faults \in Nat

Init ==
    /\ ready = [t \in Tasks |-> "absent"]
    /\ geos \in SUBSET Geos
    /\ queued = [t \in Tasks |-> 0]
    /\ reports = [t \in Tasks |-> 0]
    /\ rowsTotal = [t \in Tasks |-> 0]
    /\ todo = {}
    /\ cur = NoTask
    /\ pos = 0
    /\ enables = [t \in Tasks |-> 0]
    /\ faults = 0

-----------------------------------------------------------------------------
(* The HTTP handlers.                                                      *)

Upload(t) ==
    /\ ready[t] = "absent"
    /\ ready' = [ready EXCEPT ![t] = "off"]
    /\ UNCHANGED <<geos, tables, worker, enables, faults>>

\* UPDATE tasks SET ready = 1, whatever ready was.
Enable(t) ==
    /\ ready[t] \in {"off", "done"}
    /\ enables[t] < MaxEnables
    /\ ready' = [ready EXCEPT ![t] = "ready"]
    /\ enables' = [enables EXCEPT ![t] = @ + 1]
    /\ UNCHANGED <<geos, tables, worker, faults>>

\* DELETE FROM tasks: the rows of calls_queue and dialer_branches stay.
Delete(t) ==
    /\ ready[t] \in {"off", "ready", "done"}
    /\ ready' = [ready EXCEPT ![t] = "deleted"]
    /\ UNCHANGED <<geos, tables, worker, enables, faults>>

\* /geo-edit/0 inserts a geo; nothing ever deletes one.
MakeGeo(g) ==
    /\ g \notin geos
    /\ geos' = geos \cup {g}
    /\ UNCHANGED <<ready, tables, worker, enables, faults>>

-----------------------------------------------------------------------------
(* processTasks.                                                           *)

\* getReadyTasks reads every ready task with its file, in no stated order.
\* It joins the geos: a task whose geo has no row is not among them.
Ready == {t \in Tasks : ready[t] = "ready" /\ TaskGeo[t] \in geos}

Tick ==
    /\ todo = {}
    /\ todo' = Ready
    /\ UNCHANGED <<ready, geos, tables, cur, pos, enables, faults>>

\* The connection breaks off while the tasks are read, which no one checks.
PartialTick ==
    /\ todo = {}
    /\ faults < MaxFaults
    /\ faults' = faults + 1
    /\ todo' \in SUBSET Ready
    /\ UNCHANGED <<ready, geos, tables, cur, pos, enables>>

Begin(t) ==
    /\ cur = NoTask /\ t \in todo
    /\ cur' = t /\ pos' = 0
    /\ UNCHANGED <<ready, geos, tables, todo, enables, faults>>

\* The next record of the file being expanded is of the kind.
NextRecord(kind) == cur # NoTask /\ pos < Len(File[cur]) /\ File[cur][pos + 1] = kind

\* INSERT INTO calls_queue, inside the transaction.
InsertRow ==
    /\ NextRecord("row")
    /\ pos' = pos + 1
    /\ UNCHANGED <<ready, geos, tables, todo, cur, enables, faults>>

\* The transaction is given up; the task stays ready for the next tick.
Rollback ==
    /\ cur' = NoTask /\ pos' = 0
    /\ todo' = todo \ {cur}
    /\ UNCHANGED <<ready, geos, tables, enables>>

\* Mutants of CsvError: the file ends at a record the reader refuses; the
\* task is retried at once.
CsvErrorEndsFile ==
    /\ NextRecord("bad")
    /\ ready' = [ready EXCEPT ![cur] = IF @ = "deleted" THEN @ ELSE "done"]
    /\ queued' = [queued EXCEPT ![cur] = @ + pos]
    /\ reports' = [reports EXCEPT ![cur] = @ + 1]
    /\ rowsTotal' = [rowsTotal EXCEPT ![cur] = @ + pos]
    /\ todo' = todo \ {cur}
    /\ cur' = NoTask /\ pos' = 0
    /\ UNCHANGED <<geos, enables, faults>>

CsvErrorRetries ==
    /\ NextRecord("bad")
    /\ cur' = NoTask /\ pos' = 0
    /\ UNCHANGED <<ready, geos, tables, todo, enables, faults>>

CsvError == NextRecord("bad") /\ Rollback /\ UNCHANGED faults

SqlError ==
    /\ cur # NoTask
    /\ faults < MaxFaults
    /\ faults' = faults + 1
    /\ Rollback

\* Mutants of Commit: ready is left at 1; the transaction is not ended.
CommitStillReady ==
    /\ cur # NoTask /\ pos = Len(File[cur])
    /\ queued' = [queued EXCEPT ![cur] = @ + pos]
    /\ reports' = [reports EXCEPT ![cur] = @ + 1]
    /\ rowsTotal' = [rowsTotal EXCEPT ![cur] = @ + pos]
    /\ todo' = todo \ {cur}
    /\ cur' = NoTask /\ pos' = 0
    /\ UNCHANGED <<ready, geos, enables, faults>>

CommitStaysOpen ==
    /\ cur # NoTask /\ pos = Len(File[cur])
    /\ ready' = [ready EXCEPT ![cur] = IF @ = "deleted" THEN @ ELSE "done"]
    /\ queued' = [queued EXCEPT ![cur] = @ + pos]
    /\ reports' = [reports EXCEPT ![cur] = @ + 1]
    /\ rowsTotal' = [rowsTotal EXCEPT ![cur] = @ + pos]
    /\ todo' = todo \ {cur}
    /\ UNCHANGED <<geos, cur, pos, enables, faults>>

\* UPDATE tasks SET ready = 2, INSERT INTO dialer_branches, commit.  The
\* UPDATE finds no row when the task was deleted meanwhile, which no one checks.
Commit ==
    /\ cur # NoTask /\ pos = Len(File[cur])
    /\ ready' = [ready EXCEPT ![cur] = IF @ = "deleted" THEN @ ELSE "done"]
    /\ queued' = [queued EXCEPT ![cur] = @ + pos]
    /\ reports' = [reports EXCEPT ![cur] = @ + 1]
    /\ rowsTotal' = [rowsTotal EXCEPT ![cur] = @ + pos]
    /\ todo' = todo \ {cur}
    /\ cur' = NoTask /\ pos' = 0
    /\ UNCHANGED <<geos, enables, faults>>

-----------------------------------------------------------------------------
(* The process dies and is restarted; MySQL rolls its transaction back.    *)

Restart ==
    /\ todo' = {} /\ cur' = NoTask /\ pos' = 0
    /\ UNCHANGED <<ready, geos, tables, enables>>

\* record[1] of a record with one field: the goroutine panics.
Panic == NextRecord("short") /\ Restart /\ UNCHANGED faults

Crash ==
    /\ faults < MaxFaults
    /\ faults' = faults + 1
    /\ Restart

Operator ==
    \/ \E t \in Tasks : Upload(t) \/ Enable(t) \/ Delete(t)
    \/ \E g \in Geos : MakeGeo(g)

Worker ==
    \/ Tick
    \/ \E t \in Tasks : Begin(t)
    \/ InsertRow
    \/ CsvError
    \/ Commit
    \/ Panic

Next == Operator \/ Worker \/ PartialTick \/ SqlError \/ Crash

Spec == Init /\ [][Next]_vars

\* The ticker and the Go scheduler keep processTasks running.
LiveSpec == Spec /\ WF_vars(Worker)

-----------------------------------------------------------------------------

(***************************************************************************)
(* Files are expanded whole or not at all, and reported as they were:      *)
(* crashes, refused records and failed statements in the middle of a file  *)
(* leave neither rows nor a report, and a task deleted meanwhile has both. *)
(***************************************************************************)
WholeFiles ==
    \A t \in Tasks : /\ queued[t] = reports[t] * Len(File[t])
                     /\ rowsTotal[t] = queued[t]

(***************************************************************************)
(* A file is expanded at most once each time its task was made ready: the  *)
(* snapshot of a task outlives neither its commit nor a restart, so no     *)
(* tick expands again what an earlier one did.                             *)
(***************************************************************************)
OncePerEnable == \A t \in Tasks : reports[t] <= enables[t]

WellFormed(t) == \A i \in 1..Len(File[t]) : File[t][i] = "row"

Poisonous(t) == File[t] # <<>> /\ File[t][1] = "short"

\* A task the worker is due to expand: ready, and its geo has a row.
Due(t) == ready[t] = "ready" /\ TaskGeo[t] \in geos

(***************************************************************************)
(* A ready task with a well-formed file is expanded (or deleted) once its  *)
(* geo has a row: files the CSV reader refuses and tasks whose geo has     *)
(* none do not hold up the others, failed statements are retried.  Only a  *)
(* task that is due and whose file has a single column stops it: it kills  *)
(* the process again after every restart.                                  *)
(***************************************************************************)
ReadyTasksExpand ==
    \A t \in Tasks :
        WellFormed(t) /\ Due(t)
            ~> ~Due(t) \/ \E u \in Tasks : Poisonous(u) /\ Due(u)

(***************************************************************************)
(* All of it shows as whole files being queued, one for each time a task   *)
(* was made ready: no step in between is seen, and nothing queued is lost  *)
(* or taken back by an error, a deletion or a restart.                     *)
(***************************************************************************)
Queue == INSTANCE QueuedFiles WITH Size <- [t \in Tasks |-> Len(File[t])]

FilesQueued == Queue!Spec

====
