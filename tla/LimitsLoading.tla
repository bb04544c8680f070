--------------------------- MODULE LimitsLoading ---------------------------
(***************************************************************************)
(* How what operators configure reaches the dispatcher: processLimits      *)
(* reads geos and tasks once a second into limitsMap, which it publishes   *)
(* with the first task and goes on filling; processCallQueueue takes the   *)
(* cps of a branch over into its entry of worklimitsMap.  The loader holds *)
(* the mutex while it fills, the dispatcher reads limitsMap without it.    *)
(***************************************************************************)
EXTENDS Integers

CONSTANTS
    Uids,        \* branches: rows of tasks, keyed by their uid
    Geos,        \* rows of geos; BOUND: they exist from the start
    TaskGeo, TaskId,  \* columns of tasks, by uid
    Items,       \* what nlines and cps of a branch or geo may be edited to
    NoItem,      \* no row, or no entry
    Deleted,     \* a row that was deleted: no task gets its uid again
    MaxFaults    \* BOUND on failed and broken-off queries

Keys == Uids \cup Geos

AnyItem == UNION {Items[k] : k \in Keys}

ASSUME KeysDisjoint == Uids \cap Geos = {}
ASSUME TaskData ==
    /\ TaskGeo \in [Uids -> Geos]
    /\ TaskId \in [Uids -> Nat]
    /\ \A u, v \in Uids : TaskId[u] = TaskId[v] => u = v
ASSUME ItemData == \A k \in Keys : Items[k] \subseteq [nlines : Nat, cps : Nat]
ASSUME Fresh ==
    /\ NoItem \notin [nlines : Nat, cps : Nat]
    /\ Deleted \notin [nlines : Nat, cps : Nat]
    /\ NoItem \notin Nat
ASSUME FaultBound == MaxFaults \in Nat

VARIABLES
    db,          \* nlines and cps in tasks and geos
    limits,      \* limitsMap, the map published last
    loader,      \* processLimits
    disp,        \* the dispatcher
    work,        \* worklimitsMap[k].CPS
    faults,
    cut          \* history: the geos were once read in part

vars == <<db, limits, loader, disp, work, faults, cut>>

-----------------------------------------------------------------------------

Existing == {u \in Uids : db[u] \in Items[u]}

\* What a branch reads as in a query.
RowOf(u) == IF u \in Existing THEN db[u] ELSE NoItem

\* An absent entry reads as zero.
Cps(k) == IF limits[k] = NoItem THEN 0 ELSE limits[k].cps

\* Of some tasks, the one with the greatest id: queries order them so.
Newest(tasks, u) == u \in tasks /\ \A v \in tasks : TaskId[v] <= TaskId[u]

(***************************************************************************)
(* The loader: tick, tasks (geos are read), lock (tasks are read), fill    *)
(* (holds the mutex; its new map is published once the first task is in).  *)
(***************************************************************************)
IdleLoader == [pc |-> "tick", read |-> [k \in Keys |-> NoItem], todo |-> {}]

Filling == loader.pc = "fill"

(***************************************************************************)
(* The dispatcher, at the task it has come to: its entry is found, or made *)
(* (cps, add); the three reads of the comparison (branch, above, zero);    *)
(* the entry is written (write).  The cps of a geo's entry is never read,  *)
(* and left out.  As a history, clear tells a pass no load has met so far. *)
(***************************************************************************)
DispPcs == {"task", "cps", "add", "branch", "above", "zero", "write"}

IdleDisp == [pc |-> "task", todo |-> {}, cps |-> 0, clear |-> TRUE]

TypeOK ==
    /\ \A k \in Keys : db[k] \in Items[k] \cup {NoItem, Deleted}
    /\ \A k \in Keys : limits[k] \in Items[k] \cup {NoItem}
    /\ loader.pc \in {"tick", "tasks", "lock", "fill"}
    /\ \A k \in Keys : loader.read[k] \in Items[k] \cup {NoItem}
    /\ \A u \in loader.todo : u \in Uids /\ loader.read[u] # NoItem
    /\ disp \in [pc : DispPcs, todo : SUBSET Uids, cps : Nat, clear : BOOLEAN]
    /\ disp.pc # "task" => disp.todo # {}
    /\ work \in [Uids -> Nat \cup {NoItem}]
    /\ faults \in 0..MaxFaults
    /\ cut \in BOOLEAN

Init ==
    /\ db \in [Keys -> AnyItem \cup {NoItem}]
    /\ \A u \in Uids : db[u] = NoItem
    /\ \A g \in Geos : db[g] \in Items[g]
    /\ limits = [k \in Keys |-> NoItem]
    /\ loader = IdleLoader
    /\ disp = IdleDisp
    /\ work = [u \in Uids |-> NoItem]
    /\ faults = 0
    /\ cut = FALSE

-----------------------------------------------------------------------------
(* The operators: handleUpload, /branches-edit, /geo-edit, /task-delete.   *)

Upload(u, item) ==
    /\ db[u] = NoItem
    /\ db' = [db EXCEPT ![u] = item]
    /\ UNCHANGED <<limits, loader, disp, work, faults, cut>>

EditBranch(u, item) ==
    /\ u \in Existing
    /\ db' = [db EXCEPT ![u] = item]
    /\ UNCHANGED <<limits, loader, disp, work, faults, cut>>

EditGeo(g, item) ==
    /\ db' = [db EXCEPT ![g] = item]
    /\ UNCHANGED <<limits, loader, disp, work, faults, cut>>

Delete(u) ==
    /\ u \in Existing
    /\ db' = [db EXCEPT ![u] = Deleted]
    /\ UNCHANGED <<limits, loader, disp, work, faults, cut>>

-----------------------------------------------------------------------------
(* processLimits.                                                          *)

\* fetchGeos.
FetchGeos ==
    /\ loader.pc = "tick"
    /\ loader' = [IdleLoader EXCEPT !.pc = "tasks",
                    !.read = [k \in Keys |-> IF k \in Geos THEN db[k] ELSE NoItem]]
    /\ UNCHANGED <<db, limits, disp, work, faults, cut>>

\* The connection breaks off while the geos are read, which no one checks.
FetchGeosPart ==
    /\ loader.pc = "tick"
    /\ faults < MaxFaults /\ faults' = faults + 1
    /\ \E part \in SUBSET Geos \ {Geos} :
         loader' = [IdleLoader EXCEPT !.pc = "tasks",
                      !.read = [k \in Keys |-> IF k \in part THEN db[k] ELSE NoItem]]
    /\ cut' = TRUE
    /\ UNCHANGED <<db, limits, disp, work>>

\* Mutant of FetchTasks: rows that are gone are returned, too.
FetchTasksGone ==
    /\ loader.pc = "tasks"
    /\ loader' = [loader EXCEPT !.pc = "lock", !.todo = Uids,
                    !.read = [k \in Keys |-> IF k \in Uids THEN RowOf(k) ELSE @[k]]]
    /\ UNCHANGED <<db, limits, disp, work, faults, cut>>

\* getTasks.
FetchTasks ==
    /\ loader.pc = "tasks"
    /\ loader' = [loader EXCEPT !.pc = "lock", !.todo = Existing,
                    !.read = [k \in Keys |-> IF k \in Uids THEN RowOf(k) ELSE @[k]]]
    /\ UNCHANGED <<db, limits, disp, work, faults, cut>>

\* Either query fails: the limits stay as they are until the next tick.
FetchFails ==
    /\ loader.pc \in {"tick", "tasks"}
    /\ faults < MaxFaults /\ faults' = faults + 1
    /\ loader' = IdleLoader
    /\ UNCHANGED <<db, limits, disp, work, cut>>

\* The mutex is taken, and the geos are put into a map nobody sees yet.
Lock ==
    /\ loader.pc = "lock"
    /\ loader' = [loader EXCEPT !.pc = "fill"]
    /\ disp' = [disp EXCEPT !.clear = FALSE]
    /\ UNCHANGED <<db, limits, work, faults, cut>>

\* No task is in the new map yet.
Unpublished == loader.todo = {u \in Uids : loader.read[u] # NoItem}

\* Mutants of Put: the loop over the tasks starts a map of its own; an entry
\* that is there is left alone.
PutFreshMap(u) ==
    /\ Filling /\ Newest(loader.todo, u)
    /\ LET before == IF Unpublished THEN [k \in Keys |-> NoItem] ELSE limits
       IN  limits' = [before EXCEPT ![u] = loader.read[u]]
    /\ loader' = [loader EXCEPT !.todo = @ \ {u}]
    /\ UNCHANGED <<db, disp, work, faults, cut>>

PutNewOnly(u) ==
    /\ Filling /\ Newest(loader.todo, u)
    /\ limits' = [k \in Keys |->
                    IF k \in Geos \cup {u} /\ limits[k] = NoItem
                    THEN loader.read[k] ELSE limits[k]]
    /\ loader' = [loader EXCEPT !.todo = @ \ {u}]
    /\ UNCHANGED <<db, disp, work, faults, cut>>

\* A task is put into the new map, which the first one makes limitsMap.
Put(u) ==
    /\ Filling /\ Newest(loader.todo, u)
    /\ LET before == IF Unpublished
                     THEN [k \in Keys |-> IF k \in Geos THEN loader.read[k] ELSE NoItem]
                     ELSE limits
       IN  limits' = [before EXCEPT ![u] = loader.read[u]]
    /\ loader' = [loader EXCEPT !.todo = @ \ {u}]
    /\ UNCHANGED <<db, disp, work, faults, cut>>

\* Without any task limitsMap has stayed as it was.
Unlock ==
    /\ Filling /\ loader.todo = {}
    /\ loader' = IdleLoader
    /\ UNCHANGED <<db, limits, disp, work, faults, cut>>

Loader == FetchGeos \/ FetchTasks \/ Lock \/ (\E u \in Uids : Put(u)) \/ Unlock

-----------------------------------------------------------------------------
(* processCallQueueue, as far as the cps of a branch goes.                 *)

At(pc, u) == disp.pc = pc /\ Newest(disp.todo, u)

Goto(pc) == disp' = [disp EXCEPT !.pc = pc]

Done(u) == disp' = [disp EXCEPT !.pc = "task", !.todo = @ \ {u}, !.cps = 0]

\* A tick reads the active tasks.
Tick ==
    /\ disp.pc = "task" /\ disp.todo = {}
    /\ disp' = [IdleDisp EXCEPT !.todo = Existing, !.clear = ~Filling]
    /\ UNCHANGED <<db, limits, loader, work, faults, cut>>

\* LimitsFind: is there an entry for the branch?  It waits for the mutex.
FindEntry(u) ==
    /\ At("task", u) /\ ~Filling
    /\ Goto(IF work[u] = NoItem THEN "cps" ELSE "branch")
    /\ UNCHANGED <<db, limits, loader, work, faults, cut>>

ReadCps(u, read, next) ==
    /\ At(read, u)
    /\ disp' = [disp EXCEPT !.pc = next, !.cps = Cps(u)]
    /\ UNCHANGED <<db, limits, loader, work, faults, cut>>

\* LimitsAdd, with the cps read from limitsMap before: it, too, waits.
AddEntry(u) ==
    /\ At("add", u) /\ ~Filling
    /\ work' = [work EXCEPT ![u] = disp.cps]
    /\ disp' = [disp EXCEPT !.pc = "branch", !.cps = 0]
    /\ UNCHANGED <<db, limits, loader, faults, cut>>

\* The branch sets a cps of its own, and its geo leaves it open: three reads
\* of limitsMap without the mutex.
ReadBranchCps(u) == ReadCps(u, "branch", "above")

CompareGeoCps(u) ==
    /\ At("above", u)
    /\ IF disp.cps > Cps(TaskGeo[u]) THEN Goto("zero") ELSE Done(u)
    /\ UNCHANGED <<db, limits, loader, work, faults, cut>>

GeoCpsOpen(u) ==
    /\ At("zero", u)
    /\ IF Cps(TaskGeo[u]) = 0 THEN Goto("write") ELSE Done(u)
    /\ UNCHANGED <<db, limits, loader, work, faults, cut>>

\* Mutant of WriteCps: the copy is changed and not written back.
WriteCpsCopyOnly(u) ==
    /\ At("write", u)
    /\ Done(u)
    /\ UNCHANGED <<db, limits, loader, work, faults, cut>>

\* The cps is read once more, and may have become zero while limitsMap fills.
WriteCps(u) ==
    /\ At("write", u)
    /\ work' = [work EXCEPT ![u] = Cps(u)]
    /\ Done(u)
    /\ UNCHANGED <<db, limits, loader, faults, cut>>

Dispatcher ==
    \/ Tick
    \/ \E u \in Uids :
        \/ FindEntry(u) \/ ReadCps(u, "cps", "add") \/ AddEntry(u)
        \/ ReadBranchCps(u) \/ CompareGeoCps(u) \/ GeoCpsOpen(u) \/ WriteCps(u)

-----------------------------------------------------------------------------

Operator ==
    \/ \E u \in Uids :
        Delete(u) \/ \E item \in Items[u] : Upload(u, item) \/ EditBranch(u, item)
    \/ \E g \in Geos : \E item \in Items[g] : EditGeo(g, item)

Next == Operator \/ Loader \/ FetchFails \/ FetchGeosPart \/ Dispatcher

Spec == Init /\ [][Next]_vars

(***************************************************************************)
(* The tickers and the scheduler keep both goroutines running; and as the  *)
(* dispatcher passes fifty times a second and limits are loaded once, not  *)
(* every pass is met by a load.                                            *)
(***************************************************************************)
ClearPass == disp.pc = "task" /\ disp.todo = {} /\ disp.clear

LiveSpec == Spec /\ WF_vars(Loader) /\ WF_vars(Dispatcher) /\ []<>ClearPass

-----------------------------------------------------------------------------

(***************************************************************************)
(* The cps of a branch overrides its geo's only where the geo leaves it    *)
(* open: whatever is loaded between the three reads of the comparison, the *)
(* zero the dispatcher reads of a geo is the one configured, never that of *)
(* an entry limitsMap does not have yet.  (Only geos read in part, which   *)
(* fetchGeos takes for all of them, may be missed.)                        *)
(***************************************************************************)
OverrideIsConfigured ==
    \A u \in Uids :
        At("write", u) => cut \/ \E item \in Items[TaskGeo[u]] : item.cps = 0

(***************************************************************************)
(* A configuration that is left alone is what limitsMap comes to hold, for *)
(* geos and branches, and a deleted branch leaves it: after failed queries *)
(* and edits between the two, as long as there is any task.                *)
(***************************************************************************)
Settled(k) == limits[k] = (IF k \in Uids THEN RowOf(k) ELSE db[k])

EditsReachLimits ==
    \A k \in Keys : \A item \in Items[k] \cup {Deleted} :
        <>[](db[k] = item /\ Existing # {}) => <>[](Filling \/ Settled(k))

(***************************************************************************)
(* Where the geo leaves it open, the working cps of a branch comes to be   *)
(* the configured one again and again, although a read in the middle of a  *)
(* load may make it zero (the shortest pause) for a pass.                  *)
(***************************************************************************)
CpsCatchesUp ==
    \A u \in Uids : \A item \in Items[u] :
        item.cps > 0 /\ <>[](db[u] = item /\ db[TaskGeo[u]].cps = 0)
            => []<>(work[u] = item.cps)

(***************************************************************************)
(* app/database.go:154 "limits are read once a second", upload.html:91     *)
(* "calls per second (no more than)": a branch at work, with a cps it was  *)
(* configured with at some time, comes to the cps it is left with.         *)
(***************************************************************************)
CpsFollowsLimits ==
    \A u \in Uids : \A item \in Items[u] :
        <>[](db[u] = item /\ work[u] \notin {NoItem, 0}) => []<>(work[u] = item.cps)

====
