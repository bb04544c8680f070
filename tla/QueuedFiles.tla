---------------------------- MODULE QueuedFiles ----------------------------
(***************************************************************************)
(* What the expansion of tasks promises: each time a task is made ready    *)
(* its file may be queued once, whole and in one step, with its report.    *)
(* Transactions, errors and restarts do not show.                          *)
(***************************************************************************)
EXTENDS Naturals

CONSTANTS
    Tasks,
    Size        \* rows of the file of each task

VARIABLES
    enables,    \* how often a task was made ready
    queued,     \* its rows in calls_queue
    reports,    \* its rows in dialer_branches
    rowsTotal   \* the sum of their rows_total

vars == <<enables, queued, reports, rowsTotal>>

Init ==
    /\ enables = [t \in Tasks |-> 0]
    /\ queued = [t \in Tasks |-> 0]
    /\ reports = [t \in Tasks |-> 0]
    /\ rowsTotal = [t \in Tasks |-> 0]

Enable(t) ==
    /\ enables' = [enables EXCEPT ![t] = @ + 1]
    /\ UNCHANGED <<queued, reports, rowsTotal>>

QueueFile(t) ==
    /\ reports[t] < enables[t]
    /\ queued' = [queued EXCEPT ![t] = @ + Size[t]]
    /\ reports' = [reports EXCEPT ![t] = @ + 1]
    /\ rowsTotal' = [rowsTotal EXCEPT ![t] = @ + Size[t]]
    /\ UNCHANGED enables

Next == \E t \in Tasks : Enable(t) \/ QueueFile(t)

Spec == Init /\ [][Next]_vars

====
