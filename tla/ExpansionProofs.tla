--------------------------- MODULE ExpansionProofs ---------------------------
(***************************************************************************)
(* Theorems about TaskExpansion, for any tasks, files and faults.          *)
(***************************************************************************)
EXTENDS TaskExpansion, TLAPS

LEMMA InitTypeOK == Init => TypeOK
  BY DEF Init, TypeOK, States

LEMMA StepTypeOK == TypeOK /\ [Next]_vars => TypeOK'
<1> SUFFICES ASSUME TypeOK, [Next]_vars PROVE TypeOK'
  OBVIOUS
<1> USE DEF TypeOK, States, tables, worker
<1>1. ASSUME NEW t \in Tasks, Upload(t) \/ Delete(t) PROVE TypeOK'
  BY <1>1 DEF Upload, Delete
<1>2. ASSUME NEW t \in Tasks, Enable(t) PROVE TypeOK'
  BY <1>2 DEF Enable
<1>3. CASE Tick \/ PartialTick
  BY <1>3 DEF Tick, PartialTick, Ready
<1>4. ASSUME NEW t \in Tasks, Begin(t) PROVE TypeOK'
  BY <1>4 DEF Begin
<1>5. CASE InsertRow
  BY <1>5 DEF InsertRow, NextRecord
<1>6. CASE CsvError \/ SqlError
  BY <1>6 DEF CsvError, SqlError, Rollback
<1>7. CASE Commit
  <2>1. cur \in Tasks
    BY <1>7 DEF Commit
  <2>2. ready' \in [Tasks -> States]
    BY <1>7, <2>1 DEF Commit
  <2>3. queued' \in [Tasks -> Nat]
    BY <1>7, <2>1, SMTT(30) DEF Commit
  <2>4. reports' \in [Tasks -> Nat]
    BY <1>7, <2>1 DEF Commit
  <2>5. rowsTotal' \in [Tasks -> Nat]
    BY <1>7, <2>1, SMTT(30) DEF Commit
  <2>. QED
    BY <1>7, <2>2, <2>3, <2>4, <2>5 DEF Commit
<1>8. CASE Panic \/ Crash
  BY <1>8 DEF Panic, Crash, Restart
<1>9. CASE UNCHANGED vars \/ \E g \in Geos : MakeGeo(g)
  BY <1>9 DEF vars, MakeGeo
<1>. QED
  BY <1>1, <1>2, <1>3, <1>4, <1>5, <1>6, <1>7, <1>8, <1>9 DEF Next, Operator, Worker

(***************************************************************************)
(* A task that is ready, or that the worker still has in its snapshot, has *)
(* been made ready once more than it was expanded.                         *)
(***************************************************************************)
Owed ==
    /\ \A t \in Tasks : reports[t] <= enables[t]
    /\ \A t \in Tasks : ready[t] = "ready" \/ t \in todo => reports[t] < enables[t]

LEMMA StepOwed == TypeOK /\ Owed /\ [Next]_vars => Owed'
<1> SUFFICES ASSUME TypeOK, Owed, [Next]_vars PROVE Owed'
  OBVIOUS
<1> USE DEF TypeOK, Owed, States, tables, worker
<1>1. ASSUME NEW t \in Tasks, Upload(t) \/ Delete(t) PROVE Owed'
  BY <1>1 DEF Upload, Delete
<1>2. ASSUME NEW t \in Tasks, Enable(t) PROVE Owed'
  BY <1>2 DEF Enable
<1>3. CASE Tick \/ PartialTick
  BY <1>3 DEF Tick, PartialTick, Ready
<1>4. CASE CsvError \/ SqlError
  BY <1>4 DEF CsvError, SqlError, Rollback
<1>5. CASE Commit
  BY <1>5 DEF Commit
<1>6. CASE Panic \/ Crash
  BY <1>6 DEF Panic, Crash, Restart
<1>7. CASE \/ InsertRow \/ UNCHANGED vars
           \/ (\E t \in Tasks : Begin(t)) \/ (\E g \in Geos : MakeGeo(g))
  BY <1>7 DEF InsertRow, Begin, MakeGeo, vars
<1>. QED
  BY <1>1, <1>2, <1>3, <1>4, <1>5, <1>6, <1>7 DEF Next, Operator, Worker

(***************************************************************************)
(* Each time a task is made ready its file is expanded at most once, for   *)
(* any number of tasks, crashes and failed statements.                     *)
(***************************************************************************)
THEOREM ExpandedOncePerEnable == Spec => []OncePerEnable
<1>1. Init => Owed
  BY DEF Init, Owed
<1>2. Owed => OncePerEnable
  BY DEF Owed, OncePerEnable
<1>. QED
  BY <1>1, <1>2, InitTypeOK, StepTypeOK, StepOwed, PTL DEF Spec

-----------------------------------------------------------------------------

LEMMA Distribute == \A m, n \in Nat : (m + 1) * n = m * n + n
  OBVIOUS

LEMMA StepWhole == TypeOK /\ WholeFiles /\ [Next]_vars => WholeFiles'
<1> SUFFICES ASSUME TypeOK, WholeFiles, [Next]_vars PROVE WholeFiles'
  OBVIOUS
<1>1. CASE Commit
  <2>1. ASSUME NEW t \in Tasks
        PROVE  queued'[t] = reports'[t] * Len(File[t]) /\ rowsTotal'[t] = queued'[t]
    <3>1. /\ queued[t] = reports[t] * Len(File[t]) /\ rowsTotal[t] = queued[t]
          /\ reports[t] \in Nat /\ Len(File[t]) \in Nat
      BY FileData DEF TypeOK, WholeFiles
    <3>2. CASE t = cur
      <4>1. /\ queued'[t] = queued[t] + Len(File[t])
            /\ rowsTotal'[t] = rowsTotal[t] + Len(File[t])
            /\ reports'[t] = reports[t] + 1
        BY <1>1, <3>2 DEF Commit, TypeOK
      <4>. QED
        BY <3>1, <4>1, Distribute
    <3>3. CASE t # cur
      BY <1>1, <3>1, <3>3 DEF Commit, TypeOK
    <3>. QED
      BY <3>2, <3>3
  <2>. QED
    BY <2>1 DEF WholeFiles
<1>2. CASE ~Commit
  <2>1. UNCHANGED tables
    BY <1>2 DEF Next, Operator, Worker, Upload, Enable, Delete, MakeGeo, Tick,
                PartialTick, Begin, InsertRow, CsvError, SqlError, Rollback, Panic, Crash, Restart, vars
  <2>. QED
    BY <2>1 DEF WholeFiles, tables
<1>. QED
  BY <1>1, <1>2

(***************************************************************************)
(* Files are expanded whole or not at all, for files of any length.        *)
(***************************************************************************)
THEOREM FilesStayWhole == Spec => []WholeFiles
<1>1. ASSUME Init PROVE WholeFiles
  <2>1. \A t \in Tasks : Len(File[t]) \in Nat /\ 0 = 0 * Len(File[t])
    BY FileData
  <2>. QED
    BY <1>1, <2>1 DEF Init, WholeFiles
<1>. QED
  BY <1>1, InitTypeOK, StepTypeOK, StepWhole, PTL DEF Spec

(***************************************************************************)
(* Every variable keeps its type.                                          *)
(***************************************************************************)
THEOREM ExpansionTypeCorrect == Spec => []TypeOK
  BY InitTypeOK, StepTypeOK, PTL DEF Spec

-----------------------------------------------------------------------------

\* Only two steps show: a task is made ready, a transaction commits.
LEMMA HiddenSteps ==
  ASSUME [Next]_vars, ~Commit, \A t \in Tasks : ~Enable(t)
  PROVE  UNCHANGED Queue!vars
<1>1. UNCHANGED <<tables, enables>>
  BY DEF Next, Operator, Worker, Upload, Delete, MakeGeo, Tick, PartialTick, Begin, InsertRow,
         CsvError, SqlError, Rollback, Panic, Crash, Restart, vars, tables
<1>. QED
  BY <1>1 DEF Queue!vars, tables

LEMMA StepQueue == TypeOK /\ Owed /\ [Next]_vars => [Queue!Next]_(Queue!vars)
<1> SUFFICES ASSUME TypeOK, Owed, [Next]_vars
             PROVE  Queue!Next \/ UNCHANGED Queue!vars
  OBVIOUS
<1>1. ASSUME NEW t \in Tasks, Enable(t) PROVE Queue!Next
  <2>1. Queue!Enable(t)
    BY <1>1 DEF Enable, Queue!Enable, tables
  <2>. QED
    BY <2>1 DEF Queue!Next
<1>2. CASE Commit
  <2>1. cur \in Tasks /\ reports[cur] < enables[cur]
    BY <1>2 DEF Commit, TypeOK, Owed
  <2>2. pos = [t \in Tasks |-> Len(File[t])][cur]
    BY <1>2, <2>1 DEF Commit
  <2>3. Queue!QueueFile(cur)
    BY <1>2, <2>1, <2>2 DEF Commit, Queue!QueueFile
  <2>. QED
    BY <2>1, <2>3 DEF Queue!Next
<1>3. CASE ~Commit /\ \A t \in Tasks : ~Enable(t)
  BY <1>3, HiddenSteps
<1>. QED
  BY <1>1, <1>2, <1>3

(***************************************************************************)
(* The expansion implements QueuedFiles: whole files appear, one for each  *)
(* time a task was made ready, whatever fails in between.                  *)
(***************************************************************************)
THEOREM ImplementsQueuedFiles == Spec => FilesQueued
<1>1. Init => Owed
  BY DEF Init, Owed
<1>2. Init => Queue!Init
  BY DEF Init, Queue!Init
<1>. QED
  BY <1>1, <1>2, InitTypeOK, StepTypeOK, StepOwed, StepQueue, PTL
     DEF Spec, FilesQueued, Queue!Spec
====
