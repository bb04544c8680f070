---------------------------- MODULE DialerBounds ----------------------------
(***************************************************************************)
(* How far the lines in use exceed the configured limits, for every value  *)
(* of the constants.                                                       *)
(***************************************************************************)
EXTENDS DialerProofs

Cap(k) == MaxLines[k] + Cardinality(RowsOf(k))

(***************************************************************************)
(* While a pass launches its batch, the lines in use and the rows still to *)
(* be launched stay below the cap together; the copy the pass may write    *)
(* back is below it too.                                                   *)
(***************************************************************************)
PassBounded(u) ==
    /\ disp.pc = "calls" /\ Current(u) =>
        \A k \in {u, TaskGeo[u]} : nlines[k] + Cardinality(disp.batch) < Cap(k)
    /\ disp.pc = "write" /\ Current(u) => disp.copy < Cap(u)

LinesBounded ==
    /\ \A k \in Keys : limits[k].nlines <= MaxLines[k] /\ nlines[k] < Cap(k)
    /\ \A u \in Uids : PassBounded(u)

LEMMA CapType ==
  ASSUME NEW k \in Keys
  PROVE  Cap(k) \in Nat /\ Cap(k) > 0 /\ IsFiniteSet(RowsOf(k))
<1>1. IsFiniteSet(RowsOf(k)) /\ Cardinality(RowsOf(k)) \in Nat
  BY FiniteData, SubsetCard DEF RowsOf
<1>. QED
  BY <1>1, LimitData DEF Cap

LEMMA InitBounded == Init => LinesBounded
  BY CapType, LimitData DEF Init, NoItem, LinesBounded, PassBounded, IdleDisp, Cap

LEMMA BatchCard ==
  ASSUME TypeOK
  PROVE  /\ IsFiniteSet(disp.batch) /\ Cardinality(disp.batch) \in Nat
         /\ \A r \in disp.batch : Cardinality(disp.batch \ {r}) = Cardinality(disp.batch) - 1
         /\ \A r \in disp.batch : Cardinality(disp.batch) >= 1
<1>1. disp.batch \in SUBSET Rows
  BY DEF TypeOK, Dispatches
<1>2. IsFiniteSet(disp.batch) /\ Cardinality(disp.batch) \in Nat
  BY <1>1, FiniteData, SubsetCard
<1>3. ASSUME NEW r \in disp.batch
      PROVE  /\ Cardinality(disp.batch \ {r}) = Cardinality(disp.batch) - 1
             /\ Cardinality(disp.batch) >= 1
  <2>1. Cardinality(disp.batch \ {r}) = Cardinality(disp.batch) - 1
    BY <1>2, FS_RemoveElement
  <2>2. Cardinality(disp.batch \ {r}) \in Nat
    BY <1>2, FS_RemoveElement, FS_CardinalityType
  <2>. QED
    BY <1>2, <2>1, <2>2
<1>. QED
  BY <1>2, <1>3

\* Steps of the others lower counters at most, and limits stay within MaxLines.
LEMMA BoundedFrame ==
  ASSUME TypeOK, TypeOK', LinesBounded, UNCHANGED disp,
         \A k \in Keys : nlines'[k] <= nlines[k],
         \A k \in Keys : limits'[k].nlines <= MaxLines[k]
  PROVE  LinesBounded'
<1>1. ASSUME NEW k \in Keys PROVE nlines[k] \in Int /\ nlines'[k] \in Int /\ Cap(k) \in Nat
  BY CapType DEF TypeOK
<1>2. ASSUME NEW k \in Keys PROVE nlines'[k] < Cap(k)
  BY <1>1 DEF LinesBounded
<1>3. ASSUME NEW u \in Uids PROVE PassBounded(u)'
  <2>1. u \in Keys /\ TaskGeo[u] \in Keys
    BY TaskData DEF Keys
  <2>. QED
    BY <1>1, <2>1, BatchCard DEF LinesBounded, PassBounded, Current
<1>. QED
  BY <1>2, <1>3 DEF LinesBounded, Cap

LEMMA DispatcherBounded ==
  ASSUME TypeOK, TypeOK', LinesBounded, Dispatcher
  PROVE  LinesBounded'
<1>0. ASSUME NEW u \in Uids PROVE u \in Keys /\ TaskGeo[u] \in Keys
  BY TaskData DEF Keys
<1>1. UNCHANGED limits
  BY DEF Dispatcher, Tick, BeginTask, WriteWork, NoLine, ReadCalls, Launch, SkipRow
<1>2. ASSUME disp'.pc \in {"task", "check"}, UNCHANGED nlines PROVE LinesBounded'
  BY <1>1, <1>2 DEF LinesBounded, PassBounded, Cap
<1>3. ASSUME NEW u \in Uids, NEW r \in disp.batch, disp.pc = "calls", Current(u),
             disp' = AfterRow(u, r)
      PROVE  \/ disp'.pc = "task"
             \/ /\ disp'.pc = "calls" /\ disp'.todo = disp.todo
                /\ disp'.batch = disp.batch \ {r}
  BY <1>3 DEF AfterRow, Finished, IdleDisp, TypeOK, Dispatches
<1>4. CASE Tick
  BY <1>2, <1>4 DEF Tick, TypeOK, Dispatches
<1>5. ASSUME NEW u \in Uids, BeginTask(u) PROVE LinesBounded'
  <2>1. /\ disp'.todo = disp.todo /\ disp'.pc \in {"write", "check"}
        /\ disp'.pc = "write" => disp'.copy = nlines[u]
    BY <1>5 DEF BeginTask, TypeOK, Dispatches
  <2>2. \A v \in Uids : Current(v)' => v = u
    BY <1>5, <2>1, TaskData DEF BeginTask, Current
  <2>. QED
    BY <1>0, <1>1, <1>5, <2>1, <2>2 DEF BeginTask, LinesBounded, PassBounded, Cap
<1>6. ASSUME NEW u \in Uids, WriteWork(u) PROVE LinesBounded'
  <2>1. disp'.pc = "check" /\ disp.copy < Cap(u)
    BY <1>6 DEF WriteWork, TypeOK, Dispatches, LinesBounded, PassBounded
  <2>2. \A k \in Keys : nlines'[k] < Cap(k)
    BY <1>6, <2>1 DEF WriteWork, TypeOK, LinesBounded
  <2>. QED
    BY <1>1, <2>1, <2>2 DEF LinesBounded, PassBounded, Cap
<1>7. ASSUME NEW u \in Uids, NoLine(u) PROVE LinesBounded'
  BY <1>2, <1>7 DEF NoLine, Finished, IdleDisp
<1>8. ASSUME NEW u \in Uids, NEW rows \in SUBSET Rows, ReadCalls(u, rows) PROVE LinesBounded'
  <2>1. CASE rows = {}
    BY <1>2, <1>8, <2>1 DEF ReadCalls, Finished, IdleDisp
  <2>2. CASE rows # {}
    <3>1. disp'.pc = "calls" /\ disp'.todo = disp.todo /\ disp'.batch = rows
      BY <1>8, <2>2 DEF ReadCalls, TypeOK, Dispatches
    <3>2. \A v \in Uids : Current(v)' => v = u
      BY <1>8, <3>1, TaskData DEF ReadCalls, Current
    <3>3. ASSUME NEW k \in {u, TaskGeo[u]} PROVE nlines[k] + Cardinality(rows) < Cap(k)
      <4>1. k \in Keys /\ nlines[k] < limits[k].nlines /\ limits[k].nlines <= MaxLines[k]
        BY <1>0, <1>8 DEF ReadCalls, HasLine, LinesBounded
      <4>2. nlines[k] \in Int /\ limits[k].nlines \in Nat /\ MaxLines[k] \in Nat
        BY <4>1, LimitData DEF TypeOK, Items
      <4>3. rows \in SUBSET RowsOf(k)
        BY <1>8 DEF ReadCalls, ReadyRows, RowsOf, KeysOf
      <4>4. Cardinality(rows) <= Cardinality(RowsOf(k))
            /\ Cardinality(rows) \in Nat /\ Cardinality(RowsOf(k)) \in Nat
        BY <4>1, <4>3, CapType, SubsetCard
      <4>. QED
        BY <4>1, <4>2, <4>4 DEF Cap
    <3>4. ASSUME NEW v \in Uids PROVE PassBounded(v)'
      BY <1>8, <3>1, <3>2, <3>3 DEF ReadCalls, PassBounded, Cap
    <3>. QED
      BY <1>1, <1>8, <3>4 DEF ReadCalls, LinesBounded, Cap
  <2>. QED
    BY <2>1, <2>2
<1>9. ASSUME NEW u \in Uids, NEW r \in Rows, SkipRow(u, r) PROVE LinesBounded'
  <2>1. r \in disp.batch /\ UNCHANGED nlines /\ disp.pc = "calls" /\ Current(u)
    BY <1>9 DEF SkipRow
  <2>2. CASE disp'.pc = "task"
    BY <1>2, <2>1, <2>2
  <2>3. CASE disp'.pc = "calls" /\ disp'.todo = disp.todo /\ disp'.batch = disp.batch \ {r}
    <3>1. ASSUME NEW v \in Uids PROVE PassBounded(v)'
      <4>1. v \in Keys /\ TaskGeo[v] \in Keys
        BY <1>0
      <4>2. \A k \in Keys : nlines[k] \in Int /\ Cap(k) \in Nat
        BY CapType DEF TypeOK
      <4>3. Cardinality(disp'.batch) \in Nat /\ Cardinality(disp.batch) \in Nat
            /\ Cardinality(disp'.batch) < Cardinality(disp.batch)
        BY <2>1, <2>3, BatchCard
      <4>4. PassBounded(v)
        BY DEF LinesBounded
      <4>5. Current(v)' => Current(v)
        BY <2>1, <2>3 DEF Current
      <4>6. SUFFICES ASSUME Current(v)', NEW k \in {v, TaskGeo[v]}
                     PROVE  nlines'[k] + Cardinality(disp'.batch) < Cap(k)
        BY <2>3 DEF PassBounded, Cap
      <4>7. nlines[k] + Cardinality(disp.batch) < Cap(k)
        BY <2>1, <4>4, <4>5, <4>6 DEF PassBounded
      <4>. QED
        BY <2>1, <4>1, <4>2, <4>3, <4>7
    <3>. QED
      BY <1>1, <2>1, <3>1 DEF LinesBounded, Cap
  <2>. QED
    BY <1>3, <1>9, <2>1, <2>2, <2>3 DEF SkipRow
<1>10. ASSUME NEW u \in Uids, NEW r \in Rows, NEW p \in Calls, Launch(u, r, p)
       PROVE  LinesBounded'
  <2>1. r \in disp.batch /\ disp.pc = "calls" /\ Current(u)
    BY <1>10 DEF Launch
  <2>2. ASSUME NEW k \in Keys
        PROVE  /\ nlines'[k] <= nlines[k] + 1 /\ nlines'[k] \in Int /\ nlines[k] \in Int
               /\ k \notin {u, TaskGeo[u]} => nlines'[k] = nlines[k]
               /\ Cap(k) \in Nat
    BY <1>10, CapType DEF Launch, LineGet, TypeOK
  <2>3. \A k \in {u, TaskGeo[u]} : nlines[k] + Cardinality(disp.batch) < Cap(k)
    BY <2>1 DEF LinesBounded, PassBounded
  <2>4. ASSUME NEW k \in Keys PROVE nlines'[k] < Cap(k)
    <3>1. CASE k \in {u, TaskGeo[u]}
      BY <2>1, <2>2, <2>3, <3>1, BatchCard
    <3>2. CASE k \notin {u, TaskGeo[u]}
      BY <2>2, <3>2 DEF LinesBounded
    <3>. QED
      BY <3>1, <3>2
  <2>5. ASSUME NEW v \in Uids PROVE PassBounded(v)'
    <3>1. CASE disp'.pc = "task"
      BY <3>1 DEF PassBounded
    <3>2. CASE disp'.pc = "calls" /\ disp'.todo = disp.todo /\ disp'.batch = disp.batch \ {r}
      <4>1. Current(v)' => v = u
        BY <2>1, <3>2, TaskData DEF Current
      <4>2. \A k \in {u, TaskGeo[u]} : nlines'[k] + Cardinality(disp'.batch) < Cap(k)
        BY <1>0, <2>1, <2>2, <2>3, <3>2, BatchCard
      <4>. QED
        BY <3>2, <4>1, <4>2 DEF PassBounded, Cap
    <3>. QED
      BY <1>3, <1>10, <2>1, <3>1, <3>2 DEF Launch
  <2>. QED
    BY <1>1, <2>4, <2>5 DEF LinesBounded, Cap
<1>. QED
  BY <1>4, <1>5, <1>6, <1>7, <1>8, <1>9, <1>10 DEF Dispatcher

LEMMA OthersBounded ==
  ASSUME TypeOK, TypeOK', LinesBounded,
         Handler \/ Asterisk \/ Environment \/ UNCHANGED vars
         \/ \E p \in Calls : Goroutine(p)
  PROVE  LinesBounded'
<1>1. ASSUME UNCHANGED <<disp, limits, nlines>> PROVE LinesBounded'
  <2>1. \A k \in Keys : nlines'[k] <= nlines[k]
    BY <1>1 DEF TypeOK
  <2>. QED
    BY <1>1, <2>1, BoundedFrame DEF LinesBounded
<1>2. ASSUME NEW k \in Keys, nlines' = LineRelease(k), UNCHANGED <<disp, limits>>
      PROVE  LinesBounded'
  <2>1. \A j \in Keys : nlines'[j] <= nlines[j]
    BY <1>2 DEF LineRelease, TypeOK
  <2>. QED
    BY <1>2, <2>1, BoundedFrame DEF LinesBounded
<1>3. CASE ReleaseBranch \/ ReleaseGeo
  <2>1. ASSUME NEW k, k \notin Keys, nlines' = LineRelease(k) PROVE UNCHANGED nlines
    BY <2>1 DEF LineRelease, TypeOK
  <2>. QED
    BY <1>1, <1>2, <1>3, <2>1 DEF ReleaseBranch, ReleaseGeo
<1>4. ASSUME NEW k \in Keys, NEW item \in LimitItems[k], Reload(k, item) PROVE LinesBounded'
  <2>1. item.nlines <= MaxLines[k]
    BY LimitData
  <2>2. \A j \in Keys : limits'[j].nlines <= MaxLines[j]
    BY <1>4, <2>1 DEF Reload, LinesBounded, TypeOK
  <2>3. \A j \in Keys : nlines'[j] <= nlines[j]
    BY <1>4 DEF Reload, TypeOK
  <2>. QED
    BY <1>4, <2>2, <2>3, BoundedFrame DEF Reload
<1>5. ASSUME NEW sent \in BOOLEAN, Crash(sent) PROVE LinesBounded'
  <2>1. disp'.pc = "task"
    BY <1>5 DEF Crash, IdleDisp
  <2>2. ASSUME NEW k \in Keys PROVE limits'[k].nlines <= MaxLines[k] /\ nlines'[k] < Cap(k)
    BY <1>5, CapType, LimitData DEF Crash, NoItem
  <2>. QED
    BY <2>1, <2>2 DEF LinesBounded, PassBounded, Cap
<1>6. CASE \/ TakeEvent \/ UpdateEntry \/ DeleteEntry \/ Asterisk \/ UNCHANGED vars
           \/ \E p \in Calls : Goroutine(p)
           \/ \E q \in Queues, n \in Available : PollQueue(q, n)
           \/ \E u \in Uids : ToggleTask(u) \/ ToggleWindow(u)
           \/ \E r \in Rows : RetryElapses(r)
           \/ LoseEvents
  <2>1. UNCHANGED <<disp, limits, nlines>>
    BY <1>6
       DEF TakeEvent, UpdateEntry, DeleteEntry, Asterisk, ComesUp, Answered, HangsUp,
           ChannelStep, Goroutine, FindEntry, AddEntry, MinusRetry, Receive, Originate,
           PollQueue, ToggleTask, ToggleWindow, RetryElapses, LoseEvents, memory, vars
  <2>. QED
    BY <1>1, <2>1
<1>. QED
  BY <1>3, <1>4, <1>5, <1>6 DEF Handler, Environment

(***************************************************************************)
(* The limits are overshot by less than the rows of the branch or geo,     *)
(* for every configuration: the check is one pass old at most, and neither *)
(* leaked lines nor edits of the limits add to it.                         *)
(***************************************************************************)
THEOREM OvershootIsBounded == Spec => []OvershootBounded
<1>1. Init => TypeOK /\ Filed /\ LinesBounded
  BY InitTypeOK, InitFiled, InitBounded
<1>2. TypeOK /\ Filed /\ LinesBounded /\ [Next]_vars => (TypeOK /\ Filed /\ LinesBounded)'
  BY StepTypeOK, StepFiled, DispatcherBounded, OthersBounded DEF Next
<1>3. LinesBounded => OvershootBounded
  BY DEF LinesBounded, OvershootBounded, Cap
<1>. QED
  BY <1>1, <1>2, <1>3, PTL DEF Spec
====
