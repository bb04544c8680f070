---------------------------- MODULE DialerProofs ----------------------------
(***************************************************************************)
(* Theorems about Dialer for every value of its constants.                 *)
(***************************************************************************)
EXTENDS Dialer, FiniteSetTheorems, SequenceTheorems, TLAPS

\* Every launched call, every entry and every busy handler has its row, and an
\* entry is filed under the number of its row.
Filed ==
    /\ \A p \in Calls : call[p].pc # "free" => call[p].row # NoRow
    /\ hnd.pc # "recv" => hnd.row # NoRow
    /\ \A d \in Dsts : Online(d) => Dst[callEntry[d].row] = d

-----------------------------------------------------------------------------
(* Type correctness.                                                       *)

(* The records that steps update field by field.                           *)

LEMMA CallPc ==
  ASSUME call \in [Calls -> CallRecords], NEW p \in Calls, NEW pc \in CallPcs
  PROVE  [call EXCEPT ![p].pc = pc] \in [Calls -> CallRecords]
  BY DEF CallRecords

LEMMA CallPaid ==
  ASSUME call \in [Calls -> CallRecords], NEW p \in Calls, NEW pc \in CallPcs
  PROVE  [call EXCEPT ![p].pc = pc, ![p].paid = TRUE] \in [Calls -> CallRecords]
  BY DEF CallRecords

LEMMA CallRow ==
  ASSUME call \in [Calls -> CallRecords], NEW p \in Calls
  PROVE  call[p].row \in Rows \cup {NoRow}
  BY DEF CallRecords

LEMMA DispPcCopy ==
  ASSUME disp \in Dispatches, NEW i \in Int,
         NEW pc \in {"task", "write", "check", "calls"}
  PROVE  [disp EXCEPT !.pc = pc, !.copy = i] \in Dispatches
  BY DEF Dispatches

LEMMA DispPc ==
  ASSUME disp \in Dispatches, NEW pc \in {"task", "write", "check", "calls"}
  PROVE  [disp EXCEPT !.pc = pc] \in Dispatches
  BY DEF Dispatches

LEMMA HndPc ==
  ASSUME hnd \in Handlings,
         NEW pc \in {"recv", "update", "delete", "relBranch", "relGeo"}
  PROVE  [hnd EXCEPT !.pc = pc] \in Handlings
  BY DEF Handlings

LEMMA HndRecord ==
  ASSUME NEW pc \in {"recv", "update", "delete", "relBranch", "relGeo"},
         NEW r \in Rows \cup {NoRow}, NEW s \in 0..2
  PROVE  [pc |-> pc, row |-> r, state |-> s] \in Handlings
  BY DEF Handlings

LEMMA EntryRecord ==
  ASSUME NEW r \in Rows \cup {NoRow}, NEW s \in 0..2
  PROVE  [row |-> r, state |-> s] \in Entries
  BY DEF Entries

LEMMA InitTypeOK == Init => TypeOK
  BY LimitData, TaskData, RowData
     DEF Init, TypeOK, NoItem, NoEntry, IdleDisp, IdleHnd, NewCall, CallPcs, Keys,
         Items, Entries, CallRecords, Dispatches, Handlings, LegStates

LEMMA DispatcherTypeOK == TypeOK /\ Dispatcher => TypeOK'
<1> SUFFICES ASSUME TypeOK, Dispatcher PROVE TypeOK'
  OBVIOUS
<1> USE DEF TypeOK
<1>1. CASE Tick
  BY <1>1 DEF Tick, database, Dispatches
<1>2. ASSUME NEW u \in Uids, BeginTask(u) PROVE TypeOK'
  <2>1. nlines[u] \in Int /\ {u, TaskGeo[u]} \subseteq Keys
    BY TaskData DEF Keys
  <2>2. disp' \in Dispatches
    BY <1>2, <2>1, DispPc, DispPcCopy DEF BeginTask
  <2>. QED
    BY <1>2, <2>1, <2>2 DEF BeginTask, database
<1>3. ASSUME NEW u \in Uids, WriteWork(u) PROVE TypeOK'
  <2>1. disp.copy \in Int
    BY DEF Dispatches
  <2>2. 0 \in Int /\ "check" \in {"task", "write", "check", "calls"}
    OBVIOUS
  <2>3. [disp EXCEPT !.pc = "check", !.copy = 0] \in Dispatches
    BY <2>2, DispPcCopy
  <2>. QED
    BY <1>3, <2>1, <2>3 DEF WriteWork, database
<1>4. ASSUME NEW u \in Uids, disp' = Finished(u) PROVE disp' \in Dispatches
  BY <1>4 DEF Finished, IdleDisp, Dispatches
<1>5. ASSUME NEW u \in Uids, NoLine(u) PROVE TypeOK'
  BY <1>4, <1>5 DEF NoLine, database
<1>6. ASSUME NEW u \in Uids, NEW rows \in SUBSET Rows, ReadCalls(u, rows) PROVE TypeOK'
  <2>1. disp' \in Dispatches
    BY <1>4, <1>6 DEF ReadCalls, Dispatches
  <2>. QED
    BY <1>6, <2>1 DEF ReadCalls, database
<1>7. ASSUME NEW u \in Uids, NEW r \in Rows, disp' = AfterRow(u, r) PROVE disp' \in Dispatches
  BY <1>4, <1>7 DEF AfterRow, Dispatches
<1>8. ASSUME NEW u \in Uids, NEW r \in Rows, NEW p \in Calls, Launch(u, r, p) PROVE TypeOK'
  <2>1. call' \in [Calls -> CallRecords]
    BY <1>8 DEF Launch, CallRecords, CallPcs
  <2>2. nlines' \in [Keys -> Int]
    BY <1>8 DEF Launch, LineGet
  <2>. QED
    BY <1>7, <1>8, <2>1, <2>2 DEF Launch, database
<1>9. ASSUME NEW u \in Uids, NEW r \in Rows, SkipRow(u, r) PROVE TypeOK'
  BY <1>7, <1>9 DEF SkipRow, database
<1>. QED
  BY <1>1, <1>2, <1>3, <1>5, <1>6, <1>8, <1>9 DEF Dispatcher

LEMMA GoroutineTypeOK ==
  ASSUME TypeOK, NEW p \in Calls, Goroutine(p)
  PROVE  TypeOK'
<1>1. CASE FindEntry(p)
  <2>1. call' \in [Calls -> CallRecords]
    BY <1>1, CallPc DEF FindEntry, TypeOK, CallPcs
  <2>. QED
    BY <1>1, <2>1 DEF FindEntry, TypeOK, memory, database
<1>2. CASE AddEntry(p)
  <2>1. call' \in [Calls -> CallRecords]
    BY <1>2, CallPc DEF AddEntry, TypeOK, CallPcs
  <2>2. [row |-> call[p].row, state |-> 0] \in Entries
    <3>1. call[p].row \in Rows \cup {NoRow} /\ 0 \in 0..2
      BY CallRow DEF TypeOK
    <3>. QED
      BY <3>1, EntryRecord
  <2>3. callEntry' \in [Dsts -> Entries]
    BY <1>2, <2>2 DEF AddEntry, TypeOK
  <2>. QED
    BY <1>2, <2>1, <2>3 DEF AddEntry, TypeOK, database
<1>3. CASE MinusRetry(p)
  <2>1. "send" \in CallPcs
    BY DEF CallPcs
  <2>2. call' \in [Calls -> CallRecords]
    <3>1. /\ [call EXCEPT ![p].pc = "send"] \in [Calls -> CallRecords]
          /\ [call EXCEPT ![p].pc = "send", ![p].paid = TRUE] \in [Calls -> CallRecords]
      BY <2>1, CallPc, CallPaid DEF TypeOK
    <3>. QED
      BY <1>3, <3>1 DEF MinusRetry
  <2>3. retries' \in [Rows -> Int] /\ due' \subseteq Rows
    BY <1>3 DEF MinusRetry, TypeOK
  <2>. QED
    BY <1>3, <2>2, <2>3 DEF MinusRetry, TypeOK, memory
<1>4. CASE Receive(p)
  <2>1. call' \in [Calls -> CallRecords]
    BY <1>4, CallPc DEF Receive, TypeOK, CallPcs
  <2>. QED
    BY <1>4, <2>1 DEF Receive, TypeOK, memory, database
<1>5. CASE Originate(p)
  <2>1. "dialed" \in CallPcs /\ "failed" \in CallPcs
    BY DEF CallPcs
  <2>2. call' \in [Calls -> CallRecords]
    BY <1>5, <2>1, CallPc DEF Originate, TypeOK
  <2>. QED
    BY <1>5, <2>2 DEF Originate, TypeOK, memory, database
<1>. QED
  BY <1>1, <1>2, <1>3, <1>4, <1>5 DEF Goroutine

LEMMA AsteriskTypeOK == TypeOK /\ Filed /\ Asterisk => TypeOK'
<1> SUFFICES ASSUME TypeOK, Filed,
                    NEW p \in Calls, NEW l \in Legs,
                    NEW from, NEW to \in LegStates,
                    NEW kind \in {"Newchannel", "BridgeEnter", "Hangup"},
                    ChannelStep(p, l, from, to, kind)
             PROVE  TypeOK'
  BY DEF Asterisk, ComesUp, Answered, HangsUp, LegStates
<1>1. [kind |-> kind, dst |-> Dst[call[p].row]] \in Events
  BY CallRow, RowData DEF Events, ChannelStep, TypeOK, Filed
<1>2. stream \in Seq(Events)
  BY DEF TypeOK
<1>3. stream' \in Seq(Events)
  BY <1>1, <1>2, AppendProperties DEF ChannelStep, Emit
<1>4. legs' \in [Calls -> [Legs -> LegStates]]
  BY DEF ChannelStep, TypeOK
<1>. QED
  BY <1>3, <1>4 DEF TypeOK, ChannelStep, database

LEMMA HandlerTypeOK == TypeOK /\ Handler => TypeOK'
<1> SUFFICES ASSUME TypeOK, Handler PROVE TypeOK'
  OBVIOUS
<1> USE DEF TypeOK, database
<1>0. IdleHnd \in Handlings
  BY DEF IdleHnd, Handlings
<1>1. CASE TakeEvent
  <2> DEFINE e == Head(stream)
             row == callEntry[e.dst].row
  <2>1. e \in Events /\ Tail(stream) \in Seq(Events)
    BY <1>1, HeadTailProperties DEF TakeEvent
  <2>2. row \in Rows \cup {NoRow}
    BY <2>1 DEF Events, Entries
  <2>3. StateOf(e.kind) \in 0..2 /\ 0 \in 0..2
    BY DEF StateOf
  <2>4. /\ [pc |-> "delete", row |-> row, state |-> 0] \in Handlings
        /\ [pc |-> "update", row |-> row, state |-> StateOf(e.kind)] \in Handlings
    BY <2>2, <2>3, HndRecord
  <2>5. hnd' \in Handlings
    BY <1>0, <1>1, <2>4 DEF TakeEvent
  <2>. QED
    BY <1>1, <2>1, <2>5 DEF TakeEvent
<1>2. CASE UpdateEntry
  <2>1. [row |-> hnd.row, state |-> hnd.state] \in Entries
    BY EntryRecord DEF Handlings
  <2>2. callEntry' \in [Dsts -> Entries]
    BY <1>2, <2>1 DEF UpdateEntry
  <2>. QED
    BY <1>0, <1>2, <2>2 DEF UpdateEntry
<1>3. CASE DeleteEntry
  <2>1. hnd' \in Handlings
    BY <1>3, HndPc DEF DeleteEntry
  <2>2. NoEntry \in Entries
    BY DEF NoEntry, Entries
  <2>3. callEntry' \in [Dsts -> Entries]
    BY <1>3, <2>2 DEF DeleteEntry
  <2>. QED
    BY <1>3, <2>1, <2>3 DEF DeleteEntry
<1>4. CASE ReleaseBranch
  <2>1. hnd' \in Handlings
    BY <1>4, HndPc DEF ReleaseBranch
  <2>2. nlines' \in [Keys -> Int]
    BY <1>4 DEF ReleaseBranch, LineRelease
  <2>. QED
    BY <1>4, <2>1, <2>2 DEF ReleaseBranch
<1>5. CASE ReleaseGeo
  <2>1. nlines' \in [Keys -> Int]
    BY <1>5 DEF ReleaseGeo, LineRelease
  <2>. QED
    BY <1>0, <1>5, <2>1 DEF ReleaseGeo
<1>. QED
  BY <1>1, <1>2, <1>3, <1>4, <1>5 DEF Handler

LEMMA EnvironmentTypeOK == TypeOK /\ Environment => TypeOK'
<1> SUFFICES ASSUME TypeOK, Environment PROVE TypeOK'
  OBVIOUS
<1> USE DEF TypeOK, memory, database
<1>0. <<>> \in Seq(Events)
  BY EmptySeq
<1>1. ASSUME NEW k \in Keys, NEW item \in LimitItems[k], Reload(k, item) PROVE TypeOK'
  <2>1. item \in Items
    BY LimitData DEF Items
  <2>. QED
    BY <1>1, <2>1 DEF Reload
<1>2. ASSUME NEW q \in Queues, NEW n \in Available, PollQueue(q, n) PROVE TypeOK'
  BY <1>2, EnvData DEF PollQueue
<1>3. ASSUME NEW u \in Uids, ToggleTask(u) \/ ToggleWindow(u) PROVE TypeOK'
  BY <1>3 DEF ToggleTask, ToggleWindow
<1>4. ASSUME NEW r \in Rows, RetryElapses(r) PROVE TypeOK'
  BY <1>4 DEF RetryElapses
<1>5. CASE LoseEvents
  BY <1>0, <1>5 DEF LoseEvents
<1>6. ASSUME NEW sent \in BOOLEAN, Crash(sent) PROVE TypeOK'
  <2>1. call' \in [Calls -> CallRecords]
    BY <1>6 DEF Crash, CallRecords, CallPcs
  <2>2. NoItem \in Items /\ NoEntry \in Entries /\ IdleDisp \in Dispatches
        /\ IdleHnd \in Handlings
    BY DEF NoItem, Items, NoEntry, Entries, IdleDisp, Dispatches, IdleHnd, Handlings
  <2>3. /\ limits' \in [Keys -> Items] /\ nlines' \in [Keys -> Int]
        /\ callEntry' \in [Dsts -> Entries] /\ avail' \in [Queues -> Nat]
    BY <1>6, <2>2 DEF Crash
  <2>4. /\ disp' \in Dispatches /\ hnd' \in Handlings /\ known' \subseteq Keys
        /\ evUp' \in BOOLEAN /\ stream' \in Seq(Events)
    BY <1>0, <1>6, <2>2 DEF Crash
  <2>5. UNCHANGED <<retries, due, active, open, legs>>
    BY <1>6 DEF Crash
  <2>. QED
    BY <2>1, <2>3, <2>4, <2>5
<1>. QED
  BY <1>1, <1>2, <1>3, <1>4, <1>5, <1>6 DEF Environment

LEMMA StepTypeOK == TypeOK /\ Filed /\ [Next]_vars => TypeOK'
<1>1. TypeOK /\ UNCHANGED vars => TypeOK'
  BY DEF TypeOK, vars, memory, database
<1>. QED
  BY <1>1, DispatcherTypeOK, GoroutineTypeOK, AsteriskTypeOK, HandlerTypeOK,
     EnvironmentTypeOK DEF Next

LEMMA InitFiled == Init => Filed
  BY DEF Init, Filed, NewCall, IdleHnd, NoEntry, Online

\* Steps that leave goroutines, entries and the handler alone.
LEMMA FiledFrame == Filed /\ UNCHANGED <<call, callEntry, hnd>> => Filed'
  BY DEF Filed, Online

LEMMA StepFiled == TypeOK /\ Filed /\ [Next]_vars => Filed'
<1> SUFFICES ASSUME TypeOK, Filed, [Next]_vars PROVE Filed'
  OBVIOUS
<1>0. CASE UNCHANGED vars
  BY <1>0, FiledFrame DEF vars, memory
<1>1. CASE Dispatcher
  <2>1. ASSUME NEW u \in Uids, NEW r \in Rows, NEW p \in Calls, Launch(u, r, p) PROVE Filed'
    BY <2>1, NoRowFresh DEF Launch, Filed, Online, TypeOK, CallRecords
  <2>2. CASE Tick \/ (\E u \in Uids : BeginTask(u) \/ WriteWork(u) \/ NoLine(u))
             \/ (\E u \in Uids, rows \in SUBSET Rows : ReadCalls(u, rows))
             \/ (\E u \in Uids, r \in Rows : SkipRow(u, r))
    BY <2>2, FiledFrame DEF Tick, BeginTask, WriteWork, NoLine, ReadCalls, SkipRow
  <2>. QED
    BY <1>1, <2>1, <2>2 DEF Dispatcher
<1>2. ASSUME NEW p \in Calls, Goroutine(p) PROVE Filed'
  <2>1. CASE AddEntry(p)
    <3>1. call[p].row \in Rows /\ Dst[call[p].row] \in Dsts
      BY <2>1, CallRow, RowData DEF AddEntry, TypeOK, Filed
    <3>2. \A d \in Dsts : Online(d)' => Dst[callEntry'[d].row] = d
      BY <2>1, <3>1 DEF AddEntry, Filed, Online, TypeOK, Entries
    <3>3. \A q \in Calls : call'[q].pc # "free" => call'[q].row # NoRow
      BY <2>1, <3>1, NoRowFresh DEF AddEntry, Filed, TypeOK, CallRecords
    <3>. QED
      BY <2>1, <3>2, <3>3 DEF AddEntry, Filed
  <2>2. CASE FindEntry(p) \/ MinusRetry(p) \/ Receive(p) \/ Originate(p)
    <3>1. call[p].pc # "free" /\ UNCHANGED <<callEntry, hnd>>
      BY <2>2 DEF FindEntry, MinusRetry, Receive, Originate, memory
    <3>2. \A q \in Calls : call'[q].row = call[q].row /\ (q # p => call'[q] = call[q])
      BY <2>2 DEF FindEntry, MinusRetry, Receive, Originate, TypeOK, CallRecords
    <3>. QED
      BY <3>1, <3>2 DEF Filed, Online
  <2>. QED
    BY <1>2, <2>1, <2>2 DEF Goroutine
<1>3. CASE Asterisk
  BY <1>3, FiledFrame DEF Asterisk, ComesUp, Answered, HangsUp, ChannelStep
<1>4. CASE Handler
  <2>1. CASE TakeEvent
    <3> DEFINE e == Head(stream)
    <3>1. e \in Events
      BY <2>1, HeadTailProperties DEF TakeEvent, TypeOK
    <3>2. hnd'.pc # "recv" => hnd'.row # NoRow
      BY <2>1, <3>1 DEF TakeEvent, IdleHnd, Online
    <3>. QED
      BY <2>1, <3>2 DEF TakeEvent, Filed, Online
  <2>2. CASE UpdateEntry
    <3>1. hnd.row \in Rows /\ Dst[hnd.row] \in Dsts
      BY <2>2, RowData DEF UpdateEntry, TypeOK, Filed, Handlings
    <3>. QED
      BY <2>2, <3>1 DEF UpdateEntry, Filed, Online, IdleHnd, TypeOK
  <2>3. CASE DeleteEntry
    BY <2>3 DEF DeleteEntry, Filed, Online, NoEntry, TypeOK, Handlings
  <2>4. CASE ReleaseBranch
    BY <2>4 DEF ReleaseBranch, Filed, Online, TypeOK, Handlings
  <2>5. CASE ReleaseGeo
    BY <2>5 DEF ReleaseGeo, Filed, Online, IdleHnd
  <2>. QED
    BY <1>4, <2>1, <2>2, <2>3, <2>4, <2>5 DEF Handler
<1>5. CASE Environment
  <2>1. ASSUME NEW sent \in BOOLEAN, Crash(sent) PROVE Filed'
    <3>1. \A q \in Calls : /\ call'[q].row = call[q].row
                           /\ call[q].pc = "free" => call'[q].pc = "free"
      BY <2>1 DEF Crash, TypeOK, CallRecords
    <3>2. \A d \in Dsts : callEntry'[d].row = NoRow
      BY <2>1 DEF Crash, NoEntry
    <3>3. hnd'.pc = "recv"
      BY <2>1 DEF Crash, IdleHnd
    <3>. QED
      BY <3>1, <3>2, <3>3 DEF Filed, Online
  <2>2. CASE \/ \E k \in Keys : \E item \in LimitItems[k] : Reload(k, item)
             \/ \E q \in Queues, n \in Available : PollQueue(q, n)
             \/ \E u \in Uids : ToggleTask(u) \/ ToggleWindow(u)
             \/ \E r \in Rows : RetryElapses(r)
             \/ LoseEvents
    BY <2>2, FiledFrame
       DEF Reload, PollQueue, ToggleTask, ToggleWindow, RetryElapses, LoseEvents, memory
  <2>. QED
    BY <1>5, <2>1, <2>2 DEF Environment
<1>. QED
  BY <1>0, <1>1, <1>2, <1>3, <1>4, <1>5 DEF Next

(***************************************************************************)
(* The maps, the database columns and the goroutines stay in their types,  *)
(* for any number of branches, rows, numbers, calls and channels.          *)
(***************************************************************************)
THEOREM TypeCorrect == Spec => []TypeOK
<1>1. Init => TypeOK /\ Filed
  BY InitTypeOK, InitFiled
<1>2. TypeOK /\ Filed /\ [Next]_vars => (TypeOK /\ Filed)'
  BY StepTypeOK, StepFiled
<1>. QED
  BY <1>1, <1>2, PTL DEF Spec

-----------------------------------------------------------------------------
(* The lines in use cover the claims on them.                              *)

(***************************************************************************)
(* LinesCoverClaims alone is not inductive: a pass takes lines only of     *)
(* keys that have an entry, for rows of its own task, and writes back a    *)
(* copy that was a cover when it was taken and stays one because only a    *)
(* launch adds a claim; a release finds the entry it decrements.           *)
(***************************************************************************)
PassOnTask(u) ==
    /\ disp.pc # "task" /\ Current(u) => {u, TaskGeo[u]} \subseteq known
    /\ disp.pc = "calls" /\ Current(u) => \A r \in disp.batch : Branch[r] = u
    /\ disp.pc = "write" /\ Current(u) => disp.copy >= Claims(u)

Covered(k) ==
    /\ nlines[k] >= Claims(k)
    /\ Claims(k) > 0 => k \in known

Accounts ==
    /\ \A u \in Uids : PassOnTask(u)
    /\ \A k \in Keys : Covered(k)

LEMMA SubsetCard ==
  ASSUME NEW T, IsFiniteSet(T), NEW S \in SUBSET T
  PROVE  /\ IsFiniteSet(S)
         /\ Cardinality(S) \in Nat /\ Cardinality(T) \in Nat
         /\ Cardinality(S) <= Cardinality(T)
  BY FS_Subset, FS_CardinalityType

\* One element leaves, or one enters.
LEMMA LessCard ==
  ASSUME NEW T, IsFiniteSet(T), NEW x \in T, NEW S \in SUBSET (T \ {x})
  PROVE  Cardinality(S) <= Cardinality(T) - 1
<1>1. IsFiniteSet(T \ {x}) /\ Cardinality(T \ {x}) = Cardinality(T) - 1
  BY FS_RemoveElement
<1>. QED
  BY <1>1, SubsetCard

LEMMA MoreCard ==
  ASSUME NEW T, IsFiniteSet(T), NEW x, NEW S \in SUBSET (T \cup {x})
  PROVE  Cardinality(S) <= Cardinality(T) + 1
<1>1. /\ IsFiniteSet(T \cup {x})
      /\ Cardinality(T \cup {x}) = IF x \in T THEN Cardinality(T) ELSE Cardinality(T) + 1
  BY FS_AddElement
<1>2. Cardinality(T) \in Nat
  BY FS_CardinalityType
<1>3. Cardinality(T \cup {x}) <= Cardinality(T) + 1
  BY <1>1, <1>2
<1>4. Cardinality(S) \in Nat /\ Cardinality(S) <= Cardinality(T \cup {x}) /\ Cardinality(T \cup {x}) \in Nat
  BY <1>1, SubsetCard
<1>. QED
  BY <1>2, <1>3, <1>4

LEMMA ClaimSets ==
  ASSUME NEW k
  PROVE  /\ IsFiniteSet(Waiting(k)) /\ IsFiniteSet(Waiting(k)')
         /\ IsFiniteSet(Held(k)) /\ IsFiniteSet(Held(k)')
         /\ Cardinality(Waiting(k)) \in Nat /\ Cardinality(Waiting(k)') \in Nat
         /\ Cardinality(Held(k)) \in Nat /\ Cardinality(Held(k)') \in Nat
         /\ Claims(k) \in Nat /\ Claims(k)' \in Nat
<1>1. /\ Waiting(k) \in SUBSET Calls /\ Waiting(k)' \in SUBSET Calls
      /\ Held(k) \in SUBSET Dsts /\ Held(k)' \in SUBSET Dsts
  BY DEF Waiting, Held
<1>2. /\ IsFiniteSet(Waiting(k)) /\ IsFiniteSet(Waiting(k)')
      /\ IsFiniteSet(Held(k)) /\ IsFiniteSet(Held(k)')
  BY <1>1, SubsetCard, FiniteData
<1>3. /\ Cardinality(Waiting(k)) \in Nat /\ Cardinality(Waiting(k)') \in Nat
      /\ Cardinality(Held(k)) \in Nat /\ Cardinality(Held(k)') \in Nat
  BY <1>2, FS_CardinalityType
<1>. QED
  BY <1>2, <1>3 DEF Claims

\* The ways a step may change the claims on k without adding to them.
LEMMA ClaimsKept ==
  ASSUME NEW k,
         Waiting(k)' \subseteq Waiting(k), Held(k)' \subseteq Held(k),
         Releasing(k)' => Releasing(k)
  PROVE  Claims(k)' <= Claims(k)
<1>1. Cardinality(Waiting(k)') <= Cardinality(Waiting(k))
  BY ClaimSets, SubsetCard
<1>2. Cardinality(Held(k)') <= Cardinality(Held(k))
  BY ClaimSets, SubsetCard
<1>. QED
  BY <1>1, <1>2, ClaimSets DEF Claims

LEMMA ClaimMovesToNumber ==
  ASSUME NEW k, NEW p \in Waiting(k), NEW d,
         Waiting(k)' \subseteq Waiting(k) \ {p}, Held(k)' \subseteq Held(k) \cup {d},
         Releasing(k)' => Releasing(k)
  PROVE  Claims(k)' <= Claims(k)
<1>1. Cardinality(Waiting(k)') <= Cardinality(Waiting(k)) - 1
  BY ClaimSets, LessCard
<1>2. Cardinality(Held(k)') <= Cardinality(Held(k)) + 1
  BY ClaimSets, MoreCard
<1>. QED
  BY <1>1, <1>2, ClaimSets DEF Claims

LEMMA ClaimMovesToRelease ==
  ASSUME NEW k, NEW d \in Held(k),
         Waiting(k)' \subseteq Waiting(k), Held(k)' \subseteq Held(k) \ {d}
  PROVE  Claims(k)' <= Claims(k)
<1>1. Cardinality(Waiting(k)') <= Cardinality(Waiting(k))
  BY ClaimSets, SubsetCard
<1>2. Cardinality(Held(k)') <= Cardinality(Held(k)) - 1
  BY ClaimSets, LessCard
<1>. QED
  BY <1>1, <1>2, ClaimSets DEF Claims

\* A launch adds at most one claim, the last step of a release takes one.
LEMMA ClaimAdded ==
  ASSUME NEW k, NEW p,
         Waiting(k)' \subseteq Waiting(k) \cup {p}, Held(k)' \subseteq Held(k),
         Releasing(k)' => Releasing(k)
  PROVE  Claims(k)' <= Claims(k) + 1
<1>1. Cardinality(Waiting(k)') <= Cardinality(Waiting(k)) + 1
  BY ClaimSets, MoreCard
<1>2. Cardinality(Held(k)') <= Cardinality(Held(k))
  BY ClaimSets, SubsetCard
<1>. QED
  BY <1>1, <1>2, ClaimSets DEF Claims

LEMMA ClaimReleased ==
  ASSUME NEW k,
         Waiting(k)' \subseteq Waiting(k), Held(k)' \subseteq Held(k),
         Releasing(k), ~Releasing(k)'
  PROVE  Claims(k)' <= Claims(k) - 1
<1>1. Cardinality(Waiting(k)') <= Cardinality(Waiting(k))
  BY ClaimSets, SubsetCard
<1>2. Cardinality(Held(k)') <= Cardinality(Held(k))
  BY ClaimSets, SubsetCard
<1>. QED
  BY <1>1, <1>2, ClaimSets DEF Claims

LEMMA InitAccounts == Init => Accounts
<1> SUFFICES ASSUME Init PROVE Accounts
  OBVIOUS
<1>1. ASSUME NEW k \in Keys PROVE Claims(k) = 0 /\ nlines[k] = 0
  <2>1. Waiting(k) = {} /\ Held(k) = {} /\ ~Releasing(k)
    BY DEF Init, Waiting, Held, Releasing, Online, Copied, NewCall, NoEntry, IdleHnd
  <2>. QED
    BY <2>1, FS_EmptySet DEF Claims, Init
<1>. QED
  BY <1>1 DEF Accounts, Covered, PassOnTask, Init, IdleDisp

\* The dispatcher only adds claims by launching.
LEMMA DispatcherAccounts ==
  ASSUME TypeOK, Accounts, Dispatcher
  PROVE  Accounts'
<1>1. ASSUME UNCHANGED <<call, callEntry, hnd>>
      PROVE  \A k : Claims(k)' = Claims(k)
  BY <1>1 DEF Claims, Waiting, Held, Releasing, Online, Copied
<1>2. ASSUME NEW u \in Uids PROVE TaskGeo[u] \in Keys /\ u \in Keys
  BY TaskData DEF Keys
<1>3. ASSUME disp'.pc = "task", UNCHANGED <<nlines, known, call, callEntry, hnd>>
      PROVE  Accounts'
  BY <1>1, <1>3 DEF Accounts, PassOnTask, Covered
<1>4. CASE Tick
  <2>1. disp'.pc = "task"
    BY <1>4 DEF Tick, TypeOK, Dispatches
  <2>. QED
    BY <1>3, <1>4, <2>1 DEF Tick
<1>5. ASSUME NEW u \in Uids, BeginTask(u) PROVE Accounts'
  <2>1. /\ disp'.todo = disp.todo /\ disp'.pc \in {"write", "check"}
        /\ disp'.pc = "write" => disp'.copy = nlines[u]
    BY <1>5 DEF BeginTask, TypeOK, Dispatches
  <2>2. \A k : Claims(k)' = Claims(k)
    BY <1>1, <1>5 DEF BeginTask
  <2>3. ASSUME NEW v \in Uids PROVE PassOnTask(v)'
    <3>1. Current(v)' => v = u
      BY <1>5, <2>1, TaskData DEF BeginTask, Current
    <3>2. disp'.pc = "write" => disp'.copy >= Claims(u)'
      BY <1>2, <2>1, <2>2 DEF Accounts, Covered
    <3>. QED
      BY <1>5, <2>1, <3>1, <3>2 DEF PassOnTask, BeginTask
  <2>. QED
    BY <1>5, <2>2, <2>3 DEF BeginTask, Accounts, Covered
<1>6. ASSUME NEW u \in Uids, WriteWork(u) PROVE Accounts'
  <2>1. disp'.todo = disp.todo /\ disp'.pc = "check"
    BY <1>6 DEF WriteWork, TypeOK, Dispatches
  <2>2. \A k : Claims(k)' = Claims(k)
    BY <1>1, <1>6 DEF WriteWork
  <2>3. \A v \in Uids : PassOnTask(v)'
    BY <1>6, <2>1, <2>2 DEF PassOnTask, Accounts, WriteWork, Current
  <2>4. \A k \in Keys : Covered(k)'
    BY <1>6, <2>2 DEF PassOnTask, Accounts, Covered, WriteWork, TypeOK
  <2>. QED
    BY <2>3, <2>4 DEF Accounts
<1>7. ASSUME NEW u \in Uids, NoLine(u) PROVE Accounts'
  <2>1. disp'.pc = "task"
    BY <1>7 DEF NoLine, Finished, IdleDisp
  <2>. QED
    BY <1>3, <1>7, <2>1 DEF NoLine
<1>8. ASSUME NEW u \in Uids, NEW rows \in SUBSET Rows, ReadCalls(u, rows) PROVE Accounts'
  <2>1. CASE rows = {}
    <3>1. disp'.pc = "task"
      BY <1>8, <2>1 DEF ReadCalls, Finished, IdleDisp
    <3>. QED
      BY <1>3, <1>8, <3>1 DEF ReadCalls
  <2>2. CASE rows # {}
    <3>1. disp'.pc = "calls" /\ disp'.todo = disp.todo /\ disp'.batch = rows
      BY <1>8, <2>2 DEF ReadCalls, TypeOK, Dispatches
    <3>2. \A r \in rows : Branch[r] = u
      BY <1>8, <2>2 DEF ReadCalls, ReadyRows
    <3>3. \A k : Claims(k)' = Claims(k)
      BY <1>1, <1>8 DEF ReadCalls
    <3>4. \A v \in Uids : Current(v)' => v = u /\ Current(u)
      BY <1>8, <3>1, TaskData DEF ReadCalls, Current
    <3>5. \A v \in Uids : PassOnTask(v)'
      BY <1>8, <3>1, <3>2, <3>4 DEF PassOnTask, Accounts, ReadCalls
    <3>. QED
      BY <1>8, <3>3, <3>5 DEF Accounts, Covered, ReadCalls
  <2>. QED
    BY <2>1, <2>2
<1>9. ASSUME NEW u \in Uids, NEW r \in Rows, disp.pc = "calls", Current(u),
             disp' = AfterRow(u, r), known' = known
      PROVE  \A v \in Uids : PassOnTask(v)'
  <2>1. CASE disp'.pc = "task"
    BY <2>1 DEF PassOnTask
  <2>2. CASE disp'.pc # "task"
    <3>1. disp'.pc = "calls" /\ disp'.todo = disp.todo /\ disp'.batch \subseteq disp.batch
      BY <1>9, <2>2 DEF AfterRow, Finished, IdleDisp, TypeOK, Dispatches
    <3>2. \A v \in Uids : Current(v)' => Current(v)
      BY <3>1 DEF Current
    <3>. QED
      BY <1>9, <3>1, <3>2 DEF PassOnTask, Accounts
  <2>. QED
    BY <2>1, <2>2
<1>10. ASSUME NEW u \in Uids, NEW r \in Rows, SkipRow(u, r) PROVE Accounts'
  <2>1. \A k : Claims(k)' = Claims(k)
    BY <1>1, <1>10 DEF SkipRow
  <2>. QED
    BY <1>9, <1>10, <2>1 DEF SkipRow, Accounts, Covered
<1>11. ASSUME NEW u \in Uids, NEW r \in Rows, NEW p \in Calls, Launch(u, r, p)
       PROVE  Accounts'
  <2>1. \A v \in Uids : PassOnTask(v)'
    BY <1>9, <1>11 DEF Launch
  <2>2. Branch[r] = u /\ {u, TaskGeo[u]} \subseteq known
    BY <1>11 DEF Launch, Accounts, PassOnTask
  <2>3. ASSUME NEW k \in Keys PROVE Covered(k)'
    <3>1. Held(k)' = Held(k) /\ (Releasing(k)' <=> Releasing(k))
      BY <1>11 DEF Launch, Held, Releasing, Online, Copied
    <3>2. call' = [call EXCEPT ![p] = [pc |-> "find", row |-> r, paid |-> FALSE]]
      BY <1>11 DEF Launch
    <3>3. \A q \in Calls : q # p => call'[q] = call[q]
      BY <3>2 DEF TypeOK
    <3>4. call'[p].row = r
      BY <3>2 DEF TypeOK
    <3>5. CASE k \in {u, TaskGeo[u]}
      <4>1. Waiting(k)' \subseteq Waiting(k) \cup {p}
        BY <3>3 DEF Waiting
      <4>2. Claims(k)' <= Claims(k) + 1
        BY <3>1, <4>1, ClaimAdded
      <4>3. nlines'[k] = nlines[k] + 1 /\ k \in known'
        BY <1>11, <2>2, <3>5 DEF Launch, LineGet
      <4>. QED
        BY <4>2, <4>3, ClaimSets DEF Accounts, Covered, TypeOK
    <3>6. CASE k \notin {u, TaskGeo[u]}
      <4>1. Waiting(k)' \subseteq Waiting(k)
        BY <2>2, <3>3, <3>4, <3>6 DEF Waiting, KeysOf
      <4>2. Claims(k)' <= Claims(k)
        BY <3>1, <4>1, ClaimsKept
      <4>3. nlines'[k] = nlines[k] /\ known' = known
        BY <1>11, <3>6 DEF Launch, LineGet
      <4>. QED
        BY <4>2, <4>3, ClaimSets DEF Accounts, Covered, TypeOK
    <3>. QED
      BY <3>5, <3>6
  <2>. QED
    BY <2>1, <2>3 DEF Accounts
<1>. QED
  BY <1>4, <1>5, <1>6, <1>7, <1>8, <1>10, <1>11 DEF Dispatcher

\* A step of another goroutine that adds no claim and changes no counter.
LEMMA AccountsFrame ==
  ASSUME TypeOK, Accounts, UNCHANGED <<disp, nlines, known>>,
         \A k \in Keys : Claims(k)' <= Claims(k)
  PROVE  Accounts'
<1>1. ASSUME NEW u \in Uids PROVE PassOnTask(u)'
  <2>1. u \in Keys /\ disp.copy \in Int
    BY DEF Keys, TypeOK, Dispatches
  <2>. QED
    BY <2>1, ClaimSets DEF PassOnTask, Accounts, Current
<1>2. ASSUME NEW k \in Keys PROVE Covered(k)'
  BY ClaimSets DEF Covered, Accounts, TypeOK
<1>. QED
  BY <1>1, <1>2 DEF Accounts

LEMMA GoroutineAccounts ==
  ASSUME TypeOK, Filed, Accounts, NEW p \in Calls, Goroutine(p)
  PROVE  Accounts'
<1>1. UNCHANGED <<disp, nlines, known, hnd>>
  BY DEF Goroutine, FindEntry, AddEntry, MinusRetry, Receive, Originate, memory
<1>2. CASE AddEntry(p)
  <2> DEFINE r == call[p].row
             d == Dst[r]
  <2>1. call[p].pc = "add" /\ r \in Rows /\ d \in Dsts
    BY <1>2, CallRow, RowData DEF AddEntry, TypeOK, Filed
  <2>2. /\ call'[p].pc = "minus"
        /\ \A q \in Calls : q # p => call'[q] = call[q]
    BY <1>2 DEF AddEntry, TypeOK, CallRecords
  <2>3. /\ callEntry'[d].row = r
        /\ \A e \in Dsts : e # d => callEntry'[e] = callEntry[e]
    BY <1>2, <2>1 DEF AddEntry, TypeOK
  <2>4. ASSUME NEW k \in Keys PROVE Claims(k)' <= Claims(k)
    <3>1. Waiting(k)' \subseteq Waiting(k) \ {p}
      BY <2>2 DEF Waiting
    <3>2. Releasing(k)' <=> Releasing(k)
      BY <1>1 DEF Releasing
    <3>3. CASE k \in KeysOf(r)
      <4>1. p \in Waiting(k)
        BY <2>1, <3>3 DEF Waiting
      <4>2. Held(k)' \subseteq Held(k) \cup {d}
        BY <1>1, <2>3 DEF Held, Online, Copied
      <4>. QED
        BY <3>1, <3>2, <4>1, <4>2, ClaimMovesToNumber
    <3>4. CASE k \notin KeysOf(r)
      <4>1. Held(k)' \subseteq Held(k)
        BY <1>1, <2>3, <3>4 DEF Held, Online, Copied
      <4>2. Waiting(k)' \subseteq Waiting(k)
        BY <3>1
      <4>. QED
        BY <3>2, <4>1, <4>2, ClaimsKept
    <3>. QED
      BY <3>3, <3>4
  <2>. QED
    BY <1>1, <2>4, AccountsFrame
<1>3. CASE FindEntry(p) \/ MinusRetry(p) \/ Receive(p) \/ Originate(p)
  <2>1. UNCHANGED callEntry
    BY <1>3 DEF FindEntry, MinusRetry, Receive, Originate, memory
  <2>2. \A q \in Calls :
          /\ call'[q].row = call[q].row
          /\ call'[q].pc \in {"find", "add"} => call[q].pc \in {"find", "add"}
    <3>1. /\ call[p].pc \notin {"find", "add"} \/ FindEntry(p)
          /\ FindEntry(p) => call[p].pc = "find"
          /\ MinusRetry(p) \/ Receive(p) \/ Originate(p) => call'[p].pc \notin {"find", "add"}
      BY <1>3 DEF FindEntry, MinusRetry, Receive, Originate, TypeOK, CallRecords
    <3>2. \A q \in Calls : call'[q].row = call[q].row /\ (q # p => call'[q] = call[q])
      BY <1>3 DEF FindEntry, MinusRetry, Receive, Originate, TypeOK, CallRecords
    <3>. QED
      BY <1>3, <3>1, <3>2
  <2>3. ASSUME NEW k \in Keys PROVE Claims(k)' <= Claims(k)
    <3>1. Waiting(k)' \subseteq Waiting(k)
      BY <2>2 DEF Waiting
    <3>2. Held(k)' = Held(k) /\ (Releasing(k)' <=> Releasing(k))
      BY <1>1, <2>1 DEF Held, Releasing, Online, Copied
    <3>. QED
      BY <3>1, <3>2, ClaimsKept
  <2>. QED
    BY <1>1, <2>3, AccountsFrame
<1>. QED
  BY <1>2, <1>3 DEF Goroutine

LEMMA HandlerAccounts ==
  ASSUME TypeOK, Filed, Accounts, Handler
  PROVE  Accounts'
<1>1. UNCHANGED <<disp, known, call>>
  BY DEF Handler, TakeEvent, UpdateEntry, DeleteEntry, ReleaseBranch, ReleaseGeo
<1>2. \A k : Waiting(k)' = Waiting(k)
  BY <1>1 DEF Waiting
<1>3. CASE TakeEvent
  <2> DEFINE e == Head(stream)
  <2>1. e.dst \in Dsts
    <3>1. e \in Events
      BY <1>3, HeadTailProperties DEF TakeEvent, TypeOK
    <3>. QED
      BY <3>1 DEF Events
  <2>2. UNCHANGED <<nlines, callEntry>> /\ hnd.pc = "recv"
    BY <1>3 DEF TakeEvent
  <2>3. hnd'.pc # "recv" => /\ hnd'.pc \in {"update", "delete"}
                            /\ Online(e.dst) /\ hnd'.row = callEntry[e.dst].row
    BY <1>3 DEF TakeEvent, IdleHnd
  <2>4. ASSUME NEW k \in Keys PROVE Claims(k)' <= Claims(k)
    <3>1. Held(k)' \subseteq Held(k)
      BY <2>1, <2>2, <2>3 DEF Held, Online, Copied, Filed
    <3>2. ~Releasing(k)'
      BY <2>3 DEF Releasing
    <3>. QED
      BY <1>2, <3>1, <3>2, ClaimsKept
  <2>. QED
    BY <1>1, <2>2, <2>4, AccountsFrame
<1>4. CASE UpdateEntry
  <2>1. hnd.row \in Rows /\ Dst[hnd.row] \in Dsts
    BY <1>4, RowData DEF UpdateEntry, TypeOK, Filed, Handlings
  <2>2. /\ callEntry'[Dst[hnd.row]].row = hnd.row
        /\ \A d \in Dsts : d # Dst[hnd.row] => callEntry'[d] = callEntry[d]
        /\ hnd'.pc = "recv" /\ UNCHANGED nlines
    BY <1>4, <2>1 DEF UpdateEntry, TypeOK, IdleHnd
  <2>3. ASSUME NEW k \in Keys PROVE Claims(k)' <= Claims(k)
    <3>1. Held(k)' \subseteq Held(k)
      BY <1>4, <2>1, <2>2 DEF UpdateEntry, Held, Online, Copied
    <3>2. ~Releasing(k)'
      BY <2>2 DEF Releasing
    <3>. QED
      BY <1>2, <3>1, <3>2, ClaimsKept
  <2>. QED
    BY <1>1, <2>2, <2>3, AccountsFrame
<1>5. CASE DeleteEntry
  <2> DEFINE d == Dst[hnd.row]
  <2>1. hnd.pc = "delete" /\ hnd.row \in Rows /\ d \in Dsts
    BY <1>5, RowData DEF DeleteEntry, TypeOK, Filed, Handlings
  <2>2. /\ callEntry'[d].row = NoRow
        /\ \A e \in Dsts : e # d => callEntry'[e] = callEntry[e]
        /\ hnd'.pc = "relBranch" /\ hnd'.row = hnd.row /\ UNCHANGED nlines
    BY <1>5, <2>1 DEF DeleteEntry, TypeOK, NoEntry, Handlings
  <2>3. ASSUME NEW k \in Keys PROVE Claims(k)' <= Claims(k)
    <3>1. Held(k)' \subseteq Held(k) \ {d}
      BY <2>1, <2>2 DEF Held, Online, Copied
    <3>2. CASE k \in KeysOf(hnd.row)
      <4>1. d \in Held(k)
        BY <2>1, <3>2 DEF Held, Copied
      <4>. QED
        BY <1>2, <3>1, <4>1, ClaimMovesToRelease
    <3>3. CASE k \notin KeysOf(hnd.row)
      <4>1. ~Releasing(k)' /\ Held(k)' \subseteq Held(k)
        BY <2>2, <3>1, <3>3 DEF Releasing, KeysOf
      <4>. QED
        BY <1>2, <4>1, ClaimsKept
    <3>. QED
      BY <3>2, <3>3
  <2>. QED
    BY <1>1, <2>2, <2>3, AccountsFrame
<1>6. ASSUME NEW j \in Keys, nlines' = LineRelease(j), Releasing(j), ~Releasing(j)',
             UNCHANGED callEntry, hnd.pc \in {"relBranch", "relGeo"},
             hnd'.pc \in {"relGeo", "recv"},
             \A k \in Keys : Releasing(k)' => Releasing(k)
      PROVE  Accounts'
  <2>1. ASSUME NEW k PROVE Held(k)' \subseteq Held(k)
    BY <1>6 DEF Held, Online, Copied
  <2>2. ASSUME NEW k \in Keys PROVE Claims(k)' <= Claims(k)
    BY <1>2, <1>6, <2>1, ClaimsKept
  <2>3. Claims(j)' <= Claims(j) - 1
    BY <1>2, <1>6, <2>1, ClaimReleased
  <2>4. ASSUME NEW u \in Uids PROVE PassOnTask(u)'
    <3>1. u \in Keys /\ disp.copy \in Int
      BY DEF Keys, TypeOK, Dispatches
    <3>. QED
      BY <1>1, <2>2, <3>1, ClaimSets DEF PassOnTask, Accounts, Current
  <2>5. j \in known
    BY <2>3, ClaimSets DEF Accounts, Covered
  <2>6. ASSUME NEW k \in Keys PROVE Covered(k)'
    <3>1. nlines' = [nlines EXCEPT ![j] = @ - 1]
      BY <1>6, <2>5 DEF LineRelease
    <3>2. CASE k = j
      BY <1>1, <2>3, <2>5, <3>1, <3>2, ClaimSets DEF Covered, Accounts, TypeOK
    <3>3. CASE k # j
      BY <1>1, <2>2, <3>1, <3>3, ClaimSets DEF Covered, Accounts, TypeOK
    <3>. QED
      BY <3>2, <3>3
  <2>. QED
    BY <2>4, <2>6 DEF Accounts
<1>7. CASE ReleaseBranch
  <2>1. hnd.row \in Rows /\ Branch[hnd.row] \in Uids /\ TaskGeo[Branch[hnd.row]] \in Geos
    BY <1>7, RowData, TaskData DEF ReleaseBranch, TypeOK, Filed, Handlings
  <2>2. Branch[hnd.row] \in Keys /\ Branch[hnd.row] # TaskGeo[Branch[hnd.row]]
    BY <2>1, KeysDisjoint DEF Keys
  <2>3. hnd.pc = "relBranch" /\ hnd'.pc = "relGeo" /\ hnd'.row = hnd.row
    BY <1>7 DEF ReleaseBranch, TypeOK, Handlings
  <2>4. Releasing(Branch[hnd.row]) /\ ~Releasing(Branch[hnd.row])'
    BY <2>2, <2>3 DEF Releasing, KeysOf
  <2>5. \A k \in Keys : Releasing(k)' => Releasing(k)
    BY <2>3 DEF Releasing, KeysOf
  <2>6. ASSUME NEW j \in Keys, j = Branch[hnd.row] PROVE Accounts'
    <3>1. Releasing(j)' => FALSE
      BY <2>2, <2>3, <2>6 DEF Releasing
    <3>. QED
      BY <1>6, <1>7, <2>3, <2>4, <2>5, <2>6, <3>1 DEF ReleaseBranch
  <2>. QED
    BY <2>2, <2>6
<1>8. CASE ReleaseGeo
  <2>1. hnd.row \in Rows /\ TaskGeo[Branch[hnd.row]] \in Keys
    BY <1>8, RowData, TaskData DEF ReleaseGeo, TypeOK, Filed, Handlings, Keys
  <2>2. hnd.pc = "relGeo" /\ hnd'.pc = "recv"
    BY <1>8 DEF ReleaseGeo, IdleHnd
  <2>3. \A k \in Keys : ~Releasing(k)'
    BY <2>2 DEF Releasing
  <2>4. Releasing(TaskGeo[Branch[hnd.row]])
    BY <2>2 DEF Releasing
  <2>. QED
    BY <1>6, <1>8, <2>1, <2>2, <2>3, <2>4 DEF ReleaseGeo
<1>. QED
  BY <1>3, <1>4, <1>5, <1>7, <1>8 DEF Handler

LEMMA EnvironmentAccounts ==
  ASSUME TypeOK, Accounts, Environment \/ Asterisk \/ UNCHANGED vars
  PROVE  Accounts'
<1>1. ASSUME UNCHANGED <<disp, nlines, known, call, callEntry, hnd>>
      PROVE  Accounts'
  <2>1. \A k \in Keys : Claims(k)' = Claims(k)
    BY <1>1 DEF Claims, Waiting, Held, Releasing, Online, Copied
  <2>. QED
    BY <1>1, <2>1, AccountsFrame, ClaimSets
<1>2. ASSUME NEW sent \in BOOLEAN, Crash(sent) PROVE Accounts'
  <2>1. ASSUME NEW k \in Keys PROVE Claims(k)' = 0 /\ nlines'[k] = 0
    <3>1. \A p \in Calls : call'[p].pc \notin {"find", "add"}
      BY <1>2 DEF Crash, TypeOK, CallRecords
    <3>2. Waiting(k)' = {}
      BY <3>1 DEF Waiting
    <3>3. Held(k)' = {} /\ ~Releasing(k)'
      BY <1>2 DEF Crash, Held, Releasing, Online, Copied, NoEntry, IdleHnd
    <3>4. Claims(k)' = 0
      BY <3>2, <3>3, FS_EmptySet DEF Claims
    <3>. QED
      BY <1>2, <3>4 DEF Crash
  <2>2. disp'.pc = "task"
    BY <1>2 DEF Crash, IdleDisp
  <2>. QED
    BY <2>1, <2>2 DEF Accounts, Covered, PassOnTask
<1>3. CASE \/ Asterisk
           \/ \E k \in Keys : \E item \in LimitItems[k] : Reload(k, item)
           \/ \E q \in Queues, n \in Available : PollQueue(q, n)
           \/ \E u \in Uids : ToggleTask(u) \/ ToggleWindow(u)
           \/ \E r \in Rows : RetryElapses(r)
           \/ LoseEvents
           \/ UNCHANGED vars
  BY <1>1, <1>3
     DEF Asterisk, ComesUp, Answered, HangsUp, ChannelStep, Reload, PollQueue,
         ToggleTask, ToggleWindow, RetryElapses, LoseEvents, memory, vars
<1>. QED
  BY <1>2, <1>3 DEF Environment

LEMMA AccountsCover == TypeOK /\ Accounts => LinesCoverClaims
  BY DEF Accounts, Covered, LinesCoverClaims

(***************************************************************************)
(* However the goroutines interleave, the counters of worklimitsMap cover  *)
(* the claims on lines: no line is released twice and no counter goes      *)
(* negative, for any number of tasks, rows, shared numbers and faults.     *)
(***************************************************************************)
THEOREM LinesCovered == Spec => []LinesCoverClaims
<1>1. Init => TypeOK /\ Filed /\ Accounts
  BY InitTypeOK, InitFiled, InitAccounts
<1>2. TypeOK /\ Filed /\ Accounts /\ [Next]_vars => (TypeOK /\ Filed /\ Accounts)'
  BY StepTypeOK, StepFiled, DispatcherAccounts, GoroutineAccounts, HandlerAccounts,
     EnvironmentAccounts DEF Next
<1>. QED
  BY <1>1, <1>2, AccountsCover, PTL DEF Spec
====
