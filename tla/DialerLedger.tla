---------------------------- MODULE DialerLedger ----------------------------
(***************************************************************************)
(* Dialer implements AttemptLedger while its UPDATEs of calls_queue        *)
(* succeed, for every value of the other constants and every fault.        *)
(***************************************************************************)
EXTENDS DialerProofs

\* The calls an attempt of row r was taken for.
Paid(r) == {p \in Calls : call[p].row = r /\ call[p].paid}

(***************************************************************************)
(* A row's attempts are those left and those taken for a call; a call on   *)
(* its way to Asterisk has its attempt, taken once; one call at a time is  *)
(* being originated, so a restart leaves at most one in doubt.             *)
(***************************************************************************)
Backed ==
    /\ \A p \in Calls : call[p].pc \in {"send", "oami", "dialed"} => call[p].paid
    /\ \A p \in Calls : call[p].pc \in {"free", "find", "add", "minus"} => ~call[p].paid
    /\ \A p, q \in Calls : call[p].pc = "oami" /\ call[q].pc = "oami" => p = q
    /\ \A r \in Rows : Cardinality(Paid(r)) = Attempts[Branch[r]] - retries[r]

LEMMA LedgerSets ==
  ASSUME NEW r
  PROVE  /\ IsFiniteSet(Paid(r)) /\ Cardinality(Paid(r)) \in Nat
         /\ IsFiniteSet(Placed(r)) /\ Cardinality(Placed(r)) \in Nat
<1>1. Paid(r) \in SUBSET Calls /\ Placed(r) \in SUBSET Calls
  BY DEF Paid, Placed
<1>. QED
  BY <1>1, FiniteData, SubsetCard

LEMMA InitBacked == Init => Backed
<1> SUFFICES ASSUME Init PROVE Backed
  OBVIOUS
<1>1. ASSUME NEW r \in Rows PROVE Cardinality(Paid(r)) = Attempts[Branch[r]] - retries[r]
  <2>1. Paid(r) = {}
    BY DEF Paid, Init, NewCall
  <2>2. Attempts[Branch[r]] \in Nat /\ retries[r] = Attempts[Branch[r]]
    BY RowData, TaskData DEF Init
  <2>. QED
    BY <2>1, <2>2, FS_EmptySet
<1>. QED
  BY <1>1 DEF Init, Backed, NewCall

\* Steps that take no attempt and change no more than a goroutine's pc.
LEMMA BackedFrame ==
  ASSUME Backed, UNCHANGED retries,
         \A p \in Calls : call'[p].row = call[p].row /\ call'[p].paid = call[p].paid,
         \A p \in Calls : call'[p].pc \in {"send", "oami", "dialed"} => call[p].paid,
         \A p \in Calls :
            call'[p].pc \in {"free", "find", "add", "minus"} => ~call[p].paid,
         \A p, q \in Calls : call'[p].pc = "oami" /\ call'[q].pc = "oami" => p = q
  PROVE  Backed'
<1>1. \A r \in Rows : Paid(r)' = Paid(r)
  BY DEF Paid
<1>. QED
  BY <1>1 DEF Backed

LEMMA LaunchBacked ==
  ASSUME TypeOK, Backed, NEW u \in Uids, NEW r \in Rows, NEW p \in Calls, Launch(u, r, p)
  PROVE  Backed'
<1>1. call' = [call EXCEPT ![p] = [pc |-> "find", row |-> r, paid |-> FALSE]]
      /\ call[p].pc = "free" /\ retries' = retries
  BY DEF Launch, Free, database
<1>2. /\ call'[p] = [pc |-> "find", row |-> r, paid |-> FALSE]
      /\ \A q \in Calls : q # p => call'[q] = call[q]
  BY <1>1 DEF TypeOK
<1>3. \A s \in Rows : Paid(s)' = Paid(s)
  BY <1>1, <1>2 DEF Paid, Backed
<1>. QED
  BY <1>1, <1>2, <1>3 DEF Backed

LEMMA MinusBacked ==
  ASSUME TypeOK, Filed, Backed, "db" \notin Env, NEW p \in Calls, MinusRetry(p)
  PROVE  Backed'
<1> DEFINE row == call[p].row
<1>1. row \in Rows /\ call[p].pc = "minus" /\ ~call[p].paid
  BY CallRow DEF MinusRetry, TypeOK, Filed, Backed
<1>2. /\ call' = [call EXCEPT ![p].pc = "send", ![p].paid = TRUE]
      /\ retries' = [retries EXCEPT ![row] = @ - 1]
  BY DEF MinusRetry
<1>3. /\ call'[p].pc = "send" /\ call'[p].row = row /\ call'[p].paid
      /\ \A q \in Calls : q # p => call'[q] = call[q]
  BY <1>2 DEF TypeOK, CallRecords
<1>4. ASSUME NEW r \in Rows
      PROVE  Cardinality(Paid(r)') = Attempts[Branch[r]] - retries'[r]
  <2>0. /\ Attempts[Branch[r]] \in Int /\ retries[r] \in Int
        /\ Cardinality(Paid(r)) = Attempts[Branch[r]] - retries[r]
    BY RowData, TaskData DEF TypeOK, Backed
  <2>1. CASE r = row
    <3>1. Paid(r)' = Paid(r) \cup {p} /\ p \notin Paid(r)
      BY <1>1, <1>3, <2>1 DEF Paid
    <3>2. Cardinality(Paid(r) \cup {p}) = Cardinality(Paid(r)) + 1
      BY <3>1, LedgerSets, FS_AddElement
    <3>3. retries'[r] = retries[r] - 1
      BY <1>1, <1>2, <2>1 DEF TypeOK
    <3>. QED
      BY <2>0, <3>1, <3>2, <3>3
  <2>2. CASE r # row
    <3>1. Paid(r)' = Paid(r) /\ retries'[r] = retries[r]
      BY <1>1, <1>2, <1>3, <2>2 DEF Paid, TypeOK
    <3>. QED
      BY <2>0, <3>1
  <2>. QED
    BY <2>1, <2>2
<1>5. \A q \in Calls : call'[q].pc \in {"send", "oami", "dialed"} => call'[q].paid
  BY <1>3 DEF Backed
<1>6. \A q \in Calls : call'[q].pc \in {"free", "find", "add", "minus"} => ~call'[q].paid
  BY <1>3 DEF Backed
<1>7. \A q, s \in Calls : call'[q].pc = "oami" /\ call'[s].pc = "oami" => q = s
  BY <1>3 DEF Backed
<1>. QED
  BY <1>4, <1>5, <1>6, <1>7 DEF Backed

LEMMA GoroutineBacked ==
  ASSUME TypeOK, Filed, Backed, "db" \notin Env, NEW p \in Calls, Goroutine(p)
  PROVE  Backed'
<1>1. CASE FindEntry(p) \/ AddEntry(p) \/ Receive(p) \/ Originate(p)
  <2>1. UNCHANGED retries
    BY <1>1 DEF FindEntry, AddEntry, Receive, Originate, database
  <2>2. PICK pc : call' = [call EXCEPT ![p].pc = pc]
                  /\ \/ call[p].pc = "find" /\ pc \in {"skipped", "add"}
                     \/ call[p].pc = "add" /\ pc = "minus"
                     \/ /\ call[p].pc = "send" /\ pc = "oami"
                        /\ \A q \in Calls : call[q].pc # "oami"
                     \/ call[p].pc = "oami" /\ pc \in {"dialed", "failed"}
    BY <1>1 DEF FindEntry, AddEntry, Receive, Originate
  <2>3. /\ \A q \in Calls : call'[q].row = call[q].row /\ call'[q].paid = call[q].paid
        /\ call'[p].pc = pc
        /\ \A q \in Calls : q # p => call'[q].pc = call[q].pc
    BY <2>2 DEF TypeOK, CallRecords
  <2>4. \A q \in Calls : call'[q].pc \in {"send", "oami", "dialed"} => call[q].paid
    BY <2>2, <2>3 DEF Backed
  <2>5. \A q \in Calls :
           call'[q].pc \in {"free", "find", "add", "minus"} => ~call[q].paid
    BY <2>2, <2>3 DEF Backed
  <2>6. \A q, s \in Calls : call'[q].pc = "oami" /\ call'[s].pc = "oami" => q = s
    BY <2>2, <2>3 DEF Backed
  <2>. QED
    BY <2>1, <2>3, <2>4, <2>5, <2>6, BackedFrame
<1>2. CASE MinusRetry(p)
  BY <1>2, MinusBacked
<1>. QED
  BY <1>1, <1>2 DEF Goroutine

LEMMA CrashBacked ==
  ASSUME TypeOK, Backed, NEW sent \in BOOLEAN, Crash(sent)
  PROVE  Backed'
<1>1. \A q \in Calls : /\ call'[q].row = call[q].row /\ call'[q].paid = call[q].paid
                       /\ call'[q].pc \in {"lost", "dialed", call[q].pc}
                       /\ call'[q].pc # "oami"
                       /\ call'[q].pc = "dialed" => call[q].pc \in {"oami", "dialed"}
  BY DEF Crash, TypeOK, CallRecords
<1>2. UNCHANGED retries
  BY DEF Crash, database
<1>3. \A p \in Calls : call'[p].pc \in {"send", "oami", "dialed"} => call[p].paid
  BY <1>1 DEF Backed
<1>4. \A p \in Calls :
         call'[p].pc \in {"free", "find", "add", "minus"} => ~call[p].paid
  BY <1>1 DEF Backed
<1>. QED
  BY <1>1, <1>2, <1>3, <1>4, BackedFrame

\* Steps that touch neither a goroutine nor a row.
LEMMA OtherSteps ==
  ASSUME [Next]_vars,
         \A u \in Uids, r \in Rows, p \in Calls : ~Launch(u, r, p),
         \A p \in Calls : ~Goroutine(p),
         \A sent \in BOOLEAN : ~Crash(sent)
  PROVE  UNCHANGED <<call, retries>>
  BY DEF Next, Dispatcher, Tick, BeginTask, WriteWork, NoLine, ReadCalls, SkipRow,
         Asterisk, ComesUp, Answered, HangsUp, ChannelStep,
         Handler, TakeEvent, UpdateEntry, DeleteEntry, ReleaseBranch, ReleaseGeo,
         Environment, Reload, PollQueue, ToggleTask, ToggleWindow, RetryElapses,
         LoseEvents, memory, database, vars

LEMMA StepBacked ==
  ASSUME "db" \notin Env, TypeOK, Filed, Backed, [Next]_vars
  PROVE  Backed'
<1>1. CASE UNCHANGED <<call, retries>>
  BY <1>1, BackedFrame DEF Backed
<1>. QED
  BY <1>1, OtherSteps, LaunchBacked, GoroutineBacked, CrashBacked

-----------------------------------------------------------------------------
(* Every step is a Pay, a Place or a stutter of the ledger.                *)

\* A step that makes call p a placed one, and no other.
LEMMA PlaceStep ==
  ASSUME TypeOK, Filed, Backed, NEW p \in Calls, call[p].pc = "oami",
         call'[p].pc = "dialed", UNCHANGED retries,
         \A q \in Calls : call'[q].row = call[q].row,
         \A q \in Calls : q # p => (call'[q].pc = "dialed" <=> call[q].pc = "dialed")
  PROVE  Ledger!Next
<1> DEFINE r == call[p].row
<1>1. r \in Rows
  BY CallRow DEF TypeOK, Filed
<1>2. \A s \in Rows : Placed(s)' = IF s = r THEN Placed(s) \cup {p} ELSE Placed(s)
  BY DEF Placed
<1>3. p \notin Placed(r) /\ p \in Paid(r) /\ Placed(r) \subseteq Paid(r)
  BY DEF Placed, Paid, Backed
<1>4. Cardinality(Placed(r)) < Cardinality(Paid(r))
  BY <1>3, LedgerSets, FS_Subset
<1>5. Cardinality(Placed(r) \cup {p}) = Cardinality(Placed(r)) + 1
  BY <1>3, LedgerSets, FS_AddElement
<1>6. Ledger!Place(r)
  BY <1>1, <1>2, <1>4, <1>5 DEF Ledger!Place, Backed
<1>. QED
  BY <1>1, <1>6 DEF Ledger!Next

LEMMA PayStep ==
  ASSUME TypeOK, Filed, Backed, "db" \notin Env, NEW p \in Calls, MinusRetry(p)
  PROVE  Ledger!Next
<1> DEFINE row == call[p].row
<1>1. row \in Rows
  BY CallRow DEF MinusRetry, TypeOK, Filed
<1>2. retries' = [retries EXCEPT ![row] = @ - 1]
      /\ call' = [call EXCEPT ![p].pc = "send", ![p].paid = TRUE]
      /\ call[p].pc = "minus"
  BY DEF MinusRetry
<1>3. \A s \in Rows : Placed(s)' = Placed(s)
  BY <1>2 DEF Placed, TypeOK, CallRecords
<1>4. Ledger!Pay(row)
  BY <1>2, <1>3 DEF Ledger!Pay
<1>. QED
  BY <1>1, <1>4 DEF Ledger!Next

LEMMA LedgerStutter ==
  ASSUME UNCHANGED retries, \A r \in Rows : Placed(r)' = Placed(r)
  PROVE  UNCHANGED <<retries, [r \in Rows |-> Cardinality(Placed(r))]>>
  OBVIOUS

LEMMA LedgerStep ==
  ASSUME "db" \notin Env, TypeOK, Filed, Backed, [Next]_vars
  PROVE  [Ledger!Next]_<<retries, [r \in Rows |-> Cardinality(Placed(r))]>>
<1>1. CASE UNCHANGED <<call, retries>>
  BY <1>1, LedgerStutter DEF Placed
<1>2. ASSUME NEW u \in Uids, NEW r \in Rows, NEW p \in Calls, Launch(u, r, p)
      PROVE  UNCHANGED <<retries, [s \in Rows |-> Cardinality(Placed(s))]>>
  <2>1. /\ UNCHANGED retries
        /\ call[p].pc = "free" /\ call'[p].pc = "find"
        /\ \A q \in Calls : q # p => call'[q] = call[q]
    BY <1>2 DEF Launch, Free, database, TypeOK
  <2>2. \A s \in Rows : Placed(s)' = Placed(s)
    BY <2>1 DEF Placed
  <2>. QED
    BY <2>1, <2>2, LedgerStutter
<1>3. ASSUME NEW p \in Calls, Goroutine(p)
      PROVE  [Ledger!Next]_<<retries, [r \in Rows |-> Cardinality(Placed(r))]>>
  <2>1. CASE MinusRetry(p)
    BY <2>1, PayStep
  <2>2. CASE FindEntry(p) \/ AddEntry(p) \/ Receive(p) \/ Originate(p)
    <3>1. UNCHANGED retries
      BY <2>2 DEF FindEntry, AddEntry, Receive, Originate, database
    <3>2. PICK pc : call' = [call EXCEPT ![p].pc = pc]
                    /\ call[p].pc # "dialed"
                    /\ (pc = "dialed" => call[p].pc = "oami")
      BY <2>2 DEF FindEntry, AddEntry, Receive, Originate
    <3>3. /\ \A q \in Calls : call'[q].row = call[q].row
          /\ call'[p].pc = pc
          /\ \A q \in Calls : q # p => call'[q].pc = call[q].pc
      BY <3>2 DEF TypeOK, CallRecords
    <3>4. CASE pc = "dialed"
      BY <3>1, <3>2, <3>3, <3>4, PlaceStep
    <3>5. CASE pc # "dialed"
      <4>1. \A r \in Rows : Placed(r)' = Placed(r)
        BY <3>2, <3>3, <3>5 DEF Placed
      <4>. QED
        BY <3>1, <4>1, LedgerStutter
    <3>. QED
      BY <3>4, <3>5
  <2>. QED
    BY <1>3, <2>1, <2>2 DEF Goroutine
<1>4. ASSUME NEW sent \in BOOLEAN, Crash(sent)
      PROVE  [Ledger!Next]_<<retries, [r \in Rows |-> Cardinality(Placed(r))]>>
  <2>1. /\ UNCHANGED retries
        /\ \A q \in Calls :
              /\ call'[q].row = call[q].row
              /\ call'[q].pc = "dialed" <=>
                    (call[q].pc = "dialed" \/ (call[q].pc = "oami" /\ sent))
    BY <1>4 DEF Crash, database, TypeOK, CallRecords
  <2>2. CASE \E p \in Calls : call[p].pc = "oami" /\ sent
    <3>1. PICK p \in Calls : call[p].pc = "oami" /\ sent
      BY <2>2
    <3>2. \A q \in Calls : q # p => (call'[q].pc = "dialed" <=> call[q].pc = "dialed")
      BY <2>1, <3>1 DEF Backed
    <3>. QED
      BY <2>1, <3>1, <3>2, PlaceStep
  <2>3. CASE ~ \E p \in Calls : call[p].pc = "oami" /\ sent
    <3>1. \A r \in Rows : Placed(r)' = Placed(r)
      BY <2>1, <2>3 DEF Placed
    <3>. QED
      BY <2>1, <3>1, LedgerStutter
  <2>. QED
    BY <2>2, <2>3
<1>. QED
  BY <1>1, <1>2, <1>3, <1>4, OtherSteps

LEMMA LedgerInit == Init => Ledger!Init
<1> SUFFICES ASSUME Init PROVE Ledger!Init
  OBVIOUS
<1>1. \A r \in Rows : Placed(r) = {}
  BY DEF Init, Placed, NewCall
<1>. QED
  BY <1>1, FS_EmptySet DEF Init, Ledger!Init

(***************************************************************************)
(* Every call Asterisk is given is backed by an attempt of its own, taken  *)
(* before, across restarts, lost events and any interleaving, provided the *)
(* UPDATE of processCallMinusRetry succeeds (the code dials on if it does  *)
(* not).                                                                   *)
(***************************************************************************)
THEOREM AttemptsAreBacked ==
  ASSUME "db" \notin Env
  PROVE  Spec => AttemptsBacked
<1>1. Init => TypeOK /\ Filed /\ Backed
  BY InitTypeOK, InitFiled, InitBacked
<1>2. TypeOK /\ Filed /\ Backed /\ [Next]_vars => (TypeOK /\ Filed /\ Backed)'
  BY StepTypeOK, StepFiled, StepBacked
<1>3. TypeOK /\ Filed /\ Backed /\ [Next]_vars
        => [Ledger!Next]_<<retries, [r \in Rows |-> Cardinality(Placed(r))]>>
  BY LedgerStep
<1>. QED
  BY <1>1, <1>2, <1>3, LedgerInit, PTL DEF Spec, AttemptsBacked, Ledger!Spec
====
