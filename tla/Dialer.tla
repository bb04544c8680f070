------------------------------- MODULE Dialer -------------------------------
(***************************************************************************)
(* The dialling core of app/: the dispatcher goroutine (processCallQueueue)*)
(* that turns rows of calls_queue into goroutines (processCall), the       *)
(* goroutine that originates calls over AMI (initOAMI), the goroutine that *)
(* consumes AMI events (handleEvents), and the two maps they share:        *)
(* worklimitsMap (lines in use) and callEntry (calls online).              *)
(*                                                                         *)
(* What lives in MySQL (calls_queue, tasks) and in Asterisk (the two       *)
(* halves of every Local channel) survives a restart of the program; what  *)
(* lives in its memory does not.                                           *)
(***************************************************************************)
EXTENDS Integers, Sequences, FiniteSets

CONSTANTS
    Uids,        \* branches: rows of tasks, keyed by their uid
    Geos,        \* rows of geos
    Rows,        \* rows of calls_queue
    Dsts,        \* phone numbers
    Queues,      \* Asterisk queues
    Calls,       \* processCall goroutines; BOUND: each is launched at most once
    Legs,        \* halves of the Local channel of an originated call
    NoRow,       \* the absent map entry
    TaskGeo, TaskId, TaskType, TaskQueue,  \* columns of tasks, by uid
    Attempts,    \* tasks.retries, the initial calls_queue.retries_left, by uid
    Branch, Dst, \* columns of calls_queue, by row
    LimitItems,  \* what nlines and cps of a branch or geo may be edited to
    MaxLines,    \* the largest nlines a branch or geo is ever given
    Available,   \* values of QueueSummary.Available
    Env          \* which environment behaviours an instance exercises

Keys == Uids \cup Geos

ASSUME FiniteData ==
    /\ IsFiniteSet(Rows) /\ IsFiniteSet(Dsts)
    /\ IsFiniteSet(Calls) /\ IsFiniteSet(Legs)
ASSUME KeysDisjoint == Uids \cap Geos = {}
ASSUME NoRowFresh == NoRow \notin Rows
ASSUME TaskData ==
    /\ TaskGeo \in [Uids -> Geos]
    /\ TaskId \in [Uids -> Nat]
    /\ \A u, v \in Uids : TaskId[u] = TaskId[v] => u = v
    /\ TaskType \in [Uids -> Nat]
    /\ TaskQueue \in [Uids -> Queues]
    /\ Attempts \in [Uids -> Nat]
ASSUME RowData == Branch \in [Rows -> Uids] /\ Dst \in [Rows -> Dsts]
ASSUME LimitData ==
    /\ MaxLines \in [Keys -> Nat \ {0}]
    /\ \A k \in Keys :
        LimitItems[k] \subseteq [nlines : 0..MaxLines[k], cps : Nat]
ASSUME EnvData ==
    /\ Available \subseteq Nat
    /\ Env \subseteq {"limits", "queues", "tasks", "clock",
                      "originate", "events", "db", "crash"}

VARIABLES
    limits,      \* limitsMap: configured lines and cps; absent reads as zero
    known,       \* the keys worklimitsMap has
    nlines,      \* worklimitsMap[k].NLines; absent reads as zero
    callEntry,   \* calls online, by number
    call,        \* the processCall goroutines and the calls they become
    disp,        \* the dispatcher goroutine
    hnd,         \* the event handler goroutine
    evUp,        \* the event loop is running
    stream,      \* AMI events sent to us and not yet handled
    retries,     \* calls_queue.retries_left
    due,         \* rows whose calls_queue.retry_time has passed
    active,      \* tasks with ready = 2 and start <= now() <= stop
    open,        \* tasks whose daily window contains the current time
    avail,       \* queuesMap[q].Available; absent reads as zero
    legs         \* Asterisk: the halves of each call's Local channel

memory == <<limits, known, nlines, callEntry, disp, hnd, evUp, stream>>
database == <<retries, due, active, open>>
vars == <<memory, database, call, avail, legs>>

-----------------------------------------------------------------------------
(* The data.                                                               *)

NoItem == [nlines |-> 0, cps |-> 0]
NoEntry == [row |-> NoRow, state |-> 0]
IdleDisp == [pc |-> "task", todo |-> {}, copy |-> 0, batch |-> {}]
IdleHnd == [pc |-> "recv", row |-> NoRow, state |-> 0]
NewCall == [pc |-> "free", row |-> NoRow, paid |-> FALSE]

KeysOf(r) == {Branch[r], TaskGeo[Branch[r]]}
RowsOf(k) == {r \in Rows : k \in KeysOf(r)}

\* CallsFind: is a call to the number online?
Online(d) == callEntry[d].row # NoRow

(***************************************************************************)
(* A goroutine: find (launched, has not looked its number up yet), add     *)
(* (found nothing online, sleeping before CallsAdd), minus (entry added),  *)
(* send (blocked on callChan), oami (received, being originated), and its  *)
(* outcomes: skipped, dialed (Asterisk accepted the call), failed, lost.   *)
(***************************************************************************)
CallPcs == {"free", "find", "add", "minus", "send", "oami",
            "skipped", "dialed", "failed", "lost"}

Items == [nlines : Nat, cps : Nat]
Entries == [row : Rows \cup {NoRow}, state : 0..2]
CallRecords == [pc : CallPcs, row : Rows \cup {NoRow}, paid : BOOLEAN]
Dispatches == [pc : {"task", "write", "check", "calls"}, todo : SUBSET Uids,
               copy : Int, batch : SUBSET Rows]
Handlings == [pc : {"recv", "update", "delete", "relBranch", "relGeo"},
              row : Rows \cup {NoRow}, state : 0..2]
Events == [kind : {"Newchannel", "BridgeEnter", "Hangup"}, dst : Dsts]
LegStates == {"none", "up", "bridged", "down"}

TypeOK ==
    /\ limits \in [Keys -> Items]
    /\ known \subseteq Keys
    /\ nlines \in [Keys -> Int]
    /\ callEntry \in [Dsts -> Entries]
    /\ call \in [Calls -> CallRecords]
    /\ disp \in Dispatches
    /\ hnd \in Handlings
    /\ evUp \in BOOLEAN
    /\ stream \in Seq(Events)
    /\ retries \in [Rows -> Int]
    /\ due \subseteq Rows
    /\ active \subseteq Uids
    /\ open \subseteq Uids
    /\ avail \in [Queues -> Nat]
    /\ legs \in [Calls -> [Legs -> LegStates]]

Init ==
    /\ limits = [k \in Keys |-> NoItem]
    /\ known = {}
    /\ nlines = [k \in Keys |-> 0]
    /\ callEntry = [d \in Dsts |-> NoEntry]
    /\ call = [p \in Calls |-> NewCall]
    /\ disp = IdleDisp
    /\ hnd = IdleHnd
    /\ evUp = TRUE
    /\ stream = <<>>
    /\ retries = [r \in Rows |-> Attempts[Branch[r]]]
    /\ due = Rows
    /\ active = Uids
    /\ open = Uids
    /\ avail = [q \in Queues |-> 0]
    /\ legs = [p \in Calls |-> [l \in Legs |-> "none"]]

-----------------------------------------------------------------------------
(* The dispatcher: one pass per tick, one task after another.              *)

\* The task the dispatcher is at: getActiveTasks orders them by id, descending.
Current(u) == u \in disp.todo /\ \A v \in disp.todo : TaskId[v] <= TaskId[u]

Finished(u) == [IdleDisp EXCEPT !.todo = disp.todo \ {u}]

\* The branch sets a cps of its own and the geo leaves it open.
CpsOverride(u) ==
    /\ limits[u].cps > limits[TaskGeo[u]].cps
    /\ limits[TaskGeo[u]].cps = 0

\* Mutant of HasLine: a full branch or geo passes.
HasLineOrFull(u) ==
    \A k \in {u, TaskGeo[u]} : limits[k].nlines >= nlines[k]

\* Both the branch and its geo use fewer lines than configured.
HasLine(u) ==
    \A k \in {u, TaskGeo[u]} : limits[k].nlines > nlines[k]

\* getReadyCalls: rows of the branch with attempts left, due now.
ReadyRows(u) == {r \in Rows : Branch[r] = u /\ retries[r] > 0 /\ r \in due}

\* What the switch on call.Type requires before a line is taken.
MayDial(u) ==
    \/ TaskType[u] = 1
    \/ TaskType[u] \in {2, 3} /\ avail[TaskQueue[u]] > 0

Free == {p \in Calls : call[p].pc = "free"}

\* A tick reads the active tasks (when the query fails it finds none).
Tick ==
    /\ disp.pc = "task" /\ disp.todo = {}
    /\ disp' = [disp EXCEPT !.todo = active]
    /\ UNCHANGED <<limits, known, nlines, callEntry, hnd, evUp, stream,
                   database, call, avail, legs>>

\* Mutant of BeginTask: the entries are initialised although they exist.
BeginTaskResets(u) ==
    /\ disp.pc = "task" /\ Current(u)
    /\ known' = known \cup {u, TaskGeo[u]}
    /\ nlines' = [nlines EXCEPT ![u] = 0, ![TaskGeo[u]] = 0]
    /\ disp' = [disp EXCEPT !.pc = "check"]
    /\ UNCHANGED <<limits, callEntry, hnd, evUp, stream,
                   database, call, avail, legs>>

(***************************************************************************)
(* Entries are made for the branch and the geo when they have none.  Where *)
(* the branch's cps applies, its entry is then copied out of worklimitsMap *)
(* without the mutex, to be written back whole by WriteWork.               *)
(***************************************************************************)
BeginTask(u) ==
    /\ disp.pc = "task" /\ Current(u)
    /\ known' = known \cup {u, TaskGeo[u]}
    /\ disp' = IF CpsOverride(u)
               THEN [disp EXCEPT !.pc = "write", !.copy = nlines[u]]
               ELSE [disp EXCEPT !.pc = "check"]
    /\ UNCHANGED <<limits, nlines, callEntry, hnd, evUp, stream,
                   database, call, avail, legs>>

WriteWork(u) ==
    /\ disp.pc = "write" /\ Current(u)
    /\ nlines' = [nlines EXCEPT ![u] = disp.copy]
    /\ disp' = [disp EXCEPT !.pc = "check", !.copy = 0]
    /\ UNCHANGED <<limits, known, callEntry, hnd, evUp, stream,
                   database, call, avail, legs>>

\* No line free: the task waits for the next tick.
NoLine(u) ==
    /\ disp.pc = "check" /\ Current(u)
    /\ ~HasLine(u)
    /\ disp' = Finished(u)
    /\ UNCHANGED <<limits, known, nlines, callEntry, hnd, evUp, stream,
                   database, call, avail, legs>>

\* A line is free: the branch's ready rows are read, once for the whole pass.
ReadCalls(u, rows) ==
    /\ disp.pc = "check" /\ Current(u)
    /\ HasLine(u)
    /\ \/ rows = ReadyRows(u)
       \/ "db" \in Env /\ rows \subseteq ReadyRows(u)   \* reading them breaks off
    /\ disp' = IF rows = {} THEN Finished(u)
               ELSE [disp EXCEPT !.pc = "calls", !.batch = rows]
    /\ UNCHANGED <<limits, known, nlines, callEntry, hnd, evUp, stream,
                   database, call, avail, legs>>

AfterRow(u, r) ==
    IF disp.batch = {r} THEN Finished(u) ELSE [disp EXCEPT !.batch = @ \ {r}]

\* Mutant of LineGet: no line of the geo is taken.
LineGetBranchOnly(ks) ==
    [k \in Keys |-> IF k \in ks \cap known \cap Uids THEN nlines[k] + 1 ELSE nlines[k]]

\* LimitsLineGet on a key that has an entry.
LineGet(ks) == [k \in Keys |-> IF k \in ks \cap known THEN nlines[k] + 1 ELSE nlines[k]]

\* Two LimitsLineGet and `go processCall`.
Launch(u, r, p) ==
    /\ disp.pc = "calls" /\ Current(u)
    /\ r \in disp.batch
    /\ u \in open /\ MayDial(u)
    /\ p \in Free
    /\ nlines' = LineGet({u, TaskGeo[u]})
    /\ call' = [call EXCEPT ![p] = [pc |-> "find", row |-> r, paid |-> FALSE]]
    /\ disp' = AfterRow(u, r)
    /\ UNCHANGED <<limits, known, callEntry, hnd, evUp, stream,
                   database, avail, legs>>

\* Outside the daily window, no agent available, a type the switch does not
\* know, or (BOUND) no goroutine instance left.
SkipRow(u, r) ==
    /\ disp.pc = "calls" /\ Current(u)
    /\ r \in disp.batch
    /\ u \notin open \/ ~MayDial(u) \/ Free = {}
    /\ disp' = AfterRow(u, r)
    /\ UNCHANGED <<limits, known, nlines, callEntry, hnd, evUp, stream,
                   database, call, avail, legs>>

Dispatcher ==
    \/ Tick
    \/ \E u \in Uids : BeginTask(u) \/ WriteWork(u) \/ NoLine(u)
    \/ \E u \in Uids, rows \in SUBSET Rows : ReadCalls(u, rows)
    \/ \E u \in Uids, r \in Rows, p \in Calls : Launch(u, r, p)
    \/ \E u \in Uids, r \in Rows : SkipRow(u, r)

-----------------------------------------------------------------------------
(* processCall, one goroutine per launched row.                            *)

\* CallsFind before the cps pause.  A goroutine that finds the number online
\* ends here, and the lines the dispatcher took for it stay taken.
FindEntry(p) ==
    /\ call[p].pc = "find"
    /\ call' = [call EXCEPT ![p].pc =
                   IF Online(Dst[call[p].row]) THEN "skipped" ELSE "add"]
    /\ UNCHANGED <<memory, database, avail, legs>>

\* CallsAdd after the pause, on the strength of what was found before it:
\* calls to the number may have been added or hung up meanwhile.
AddEntry(p) ==
    /\ call[p].pc = "add"
    /\ callEntry' = [callEntry EXCEPT ![Dst[call[p].row]] =
                        [row |-> call[p].row, state |-> 0]]
    /\ call' = [call EXCEPT ![p].pc = "minus"]
    /\ UNCHANGED <<limits, known, nlines, disp, hnd, evUp, stream,
                   database, avail, legs>>

\* Mutant of MinusRetry: processCallRetryTime is called in its place.
RetryTimeOnly(p) ==
    /\ call[p].pc = "minus"
    /\ due' = due \ {call[p].row}
    /\ call' = [call EXCEPT ![p].pc = "send", ![p].paid = TRUE]
    /\ UNCHANGED <<memory, retries, active, open, avail, legs>>

\* processCallMinusRetry.  An error is logged and the call goes on.
MinusRetry(p) ==
    /\ call[p].pc = "minus"
    /\ \/ /\ retries' = [retries EXCEPT ![call[p].row] = @ - 1]
          /\ due' = due \ {call[p].row}
          /\ call' = [call EXCEPT ![p].pc = "send", ![p].paid = TRUE]
       \/ /\ "db" \in Env
          /\ call' = [call EXCEPT ![p].pc = "send"]
          /\ UNCHANGED <<retries, due>>
    /\ UNCHANGED <<memory, active, open, avail, legs>>

\* Mutant of Receive: initOAMI returns after its first call.
ReceiveOnce(p) ==
    /\ call[p].pc = "send"
    /\ \A q \in Calls : call[q].pc \notin {"oami", "dialed", "failed"}
    /\ call' = [call EXCEPT ![p].pc = "oami"]
    /\ UNCHANGED <<memory, database, avail, legs>>

\* callChan is unbuffered and initOAMI originates one call at a time.
Receive(p) ==
    /\ call[p].pc = "send"
    /\ \A q \in Calls : call[q].pc # "oami"
    /\ call' = [call EXCEPT ![p].pc = "oami"]
    /\ UNCHANGED <<memory, database, avail, legs>>

\* The response to Originate.  An error is logged; the entry and the lines stay.
Originate(p) ==
    /\ call[p].pc = "oami"
    /\ \/ call' = [call EXCEPT ![p].pc = "dialed"]
       \/ "originate" \in Env /\ call' = [call EXCEPT ![p].pc = "failed"]
    /\ UNCHANGED <<memory, database, avail, legs>>

Goroutine(p) ==
    FindEntry(p) \/ AddEntry(p) \/ MinusRetry(p) \/ Receive(p) \/ Originate(p)

-----------------------------------------------------------------------------
(* Asterisk: each half of a dialed call's Local channel comes up, may be   *)
(* answered, and hangs up.  Its events carry the number, not the call, and *)
(* reach the program while its event loop runs.                            *)

Emit(kind, p) ==
    stream' = IF evUp
              THEN Append(stream, [kind |-> kind, dst |-> Dst[call[p].row]])
              ELSE stream

ChannelStep(p, l, from, to, kind) ==
    /\ call[p].pc = "dialed"
    /\ legs[p][l] \in from
    /\ legs' = [legs EXCEPT ![p][l] = to]
    /\ Emit(kind, p)
    /\ UNCHANGED <<limits, known, nlines, callEntry, disp, hnd, evUp,
                   database, call, avail>>

ComesUp(p, l) == ChannelStep(p, l, {"none"}, "up", "Newchannel")
Answered(p, l) == ChannelStep(p, l, {"up"}, "bridged", "BridgeEnter")
HangsUp(p, l) == ChannelStep(p, l, {"up", "bridged"}, "down", "Hangup")

-----------------------------------------------------------------------------
(* handleEvents: CallsFind copies the entry, later steps use the copy.     *)

StateOf(kind) == IF kind = "Newchannel" THEN 1 ELSE 2

\* Mutant of TakeEvent: a Hangup is handled like the other events.
TakeEventNoHangup ==
    /\ hnd.pc = "recv" /\ stream # <<>>
    /\ LET e == Head(stream)
       IN  hnd' = IF ~Online(e.dst) THEN IdleHnd
                  ELSE [pc |-> "update", row |-> callEntry[e.dst].row,
                        state |-> StateOf(e.kind)]
    /\ stream' = Tail(stream)
    /\ UNCHANGED <<limits, known, nlines, callEntry, disp, evUp,
                   database, call, avail, legs>>

TakeEvent ==
    /\ hnd.pc = "recv" /\ stream # <<>>
    /\ LET e == Head(stream)
           row == callEntry[e.dst].row
       IN  hnd' = IF ~Online(e.dst) THEN IdleHnd
                  ELSE IF e.kind = "Hangup"
                  THEN [pc |-> "delete", row |-> row, state |-> 0]
                  ELSE [pc |-> "update", row |-> row, state |-> StateOf(e.kind)]
    /\ stream' = Tail(stream)
    /\ UNCHANGED <<limits, known, nlines, callEntry, disp, evUp,
                   database, call, avail, legs>>

\* CallsAdd of the copy with its new state.
UpdateEntry ==
    /\ hnd.pc = "update"
    /\ callEntry' = [callEntry EXCEPT ![Dst[hnd.row]] =
                        [row |-> hnd.row, state |-> hnd.state]]
    /\ hnd' = IdleHnd
    /\ UNCHANGED <<limits, known, nlines, disp, evUp, stream,
                   database, call, avail, legs>>

\* Mutant of DeleteEntry: CallsDelete is forgotten, the entry stays in state 3.
DeleteEntryKeeps ==
    /\ hnd.pc = "delete"
    /\ callEntry' = [callEntry EXCEPT ![Dst[hnd.row]] = [row |-> hnd.row, state |-> 3]]
    /\ hnd' = [hnd EXCEPT !.pc = "relBranch"]
    /\ UNCHANGED <<limits, known, nlines, disp, evUp, stream,
                   database, call, avail, legs>>

\* CallsAdd of the copy in state 3 and CallsDelete: the number is offline.
DeleteEntry ==
    /\ hnd.pc = "delete"
    /\ callEntry' = [callEntry EXCEPT ![Dst[hnd.row]] = NoEntry]
    /\ hnd' = [hnd EXCEPT !.pc = "relBranch"]
    /\ UNCHANGED <<limits, known, nlines, disp, evUp, stream,
                   database, call, avail, legs>>

\* LimitsLineRelease of the copy's branch, then of its geo.
LineRelease(k) ==
    IF k \in known THEN [nlines EXCEPT ![k] = @ - 1] ELSE nlines

ReleaseBranch ==
    /\ hnd.pc = "relBranch"
    /\ nlines' = LineRelease(Branch[hnd.row])
    /\ hnd' = [hnd EXCEPT !.pc = "relGeo"]
    /\ UNCHANGED <<limits, known, callEntry, disp, evUp, stream,
                   database, call, avail, legs>>

ReleaseGeo ==
    /\ hnd.pc = "relGeo"
    /\ nlines' = LineRelease(TaskGeo[Branch[hnd.row]])
    /\ hnd' = IdleHnd
    /\ UNCHANGED <<limits, known, callEntry, disp, evUp, stream,
                   database, call, avail, legs>>

Handler ==
    TakeEvent \/ UpdateEntry \/ DeleteEntry \/ ReleaseBranch \/ ReleaseGeo

-----------------------------------------------------------------------------
(* The environment.                                                        *)

\* processLimits re-reads a branch or geo an operator edited.
Reload(k, item) ==
    /\ "limits" \in Env
    /\ limits' = [limits EXCEPT ![k] = item]
    /\ UNCHANGED <<known, nlines, callEntry, disp, hnd, evUp, stream,
                   database, call, avail, legs>>

\* initAMI polls QueueSummary into queuesMap.
PollQueue(q, n) ==
    /\ "queues" \in Env
    /\ avail' = [avail EXCEPT ![q] = n]
    /\ UNCHANGED <<memory, database, call, legs>>

\* A task becomes active or stops being so (its dates, task-delete).
ToggleTask(u) ==
    /\ "tasks" \in Env
    /\ active' = IF u \in active THEN active \ {u} ELSE active \cup {u}
    /\ UNCHANGED <<memory, retries, due, open, call, avail, legs>>

\* The clock enters or leaves the daily window of a task.
ToggleWindow(u) ==
    /\ "clock" \in Env
    /\ open' = IF u \in open THEN open \ {u} ELSE open \cup {u}
    /\ UNCHANGED <<memory, retries, due, active, call, avail, legs>>

\* The pause of the task between two attempts passes.
RetryElapses(r) ==
    /\ r \notin due
    /\ due' = due \cup {r}
    /\ UNCHANGED <<memory, retries, active, open, call, avail, legs>>

\* GetEvents fails: run returns, and nothing reconnects or reads again.
LoseEvents ==
    /\ "events" \in Env /\ evUp
    /\ evUp' = FALSE
    /\ stream' = <<>>
    /\ UNCHANGED <<limits, known, nlines, callEntry, disp, hnd,
                   database, call, avail, legs>>

(***************************************************************************)
(* The process dies (log.Fatal, a panic, Go's fatal "concurrent map read   *)
(* and map write") and is restarted: the maps start empty.  A call that    *)
(* was being originated reached Asterisk or did not.                       *)
(***************************************************************************)
Crash(sent) ==
    /\ "crash" \in Env
    /\ limits' = [k \in Keys |-> NoItem]
    /\ known' = {}
    /\ nlines' = [k \in Keys |-> 0]
    /\ callEntry' = [d \in Dsts |-> NoEntry]
    /\ disp' = IdleDisp
    /\ hnd' = IdleHnd
    /\ evUp' = TRUE
    /\ stream' = <<>>
    /\ call' = [p \in Calls |->
                  CASE call[p].pc = "oami" ->
                         [call[p] EXCEPT !.pc = IF sent THEN "dialed" ELSE "lost"]
                    [] call[p].pc \in {"find", "add", "minus", "send"} ->
                         [call[p] EXCEPT !.pc = "lost"]
                    [] OTHER -> call[p]]
    /\ avail' = [q \in Queues |-> 0]
    /\ UNCHANGED <<database, legs>>

Environment ==
    \/ \E k \in Keys : \E item \in LimitItems[k] : Reload(k, item)
    \/ \E q \in Queues, n \in Available : PollQueue(q, n)
    \/ \E u \in Uids : ToggleTask(u) \/ ToggleWindow(u)
    \/ \E r \in Rows : RetryElapses(r)
    \/ LoseEvents
    \/ \E sent \in BOOLEAN : Crash(sent)

Asterisk ==
    \E p \in Calls, l \in Legs : ComesUp(p, l) \/ Answered(p, l) \/ HangsUp(p, l)

Next ==
    \/ Dispatcher
    \/ \E p \in Calls : Goroutine(p)
    \/ Asterisk
    \/ Handler
    \/ Environment

Spec == Init /\ [][Next]_vars

-----------------------------------------------------------------------------
(* Line accounting.                                                        *)

(***************************************************************************)
(* The claims on the lines of key k: what may still release one.  Launched *)
(* goroutines that have not added their entry yet; numbers whose entry, or *)
(* whose entry as the handler copied it, belongs to k; and the release the *)
(* handler is about to make.                                               *)
(***************************************************************************)
Waiting(k) ==
    {p \in Calls : call[p].pc \in {"find", "add"} /\ k \in KeysOf(call[p].row)}

Copied(d) == hnd.pc \in {"update", "delete"} /\ Dst[hnd.row] = d

Held(k) ==
    {d \in Dsts : \/ Online(d) /\ k \in KeysOf(callEntry[d].row)
                  \/ Copied(d) /\ k \in KeysOf(hnd.row)}

Releasing(k) ==
    \/ hnd.pc = "relBranch" /\ k \in KeysOf(hnd.row)
    \/ hnd.pc = "relGeo" /\ k = TaskGeo[Branch[hnd.row]]

Claims(k) ==
    Cardinality(Waiting(k)) + Cardinality(Held(k)) + (IF Releasing(k) THEN 1 ELSE 0)

(***************************************************************************)
(* worklimitsMap never counts fewer lines than releases may still come: no *)
(* interleaving of the goroutines, the stale copies of the handler and the *)
(* unlocked write-back of the dispatcher frees a line twice, so a counter  *)
(* is never negative and a limit is never exceeded because of one that is. *)
(***************************************************************************)
LinesCoverClaims == \A k \in Keys : nlines[k] >= Claims(k)

(***************************************************************************)
(* The limit is checked once per task and pass and every ready row is then *)
(* launched, so the lines in use may exceed the configured limit, but by   *)
(* less than the rows of the branch (of the geo), whatever leaks, is       *)
(* launched twice or is edited meanwhile.                                  *)
(***************************************************************************)
OvershootBounded ==
    \A k \in Keys : nlines[k] < MaxLines[k] + Cardinality(RowsOf(k))

\* The goroutines for which a line of k was taken.
Launched(k) == {p \in Calls : call[p].pc # "free" /\ k \in KeysOf(call[p].row)}

\* The channels to numbers of k that have hung up.
HungUp(k) ==
    {c \in Calls \X Legs :
        /\ legs[c[1]][c[2]] = "down"
        /\ \E r \in RowsOf(k) : Dst[r] = Dst[call[c[1]].row]}

(***************************************************************************)
(* A line once taken stays counted until a Hangup gives it back, and no    *)
(* Hangup gives back two: the counter of a branch or geo falls short of    *)
(* the goroutines launched for it by no more than the channels to its      *)
(* numbers that hung up.  So it can be short of the calls that are up by   *)
(* no more than the Hangups of second halves and of other branches' calls. *)
(* It holds until the program is restarted.                                *)
(***************************************************************************)
ReleasesBacked ==
    \A k \in Keys : Cardinality(Launched(k)) <= nlines[k] + Cardinality(HungUp(k))

(***************************************************************************)
(* Every number online has something that takes it offline: a goroutine on *)
(* its way to originate, a channel Asterisk still has to hang up, a Hangup *)
(* on its way, or the handler deleting it.  Else the number is never       *)
(* dialed again and its lines are never released.  It needs every          *)
(* originate to be accepted and the event loop to live.                    *)
(***************************************************************************)
Ender(d) ==
    \/ \E p \in Calls :
        /\ call[p].row # NoRow /\ Dst[call[p].row] = d
        /\ \/ call[p].pc \in {"minus", "send", "oami"}
           \/ call[p].pc = "dialed" /\ \E l \in Legs : legs[p][l] # "down"
    \/ \E i \in 1..Len(stream) :
        stream[i].kind = "Hangup" /\ stream[i].dst = d
    \/ hnd.pc = "delete" /\ Dst[hnd.row] = d

NoOrphanEntry == \A d \in Dsts : Online(d) => Ender(d)

(***************************************************************************)
(* Attempts are spent as AttemptLedger promises: every call that reaches   *)
(* Asterisk is backed by an attempt of its own, taken off its row before,  *)
(* restarts between the two included.  It needs the UPDATE of              *)
(* processCallMinusRetry to succeed.                                       *)
(***************************************************************************)
Placed(r) == {p \in Calls : call[p].row = r /\ call[p].pc = "dialed"}

Ledger == INSTANCE AttemptLedger WITH
    Budget <- [r \in Rows |-> Attempts[Branch[r]]],
    left <- retries,
    placed <- [r \in Rows |-> Cardinality(Placed(r))]

AttemptsBacked == Ledger!Spec

-----------------------------------------------------------------------------
(* Statements of the documentation and of comments, which the code breaks. *)

\* README.md:6-7 "feeds outbound calls into queues with configurable limits".
WithinLimits == \A k \in Keys : nlines[k] <= MaxLines[k]

\* app/database.go:155, worklimitsMap: "lines actually in use".
Quiet ==
    /\ \A p \in Calls : /\ call[p].pc \in {"free", "skipped", "dialed", "failed", "lost"}
                        /\ call[p].pc = "dialed" => \A l \in Legs : legs[p][l] = "down"
    /\ stream = <<>> /\ hnd = IdleHnd /\ evUp
    /\ disp.pc = "task"

LinesActuallyInUse == Quiet => \A k \in Keys : nlines[k] = 0

\* templates/upload.html:120 "Number of dialling attempts".
AttemptsRespected ==
    \A r \in Rows : Cardinality(Placed(r)) <= Attempts[Branch[r]]

-----------------------------------------------------------------------------
(***************************************************************************)
(* Fairness: the Go scheduler runs every goroutine that is not blocked; a  *)
(* sender blocked on callChan is served in turn, and so is a goroutine     *)
(* waiting for the mutex.  Asterisk answers every Originate (its context   *)
(* is ignored, an answer that never comes would block initOAMI), brings a  *)
(* dialed channel up, and every call ends (originate timeout, hangup).     *)
(***************************************************************************)
Fairness ==
    /\ \A p \in Calls : WF_vars(Goroutine(p))
    /\ WF_vars(Handler)
    /\ \A p \in Calls, l \in Legs : WF_vars(ComesUp(p, l)) /\ WF_vars(HangsUp(p, l))

LiveSpec == Spec /\ Fairness

(***************************************************************************)
(* Every number online goes offline, so that its row can be dialed again:  *)
(* the hand-over through callChan, the single originate at a time and the  *)
(* event handler do not block each other.                                  *)
(***************************************************************************)
NumbersGoOffline == \A d \in Dsts : Online(d) ~> ~Online(d)

(***************************************************************************)
(* Every launched goroutine reaches an outcome: none stays blocked on      *)
(* callChan, however many wait there; only a restart cuts one short.       *)
(***************************************************************************)
GoroutinesSettle ==
    \A p \in Calls :
        call[p].pc = "find" ~> call[p].pc \in {"skipped", "dialed", "lost"}

====
