----------------------------- MODULE CallTiming -----------------------------
(***************************************************************************)
(* The times of the dialler: the ticker of processCallQueueue, the daily   *)
(* window it checks when it launches a batch, the pause that is meant to   *)
(* hold the calls per second (cpspauseDuration), which every goroutine of  *)
(* the batch sleeps on its own, and the wait for initOAMI, which originates*)
(* one call at a time.  Lines and agents are taken to be free.             *)
(*                                                                         *)
(* Time is discrete.  It passes (Advance) only when nothing is due: what   *)
(* the program does between two sleeps takes no time.                      *)
(***************************************************************************)
EXTENDS CallWindow, Sequences, FiniteSets

CONSTANTS
    Rows,         \* ready rows of a task, each with a number of its own
    Attempts,     \* calls_queue.retries_left at first
    RetryTime,    \* tasks.retry_time
    Windows,      \* the windows an instance considers
    Periods,      \* the periods of the ticker: 20 ms, or as queuecps says
    CpsPause,     \* 1/CPS of the branch
    SlowPause,    \* the 200 ms of a small batch
    SlowRows,     \* the 10 rows below which a batch is small
    Trip,         \* the longest an Originate waits for its response
    Halves,       \* channels of a call, each with a Hangup: the two of a Local
    NoCall        \* initOAMI is idle

ASSUME FiniteRows == IsFiniteSet(Rows)
ASSUME WindowData == Windows \subseteq [start : Ends, stop : Ends]
ASSUME TimeData ==
    /\ Periods \subseteq Nat \ {0}
    /\ {Attempts, RetryTime, CpsPause, SlowPause, SlowRows, Trip, Halves} \subseteq Nat

VARIABLES
    now,          \* the time of day
    window,       \* starttime and stoptime of the task
    period,       \* pauseDuration
    sincePass,    \* since the last tick of the dispatcher
    asleep,       \* goroutines in time.Sleep
    callChan,     \* goroutines that wait to hand their call over
    oami,         \* the call initOAMI is originating
    left,         \* calls_queue.retries_left
    wait,         \* until calls_queue.retry_time passes
    online,       \* the rows whose numbers are in callEntry
    channels,     \* per row, the channels Asterisk has not hung up
    dials,        \* history: calls originated since a row was last due
    sinceDial     \* history: since the last call was originated; BOUND CpsPause

vars == <<now, window, period, sincePass, asleep, callChan, oami, left, wait,
          online, channels, dials, sinceDial>>

Larger(a, b) == IF a > b THEN a ELSE b
MaxPause == Larger(CpsPause, SlowPause)

TypeOK ==
    /\ now \in TimesOfDay
    /\ window \in Windows
    /\ period \in Periods
    /\ sincePass \in 0..period
    /\ asleep \subseteq [row : Rows, age : 0..MaxPause, pause : {CpsPause, SlowPause}]
    /\ callChan \in Seq([row : Rows, age : Nat])
    /\ oami \in [row : Rows, trip : 0..Trip] \cup {NoCall}
    /\ left \in [Rows -> Int]
    /\ wait \in [Rows -> 0..RetryTime]
    /\ online \subseteq Rows
    /\ channels \in [Rows -> Nat]
    /\ dials \in [Rows -> Nat]
    /\ sinceDial \in 0..CpsPause

Init ==
    /\ now \in TimesOfDay
    /\ window \in Windows
    /\ period \in Periods
    /\ sincePass = 0
    /\ asleep = {}
    /\ callChan = <<>>
    /\ oami = NoCall
    /\ left = [r \in Rows |-> Attempts]
    /\ wait = [r \in Rows |-> 0]
    /\ online = {}
    /\ channels = [r \in Rows |-> 0]
    /\ dials = [r \in Rows |-> 0]
    /\ sinceDial = CpsPause

-----------------------------------------------------------------------------

ReadyCalls == {r \in Rows : left[r] > 0 /\ wait[r] = 0}

\* Mutant of Pause: the pause grows with the batch.
PauseByBatch(batch) ==
    IF Cardinality(batch) < SlowRows THEN SlowPause ELSE CpsPause * Cardinality(batch)

\* Slow start: a small batch has a pause of its own, whatever the cps.
Pause(batch) == IF Cardinality(batch) < SlowRows THEN SlowPause ELSE CpsPause

\* A pass over the task: every ready row is launched.  The goroutine of a
\* number that is online comes to nothing and is left out.
Pass ==
    /\ sincePass = period
    /\ sincePass' = 0
    /\ asleep' =
         IF IsCurrentTimeBetween(now, window.start, window.stop)
         THEN asleep \cup {[row |-> r, age |-> 0, pause |-> Pause(ReadyCalls)] :
                           r \in ReadyCalls \ online}
         ELSE asleep
    /\ UNCHANGED <<now, window, period, callChan, oami, left, wait, online,
                   channels, dials, sinceDial>>

\* Mutant of Wake: the UPDATE leaves retry_time as it was.
WakeStaysDue(g) ==
    /\ g \in asleep /\ g.age = g.pause
    /\ asleep' = asleep \ {g}
    /\ online' = online \cup {g.row}
    /\ left' = [left EXCEPT ![g.row] = @ - 1]
    /\ callChan' = Append(callChan, [row |-> g.row, age |-> g.age])
    /\ UNCHANGED <<now, window, period, sincePass, oami, wait, channels,
                   dials, sinceDial>>

\* The pause is over: entry, attempt and retry_time, then on to callChan.
Wake(g) ==
    /\ g \in asleep /\ g.age = g.pause
    /\ asleep' = asleep \ {g}
    /\ online' = online \cup {g.row}
    /\ left' = [left EXCEPT ![g.row] = @ - 1]
    /\ wait' = [wait EXCEPT ![g.row] = RetryTime]
    /\ callChan' = Append(callChan, [row |-> g.row, age |-> g.age])
    /\ UNCHANGED <<now, window, period, sincePass, oami, channels, dials, sinceDial>>

\* initOAMI receives a call and originates it.  Asterisk refuses it or opens
\* its channels, which may hang up before the response is read.
Originate ==
    /\ oami = NoCall /\ callChan # <<>>
    /\ LET r == Head(callChan).row
       IN  /\ oami' = [row |-> r, trip |-> 0]
           /\ dials' = [dials EXCEPT ![r] = @ + 1]
           /\ \E opened \in {0, Halves} :
                channels' = [channels EXCEPT ![r] = @ + opened]
    /\ callChan' = Tail(callChan)
    /\ sinceDial' = 0
    /\ UNCHANGED <<now, window, period, sincePass, asleep, left, wait, online>>

Respond ==
    /\ oami # NoCall
    /\ oami' = NoCall
    /\ UNCHANGED <<now, window, period, sincePass, asleep, callChan, left, wait,
                   online, channels, dials, sinceDial>>

\* A channel of a call to the number hangs up, however long the call was, and
\* takes whatever entry the number has by then.
Hangup(r) ==
    /\ channels[r] > 0
    /\ channels' = [channels EXCEPT ![r] = @ - 1]
    /\ online' = online \ {r}
    /\ UNCHANGED <<now, window, period, sincePass, asleep, callChan, oami, left,
                   wait, dials, sinceDial>>

Due ==
    \/ sincePass = period
    \/ \E g \in asleep : g.age = g.pause
    \/ oami = NoCall /\ callChan # <<>>
    \/ oami # NoCall /\ oami.trip = Trip

Advance ==
    /\ ~Due
    /\ now' = (now + 1) % Day
    /\ sincePass' = sincePass + 1
    /\ asleep' = {[g EXCEPT !.age = @ + 1] : g \in asleep}
    /\ callChan' = [i \in DOMAIN callChan |-> [callChan[i] EXCEPT !.age = @ + 1]]
    /\ oami' = IF oami = NoCall THEN NoCall ELSE [oami EXCEPT !.trip = @ + 1]
    /\ wait' = [r \in Rows |-> IF wait[r] > 0 THEN wait[r] - 1 ELSE 0]
    /\ dials' = [r \in Rows |-> IF wait[r] = 1 THEN 0 ELSE dials[r]]
    /\ sinceDial' = IF sinceDial < CpsPause THEN sinceDial + 1 ELSE CpsPause
    /\ UNCHANGED <<window, period, left, online, channels>>

Next ==
    \/ Pass
    \/ \E g \in asleep : Wake(g)
    \/ Originate
    \/ Respond
    \/ \E r \in Rows : Hangup(r)
    \/ Advance

Spec == Init /\ [][Next]_vars

-----------------------------------------------------------------------------

(***************************************************************************)
(* Whatever its ends, over midnight or not, a window that parses is open   *)
(* exactly on the way round the clock from its start to its stop, and      *)
(* never when the two are equal, midnight apart.                           *)
(***************************************************************************)
WindowIsArc ==
    Unparsed \notin {window.start, window.stop} /\ {window.start, window.stop} # {0}
        => (IsCurrentTimeBetween(now, window.start, window.stop)
              <=> OnArc(now, window.start, window.stop))

\* How often a row is launched before its first goroutine spends the attempt.
Launches == MaxPause \div period + 1

(***************************************************************************)
(* A row stays ready while its goroutines sleep, so every tick of the      *)
(* pause launches it again and each launch is a call of its own.  Once the *)
(* first of them wakes, no more are launched: the calls to a number when   *)
(* it falls due are at most the ticks of one pause and one.  (While        *)
(* retry_time is longer than the responses to the calls that wait take, so *)
(* that they are placed when their row is due again.  How long the calls   *)
(* themselves last does not matter.)                                       *)
(***************************************************************************)
DialsBounded == \A r \in Rows : dials[r] <= Launches

(***************************************************************************)
(* The window is checked when a row is launched and never again.  A call   *)
(* still waiting is late by no more than the pause and the responses of    *)
(* every call that may be ahead of it, so by no more is it placed after    *)
(* the window has closed.  (Under the same condition, so that no row waits *)
(* for two attempts at a time.)                                            *)
(***************************************************************************)
LateBounded ==
    \A i \in 1..Len(callChan) :
        callChan[i].age <= MaxPause + Trip * (Cardinality(Rows) * Launches - 1)

\* templates/upload.html:91 "Прирост звонков в секунду (не более)": calls per
\* second, no more than the given number.
CallsPaced == [][oami = NoCall /\ oami' # NoCall => sinceDial >= CpsPause]_vars

====
