----------------------------- MODULE TimingProofs -----------------------------
(***************************************************************************)
(* Theorems about CallWindow and CallTiming, for days, windows, pauses and *)
(* tickers of any length.                                                  *)
(***************************************************************************)
EXTENDS CallTiming, FiniteSetTheorems, SequenceTheorems, TLAPS

(***************************************************************************)
(* The comparisons of isCurrentTimeBetween are the way round the clock     *)
(* from the start to the stop.                                             *)
(***************************************************************************)
LEMMA WindowArc ==
  ASSUME NEW t \in TimesOfDay, NEW start \in TimesOfDay, NEW stop \in TimesOfDay,
         {start, stop} # {0}
  PROVE  IsCurrentTimeBetween(t, start, stop) <=> OnArc(t, start, stop)
<1>1. Day \in Nat /\ Unparsed \notin {start, stop} /\ ~(start = 0 /\ stop = 0)
  BY DayLength, UnparsedFresh
<1>2. t \in 0..(Day - 1) /\ start \in 0..(Day - 1) /\ stop \in 0..(Day - 1)
  BY DEF TimesOfDay
<1>3. CASE start <= stop
  BY <1>1, <1>2, <1>3 DEF IsCurrentTimeBetween, OnArc, Until
<1>4. CASE start > stop
  BY <1>1, <1>2, <1>4 DEF IsCurrentTimeBetween, OnArc, Until
<1>. QED
  BY <1>2, <1>3, <1>4

\* The clock stays on the day, the window as it was configured.
Clock == now \in TimesOfDay /\ window \in Windows

LEMMA StepClock == Clock /\ [Next]_vars => Clock'
<1> SUFFICES ASSUME Clock, [Next]_vars PROVE Clock'
  OBVIOUS
<1>1. CASE Advance
  BY <1>1, DayLength DEF Advance, Clock, TimesOfDay
<1>2. CASE ~Advance
  BY <1>2 DEF Next, Pass, Wake, Originate, Respond, Hangup, Clock, vars
<1>. QED
  BY <1>1, <1>2

(***************************************************************************)
(* Every window that parses is open exactly on its way round the clock.    *)
(***************************************************************************)
THEOREM WindowsAreArcs == Spec => []WindowIsArc
<1>1. Init => Clock
  BY DEF Init, Clock
<1>2. ASSUME Clock PROVE WindowIsArc
  <2>1. /\ now \in TimesOfDay
        /\ window.start \in TimesOfDay \cup {Unparsed}
        /\ window.stop \in TimesOfDay \cup {Unparsed}
    BY <1>2, WindowData DEF Clock, Ends
  <2>2. SUFFICES ASSUME Unparsed \notin {window.start, window.stop},
                        {window.start, window.stop} # {0}
                 PROVE  IsCurrentTimeBetween(now, window.start, window.stop)
                          <=> OnArc(now, window.start, window.stop)
    BY DEF WindowIsArc
  <2>. QED
    BY <2>1, <2>2, WindowArc
<1>. QED
  BY <1>1, <1>2, StepClock, PTL DEF Spec

-----------------------------------------------------------------------------

(***************************************************************************)
(* Time stops for what is due: no pass, no sleeper and no response is      *)
(* overtaken.  TypeOK alone does not survive Advance, as a goroutine whose *)
(* pause is the shorter one might sleep on.                                *)
(***************************************************************************)
NothingOverdue == TypeOK /\ \A g \in asleep : g.age <= g.pause

LEMMA Pauses == CpsPause \in Nat /\ SlowPause \in Nat /\ MaxPause \in Nat
               /\ CpsPause <= MaxPause /\ SlowPause <= MaxPause
  BY TimeData DEF MaxPause, Larger

LEMMA InitTimes == Init => NothingOverdue
  BY TimeData DEF Init, NothingOverdue, TypeOK

LEMMA StepAdvance == NothingOverdue /\ Advance => NothingOverdue'
<1> SUFFICES ASSUME NothingOverdue, Advance PROVE NothingOverdue'
  OBVIOUS
<1>1. now' \in TimesOfDay /\ window' \in Windows /\ period' \in Periods
  BY DayLength DEF NothingOverdue, TypeOK, Advance, TimesOfDay
<1>2. sincePass' \in 0..period'
  BY TimeData DEF NothingOverdue, TypeOK, Advance, Due
<1>3. /\ asleep' \subseteq [row : Rows, age : 0..MaxPause, pause : {CpsPause, SlowPause}]
      /\ \A g \in asleep' : g.age <= g.pause
  <2>1. ASSUME NEW g \in asleep
        PROVE  /\ [g EXCEPT !.age = @ + 1]
                    \in [row : Rows, age : 0..MaxPause, pause : {CpsPause, SlowPause}]
               /\ [g EXCEPT !.age = @ + 1].age <= [g EXCEPT !.age = @ + 1].pause
    <3>1. g \in [row : Rows, age : 0..MaxPause, pause : {CpsPause, SlowPause}]
      BY DEF NothingOverdue, TypeOK
    <3>2. g.age <= g.pause /\ g.age # g.pause
      BY DEF NothingOverdue, Advance, Due
    <3>3. g.age + 1 \in 0..MaxPause /\ g.age + 1 <= g.pause
      BY <3>1, <3>2, Pauses
    <3>. QED
      BY <3>1, <3>3
  <2>2. asleep' = {[g EXCEPT !.age = @ + 1] : g \in asleep}
    BY DEF Advance
  <2>. QED
    BY <2>1, <2>2
<1>4. callChan' \in Seq([row : Rows, age : Nat])
  <2>1. callChan \in Seq([row : Rows, age : Nat])
    BY DEF NothingOverdue, TypeOK
  <2>2. ASSUME NEW i \in 1..Len(callChan)
        PROVE  [callChan[i] EXCEPT !.age = @ + 1] \in [row : Rows, age : Nat]
    <3>1. callChan[i] \in [row : Rows, age : Nat]
      BY <2>1, ElementOfSeq
    <3>. QED
      BY <3>1
  <2>3. callChan' = [i \in 1..Len(callChan) |-> [callChan[i] EXCEPT !.age = @ + 1]]
    BY <2>1 DEF Advance
  <2>4. Len(callChan) \in Nat
    BY <2>1
  <2>. QED
    BY <2>2, <2>3, <2>4, SeqDef
<1>5. oami' \in [row : Rows, trip : 0..Trip] \cup {NoCall}
  <2>1. CASE oami = NoCall
    BY <2>1 DEF Advance
  <2>2. CASE oami # NoCall
    <3>1. oami \in [row : Rows, trip : 0..Trip] /\ oami.trip # Trip
      BY <2>2 DEF NothingOverdue, TypeOK, Advance, Due
    <3>2. oami.trip + 1 \in 0..Trip /\ oami.row \in Rows
      BY <3>1, TimeData
    <3>3. oami' = [oami EXCEPT !.trip = @ + 1]
      BY <2>2 DEF Advance
    <3>. QED
      BY <3>1, <3>2, <3>3
  <2>. QED
    BY <2>1, <2>2
<1>6. left' \in [Rows -> Int] /\ online' \subseteq Rows /\ channels' \in [Rows -> Nat]
  BY DEF NothingOverdue, TypeOK, Advance
<1>7. wait' \in [Rows -> 0..RetryTime]
  <2>1. wait \in [Rows -> 0..RetryTime] /\ RetryTime \in Nat
    BY TimeData DEF NothingOverdue, TypeOK
  <2>2. wait' = [r \in Rows |-> IF wait[r] > 0 THEN wait[r] - 1 ELSE 0]
    BY DEF Advance
  <2>3. \A r \in Rows : (IF wait[r] > 0 THEN wait[r] - 1 ELSE 0) \in 0..RetryTime
    BY <2>1
  <2>. QED
    BY <2>2, <2>3
<1>8. dials' \in [Rows -> Nat] /\ sinceDial' \in 0..CpsPause
  <2>1. dials \in [Rows -> Nat] /\ sinceDial \in 0..CpsPause /\ CpsPause \in Nat
    BY TimeData DEF NothingOverdue, TypeOK
  <2>2. dials' = [r \in Rows |-> IF wait[r] = 1 THEN 0 ELSE dials[r]]
        /\ sinceDial' = IF sinceDial < CpsPause THEN sinceDial + 1 ELSE CpsPause
    BY DEF Advance
  <2>3. dials' \in [Rows -> Nat]
    BY <2>1, <2>2
  <2>4. sinceDial' \in 0..CpsPause
    BY <2>1, <2>2
  <2>. QED
    BY <2>3, <2>4
<1>. QED
  BY <1>1, <1>2, <1>3, <1>4, <1>5, <1>6, <1>7, <1>8 DEF NothingOverdue, TypeOK

LEMMA StepTimes == NothingOverdue /\ [Next]_vars => NothingOverdue'
<1> SUFFICES ASSUME NothingOverdue, [Next]_vars PROVE NothingOverdue'
  OBVIOUS
<1>1. CASE Pass
  <2>1. ASSUME NEW r \in Rows, NEW batch
        PROVE  [row |-> r, age |-> 0, pause |-> Pause(batch)]
                 \in [row : Rows, age : 0..MaxPause, pause : {CpsPause, SlowPause}]
    BY Pauses DEF Pause
  <2>2. ReadyCalls \subseteq Rows
    BY DEF ReadyCalls
  <2>3. asleep' \subseteq asleep \cup
          {[row |-> r, age |-> 0, pause |-> Pause(ReadyCalls)] : r \in ReadyCalls \ online}
    BY <1>1 DEF Pass
  <2>4. /\ asleep' \subseteq [row : Rows, age : 0..MaxPause, pause : {CpsPause, SlowPause}]
        /\ \A g \in asleep' : g.age <= g.pause
    <3>1. \A r \in Rows : 0 <= Pause(ReadyCalls)
      BY Pauses DEF Pause
    <3>2. ASSUME NEW g \in asleep'
          PROVE  /\ g \in [row : Rows, age : 0..MaxPause, pause : {CpsPause, SlowPause}]
                 /\ g.age <= g.pause
      <4>1. CASE g \in asleep
        BY <4>1 DEF NothingOverdue, TypeOK
      <4>2. CASE g \notin asleep
        <5>1. PICK r \in Rows : g = [row |-> r, age |-> 0, pause |-> Pause(ReadyCalls)]
          BY <4>2, <2>2, <2>3
        <5>. QED
          BY <5>1, <2>1, <3>1
      <4>. QED
        BY <4>1, <4>2
    <3>. QED
      BY <3>2
  <2>5. sincePass' \in 0..period' /\ period' \in Periods
    BY <1>1, TimeData DEF Pass, NothingOverdue, TypeOK
  <2>. QED
    BY <1>1, <2>4, <2>5 DEF Pass, NothingOverdue, TypeOK
<1>2. ASSUME NEW g \in asleep, Wake(g) PROVE NothingOverdue'
  <2>1. g \in [row : Rows, age : 0..MaxPause, pause : {CpsPause, SlowPause}]
    BY DEF NothingOverdue, TypeOK
  <2>2. [row |-> g.row, age |-> g.age] \in [row : Rows, age : Nat]
    BY <2>1, Pauses
  <2>3. callChan' \in Seq([row : Rows, age : Nat])
    BY <1>2, <2>2 DEF Wake, NothingOverdue, TypeOK
  <2>4. left' \in [Rows -> Int]
    BY <1>2, <2>1 DEF Wake, NothingOverdue, TypeOK
  <2>5. wait' \in [Rows -> 0..RetryTime]
    BY <1>2, <2>1, TimeData DEF Wake, NothingOverdue, TypeOK
  <2>6. online' \subseteq Rows /\ asleep' \subseteq asleep
    BY <1>2, <2>1 DEF Wake, NothingOverdue, TypeOK
  <2>. QED
    BY <1>2, <2>3, <2>4, <2>5, <2>6 DEF Wake, NothingOverdue, TypeOK
<1>3. CASE Originate
  <2>1. Head(callChan) \in [row : Rows, age : Nat]
        /\ Tail(callChan) \in Seq([row : Rows, age : Nat])
    <3>1. callChan \in Seq([row : Rows, age : Nat]) /\ callChan # <<>>
      BY <1>3 DEF Originate, NothingOverdue, TypeOK
    <3>. QED
      BY <3>1, HeadTailProperties
  <2>2. oami' \in [row : Rows, trip : 0..Trip]
    BY <1>3, <2>1, TimeData DEF Originate
  <2>4. dials' \in [Rows -> Nat]
    <3>1. dials \in [Rows -> Nat] /\ dials' = [dials EXCEPT ![Head(callChan).row] = @ + 1]
      BY <1>3 DEF Originate, NothingOverdue, TypeOK
    <3>. QED
      BY <3>1, <2>1
  <2>3. sinceDial' \in 0..CpsPause
    BY <1>3, Pauses DEF Originate
  <2>5. channels' \in [Rows -> Nat]
    <3>1. PICK opened \in {0, Halves} :
             channels' = [channels EXCEPT ![Head(callChan).row] = @ + opened]
      BY <1>3 DEF Originate
    <3>2. channels \in [Rows -> Nat] /\ opened \in Nat
      BY TimeData DEF NothingOverdue, TypeOK
    <3>. QED
      BY <3>1, <3>2, <2>1
  <2>. QED
    BY <1>3, <2>1, <2>2, <2>3, <2>4, <2>5 DEF Originate, NothingOverdue, TypeOK
<1>4. CASE Respond
  BY <1>4 DEF Respond, NothingOverdue, TypeOK
<1>5. ASSUME NEW r \in Rows, Hangup(r) PROVE NothingOverdue'
  <2>1. channels' \in [Rows -> Nat]
    <3>1. /\ channels \in [Rows -> Nat] /\ channels[r] > 0
          /\ channels' = [channels EXCEPT ![r] = @ - 1]
      BY <1>5 DEF Hangup, NothingOverdue, TypeOK
    <3>. QED
      BY <3>1
  <2>. QED
    BY <1>5, <2>1 DEF Hangup, NothingOverdue, TypeOK
<1>6. CASE Advance
  BY <1>6, StepAdvance
<1>7. CASE UNCHANGED vars
  BY <1>7 DEF vars, NothingOverdue, TypeOK
<1>. QED
  BY <1>1, <1>2, <1>3, <1>4, <1>5, <1>6, <1>7 DEF Next

(***************************************************************************)
(* Every variable keeps its type: no tick of the dispatcher, no end of a   *)
(* pause and no response is missed, whatever their lengths.                *)
(***************************************************************************)
THEOREM TimingTypeCorrect == Spec => []TypeOK
<1>1. NothingOverdue => TypeOK
  BY DEF NothingOverdue
<1>. QED
  BY <1>1, InitTimes, StepTimes, PTL DEF Spec
-----------------------------------------------------------------------------
(* Counting.                                                               *)

LEMMA Quotients ==
  ASSUME NEW a \in Nat, NEW b \in Nat, NEW p \in Nat \ {0}
  PROVE  /\ a \div p \in Nat
         /\ a <= b => a \div p <= b \div p
         /\ a + p <= b => a \div p < b \div p
  OBVIOUS

LEMMA Products ==
  ASSUME NEW a \in Nat, NEW b \in Nat, NEW n \in Nat
  PROVE  /\ n * a \in Nat
         /\ n * (a + 1) = n * a + n
         /\ a <= b => n * a <= n * b
  OBVIOUS

\* A set that maps into another without collisions is no larger.
LEMMA NoLarger ==
  ASSUME NEW T, IsFiniteSet(T), NEW S, NEW f \in [S -> T],
         \A x, y \in S : f[x] = f[y] => x = y
  PROVE  /\ IsFiniteSet(S) /\ Cardinality(S) \in Nat /\ Cardinality(T) \in Nat
         /\ Cardinality(S) <= Cardinality(T)
<1>1. f \in Injection(S, T)
  BY DEF Injection, IsInjective
<1>. QED
  BY <1>1, FS_Injection, FS_CardinalityType

LEMMA Interval ==
  ASSUME NEW a \in Int, NEW b \in Int
  PROVE  /\ IsFiniteSet(a..b)
         /\ a <= b + 1 => Cardinality(a..b) = b + 1 - a
<1>1. CASE a <= b
  BY <1>1, FS_Interval
<1>2. CASE a > b
  BY <1>2, FS_Interval
<1>. QED
  BY <1>1, <1>2

\* Numbers up to n of which any two are p apart.
LEMMA ApartCount ==
  ASSUME NEW n \in Nat, NEW p \in Nat \ {0}, NEW S, NEW f \in [S -> 0..n],
         \A x, y \in S : x # y => f[x] - f[y] >= p \/ f[y] - f[x] >= p
  PROVE  /\ IsFiniteSet(S) /\ Cardinality(S) \in Nat
         /\ Cardinality(S) <= n \div p + 1
<1> DEFINE m == n \div p
           q == [x \in S |-> f[x] \div p]
<1>1. m \in Nat
  BY Quotients
<1>2. IsFiniteSet(0..m) /\ Cardinality(0..m) = m + 1
  <2> HIDE DEF m
  <2>1. 0 \in Int /\ m \in Int /\ 0 <= m + 1 /\ m + 1 - 0 = m + 1
    BY <1>1
  <2>. QED
    BY <2>1, Interval
<1>3. ASSUME NEW x \in S PROVE f[x] \div p \in 0..m
  <2>1. f[x] \in Nat /\ f[x] <= n
    OBVIOUS
  <2>2. f[x] \div p \in Nat /\ f[x] \div p <= m
    BY <2>1, Quotients
  <2>. QED
    BY <1>1, <2>2
<1>4. q \in [S -> 0..m]
  BY <1>3
<1>5. ASSUME NEW x \in S, NEW y \in S, q[x] = q[y] PROVE x = y
  <2>1. f[x] \in Nat /\ f[y] \in Nat
    OBVIOUS
  <2>2. ~(f[x] + p <= f[y]) /\ ~(f[y] + p <= f[x])
    BY <1>5, <2>1, Quotients
  <2>. QED
    BY <2>1, <2>2
<1>6. Cardinality(S) <= m + 1 /\ IsFiniteSet(S) /\ Cardinality(S) \in Nat
  <2> HIDE DEF m, q
  <2>. QED
    BY <1>2, <1>4, <1>5, NoLarger
<1>. QED
  BY <1>6

\* What is sorted into groups of at most n is at most n for each group.
LEMMA GroupsCount ==
  ASSUME NEW R, IsFiniteSet(R), NEW n \in Nat, NEW T, NEW f \in [T -> R],
         \A r \in R : /\ IsFiniteSet({t \in T : f[t] = r})
                      /\ Cardinality({t \in T : f[t] = r}) <= n
  PROVE  /\ IsFiniteSet(T) /\ Cardinality(T) \in Nat /\ Cardinality(R) * n \in Nat
         /\ Cardinality(T) <= Cardinality(R) * n
<1> DEFINE Group(r) == {t \in T : f[t] = r}
           Rank(r) == CHOOSE g \in [Group(r) -> 1..n] :
                        \A x, y \in Group(r) : g[x] = g[y] => x = y
           h == [t \in T |-> <<f[t], Rank(f[t])[t]>>]
<1>1. ASSUME NEW r \in R
      PROVE  /\ Rank(r) \in [Group(r) -> 1..n]
             /\ \A x, y \in Group(r) : Rank(r)[x] = Rank(r)[y] => x = y
  <2>1. IsFiniteSet(Group(r)) /\ Cardinality(Group(r)) <= n
    OBVIOUS
  <2>2. PICK g \in Bijection(1..Cardinality(Group(r)), Group(r)) : TRUE
    BY <2>1, FS_CardinalityType DEF ExistsBijection
  <2>3. \E g2 \in [Group(r) -> 1..n] : \A x, y \in Group(r) : g2[x] = g2[y] => x = y
    <3> DEFINE k == Cardinality(Group(r))
               i == [x \in Group(r) |-> CHOOSE j \in 1..k : g[j] = x]
    <3>1. k \in Nat /\ k <= n
      BY <2>1, FS_CardinalityType
    <3>2. \A x \in Group(r) : \E j \in 1..k : g[j] = x
      BY <2>2 DEF Bijection, Surjection
    <3>3. \A x \in Group(r) : i[x] \in 1..k /\ g[i[x]] = x
      BY <3>2
    <3>4. i \in [Group(r) -> 1..n]
      <4>1. k \in Nat /\ k <= n /\ 1..k \subseteq 1..n
        <5> HIDE DEF k
        <5>. QED
          BY <3>1
      <4>2. \A x \in Group(r) : (CHOOSE j \in 1..k : g[j] = x) \in 1..n
        BY <4>1, <3>2
      <4>. QED
        BY <4>2
    <3>5. \A x, y \in Group(r) : i[x] = i[y] => x = y
      BY <3>3
    <3>. QED
      BY <3>4, <3>5
  <2>. QED
    BY <2>3
<1>2. h \in [T -> R \X (1..n)]
  <2>1. ASSUME NEW t \in T PROVE <<f[t], Rank(f[t])[t]>> \in R \X (1..n)
    <3>1. f[t] \in R /\ t \in Group(f[t])
      OBVIOUS
    <3>2. Rank(f[t])[t] \in 1..n
      BY <1>1, <3>1
    <3>. QED
      BY <3>1, <3>2
  <2>. QED
    BY <2>1
<1>3. ASSUME NEW x \in T, NEW y \in T, h[x] = h[y] PROVE x = y
  <2> HIDE DEF Rank
  <2>1. <<f[x], Rank(f[x])[x]>> = <<f[y], Rank(f[y])[y]>>
    BY <1>3
  <2>2. f[x] = f[y] /\ Rank(f[x])[x] = Rank(f[y])[y]
    BY <2>1
  <2>3. f[x] \in R /\ x \in Group(f[x]) /\ y \in Group(f[x])
    BY <2>2
  <2>. QED
    BY <1>1, <2>2, <2>3
<1>4. /\ IsFiniteSet(1..n) /\ Cardinality(1..n) = n
      /\ IsFiniteSet(R \X (1..n)) /\ Cardinality(R \X (1..n)) = Cardinality(R) * n
  <2>1. IsFiniteSet(1..n) /\ Cardinality(1..n) = n
    BY FS_Interval
  <2>. QED
    BY <2>1, FS_Product
<1>. QED
  <2> HIDE DEF h
  <2>. QED
    BY <1>2, <1>3, <1>4, NoLarger

\* A set with one element more.
LEMMA OneMore ==
  ASSUME NEW L, IsFiniteSet(L), NEW x, NEW G, G \subseteq L \cup {x}
  PROVE  /\ IsFiniteSet(G) /\ Cardinality(G) \in Nat
         /\ Cardinality(G) <= Cardinality(L) + 1
<1>1. IsFiniteSet(L \cup {x}) /\ Cardinality(L) \in Nat
      /\ Cardinality(L \cup {x}) \in {Cardinality(L), Cardinality(L) + 1}
  BY FS_AddElement, FS_CardinalityType
<1>2. /\ IsFiniteSet(G) /\ Cardinality(G) <= Cardinality(L \cup {x})
      /\ Cardinality(G) \in Nat
  BY <1>1, FS_Subset, FS_CardinalityType
<1>. QED
  BY <1>1, <1>2

\* Numbers whose successors are in a set are no more than its elements.
LEMMA ShiftedNoLarger ==
  ASSUME NEW T, IsFiniteSet(T), NEW S, \A i \in S : i \in Nat /\ i + 1 \in T
  PROVE  /\ IsFiniteSet(S) /\ Cardinality(S) \in Nat
         /\ Cardinality(S) <= Cardinality(T)
<1> DEFINE f == [i \in S |-> i + 1]
<1>1. f \in [S -> T]
  OBVIOUS
<1>2. \A x, y \in S : f[x] = f[y] => x = y
  OBVIOUS
<1>. HIDE DEF f
<1>. QED
  BY <1>1, <1>2, NoLarger

LEMMA Sums ==
  ASSUME NEW a \in Nat, NEW b \in Nat, NEW c \in Nat, NEW d \in Nat, NEW late \in Int
  PROVE  /\ a + (b + c) <= late /\ d <= c => a + d + b <= late
         /\ a + c + b <= late /\ d < c => (a + 1) + d + b <= late
  OBVIOUS
-----------------------------------------------------------------------------
(* The calls that wait for initOAMI.                                       *)

Sleepers(r) == {g \in asleep : g.row = r}
InLine(r) == {i \in 1..Len(callChan) : callChan[i].row = r}

\* The most calls there may be at a time: all launches of all rows.
MostCalls == Cardinality(Rows) * Launches

\* How long initOAMI may still wait for the response to its call.
Rest == IF oami = NoCall THEN 0 ELSE Trip - oami.trip

\* retry_time outlasts the responses to that many calls.
RetryOutlasts ==
    \A per \in Periods : RetryTime > Trip * (Cardinality(Rows) * (MaxPause \div per + 1))

(***************************************************************************)
(* The goroutines of a row that sleep at a time are a tick apart, so their *)
(* number is bounded; those that wait and the calls originated since the   *)
(* row was due were among them when it was launched last, as a row is      *)
(* launched only when none of its calls waits any more.  That none does    *)
(* is a matter of time: a call waits for the response to every call ahead  *)
(* of it, and they are over before its row is due again.                   *)
(***************************************************************************)
TicksApart ==
    /\ \A g \in asleep : g.age >= sincePass
    /\ \A g, h \in asleep :
        g.row = h.row /\ g # h => g.age - h.age >= period \/ h.age - g.age >= period

OneRound ==
    \A r \in Rows :
        /\ Cardinality(Sleepers(r)) + Cardinality(InLine(r)) + dials[r] <= Launches
        /\ wait[r] = 0 => dials[r] = 0

OverBeforeDue ==
    /\ oami # NoCall => dials[oami.row] >= 1 /\ Rest < wait[oami.row]
    /\ \A i \in 1..Len(callChan) : Rest + Trip * i < wait[callChan[i].row]

InTurn ==
    \A i \in 1..Len(callChan) :
        callChan[i].age + Rest + Trip * (i - 1) <= MaxPause + Trip * (MostCalls - 1)

Timely == NothingOverdue /\ TicksApart /\ OneRound /\ OverBeforeDue /\ InTurn

\* The types of what the steps below calculate with.
LEMMA Numbers ==
  ASSUME NothingOverdue
  PROVE  /\ Trip \in Nat /\ RetryTime \in Nat /\ MaxPause \in Nat
         /\ Cardinality(Rows) \in Nat /\ period \in Nat \ {0} /\ sincePass \in 0..period
         /\ Launches \in Nat /\ MostCalls \in Nat
         /\ dials \in [Rows -> Nat] /\ wait \in [Rows -> Nat]
         /\ \A r \in Rows : wait[r] <= RetryTime
<1>1. Trip \in Nat /\ RetryTime \in Nat /\ Periods \subseteq Nat \ {0}
  BY TimeData
<1>2. Cardinality(Rows) \in Nat
  BY FiniteRows, FS_CardinalityType
<1>3. period \in Nat \ {0} /\ sincePass \in 0..period
  BY <1>1 DEF NothingOverdue, TypeOK
<1>4. Launches \in Nat
  BY <1>3, Pauses, Quotients DEF Launches
<1>5. MostCalls \in Nat
  BY <1>2, <1>4, Products DEF MostCalls
<1>6. /\ dials \in [Rows -> Nat] /\ wait \in [Rows -> Nat]
      /\ \A r \in Rows : wait[r] <= RetryTime
  <2>1. dials \in [Rows -> Nat] /\ wait \in [Rows -> 0..RetryTime]
    BY DEF NothingOverdue, TypeOK
  <2>2. \A r \in Rows : wait[r] \in 0..RetryTime
    BY <2>1
  <2>3. \A r \in Rows : wait[r] \in Nat /\ wait[r] <= RetryTime
    BY <1>1, <2>2
  <2>. QED
    BY <2>1, <2>3
<1>. QED
  BY <1>1, <1>2, <1>3, <1>4, <1>5, <1>6, Pauses

LEMMA Calls ==
  ASSUME NothingOverdue
  PROVE  /\ Len(callChan) \in Nat
         /\ \A i \in 1..Len(callChan) : callChan[i].row \in Rows /\ callChan[i].age \in Nat
         /\ \A g \in asleep : /\ g \in [row : Rows, age : 0..MaxPause, pause : {CpsPause, SlowPause}]
                              /\ g.row \in Rows /\ g.age \in Nat /\ g.age <= MaxPause
         /\ oami # NoCall => /\ oami.row \in Rows /\ oami.trip \in 0..Trip
                             /\ oami \in [row : Rows, trip : 0..Trip]
         /\ Rest \in Nat /\ Rest <= Trip
<1>1. callChan \in Seq([row : Rows, age : Nat])
  BY DEF NothingOverdue, TypeOK
<1>2. \A i \in 1..Len(callChan) : callChan[i] \in [row : Rows, age : Nat]
  BY <1>1, ElementOfSeq
<1>3. \A g \in asleep : g \in [row : Rows, age : 0..MaxPause, pause : {CpsPause, SlowPause}]
  BY DEF NothingOverdue, TypeOK
<1>4. \A g \in asleep : g.row \in Rows /\ g.age \in Nat /\ g.age <= MaxPause
  BY <1>3, Pauses
<1>5. oami # NoCall => /\ oami.row \in Rows /\ oami.trip \in 0..Trip
                       /\ oami \in [row : Rows, trip : 0..Trip]
  BY DEF NothingOverdue, TypeOK
<1>6. Rest \in Nat /\ Rest <= Trip
  BY <1>5, TimeData DEF Rest
<1>. QED
  BY <1>1, <1>2, <1>3, <1>4, <1>5, <1>6

\* Sleepers that are a tick apart fit into one pause.
LEMMA FitsPause ==
  ASSUME NEW p \in Nat \ {0}, NEW S, \A g \in S : g.age \in 0..MaxPause,
         \A g, h \in S : g # h => g.age - h.age >= p \/ h.age - g.age >= p
  PROVE  /\ IsFiniteSet(S) /\ Cardinality(S) \in Nat
         /\ Cardinality(S) <= MaxPause \div p + 1
<1> DEFINE age == [g \in S |-> g.age]
<1>1. age \in [S -> 0..MaxPause]
  OBVIOUS
<1>2. \A g, h \in S : g # h => age[g] - age[h] >= p \/ age[h] - age[g] >= p
  OBVIOUS
<1>3. MaxPause \in Nat
  BY Pauses
<1>. HIDE DEF age
<1>. QED
  BY <1>1, <1>2, <1>3, ApartCount

LEMMA SleepersFit ==
  ASSUME NothingOverdue, TicksApart, NEW r
  PROVE  /\ IsFiniteSet(Sleepers(r)) /\ Cardinality(Sleepers(r)) \in Nat
         /\ Cardinality(Sleepers(r)) <= Launches
<1>1. \A g \in Sleepers(r) : g.age \in 0..MaxPause
  BY Calls, Numbers DEF Sleepers
<1>2. \A g, h \in Sleepers(r) : g # h => g.age - h.age >= period \/ h.age - g.age >= period
  BY DEF TicksApart, Sleepers
<1>3. period \in Nat \ {0}
  BY Numbers
<1>. QED
  BY <1>1, <1>2, <1>3, FitsPause DEF Launches

LEMMA InLineSize ==
  ASSUME NothingOverdue, NEW r
  PROVE  IsFiniteSet(InLine(r)) /\ Cardinality(InLine(r)) \in Nat
<1>1. IsFiniteSet(1..Len(callChan))
  BY Calls, Interval
<1>2. InLine(r) \subseteq 1..Len(callChan)
  BY DEF InLine
<1>. QED
  BY <1>1, <1>2, FS_Subset, FS_CardinalityType

\* All that wait, the one being originated and one more goroutine that sleeps
\* are no more than the launches of all rows.
LEMMA NoMoreCalls ==
  ASSUME Timely, NEW g \in asleep
  PROVE  /\ Len(callChan) + 1 <= MostCalls
         /\ oami # NoCall => Len(callChan) + 2 <= MostCalls
<1> DEFINE lo == IF oami = NoCall THEN 0 ELSE -1
           T == lo..Len(callChan)
           f == [t \in T |-> IF t > 0 THEN callChan[t].row
                             ELSE IF t = 0 THEN g.row ELSE oami.row]
<1>1. NothingOverdue /\ TicksApart
  BY DEF Timely
<1>2. f \in [T -> Rows]
  <2>1. ASSUME NEW t \in T
        PROVE  (IF t > 0 THEN callChan[t].row ELSE IF t = 0 THEN g.row ELSE oami.row) \in Rows
    <3>1. Len(callChan) \in Nat /\ t \in Int /\ (t > 0 => t \in 1..Len(callChan))
      BY <1>1, Calls
    <3>2. ~(t > 0) /\ t # 0 => oami # NoCall
      BY <3>1
    <3>. QED
      BY <1>1, <3>1, <3>2, Calls
  <2>. QED
    BY <2>1
<1>3. ASSUME NEW r \in Rows
      PROVE  /\ IsFiniteSet({t \in T : f[t] = r})
             /\ Cardinality({t \in T : f[t] = r}) <= Launches
  <2> DEFINE G == {t \in T : f[t] = r}
             L == InLine(r)
  <2>1. ASSUME NEW t \in G
        PROVE  \/ t \in L
               \/ t = 0 /\ g.row = r
               \/ t = -1 /\ oami # NoCall /\ oami.row = r
    <3>1. /\ Len(callChan) \in Nat /\ t \in Int /\ (t > 0 => t \in 1..Len(callChan))
          /\ f[t] = r /\ t >= lo
      BY <1>1, Calls
    <3>2. CASE t > 0
      BY <3>1, <3>2 DEF InLine
    <3>3. CASE t = 0
      BY <3>1, <3>3
    <3>4. CASE t < 0
      BY <3>1, <3>4
    <3>. QED
      BY <3>1, <3>2, <3>3, <3>4
  <2>2. IsFiniteSet(L) /\ Cardinality(L) \in Nat
    BY <1>1, InLineSize
  <2>3. g.row = r => Cardinality(Sleepers(r)) >= 1
    <3>1. g.row = r => g \in Sleepers(r)
      BY DEF Sleepers
    <3>2. IsFiniteSet(Sleepers(r)) /\ Cardinality(Sleepers(r)) \in Nat
      BY <1>1, SleepersFit
    <3>. QED
      BY <3>1, <3>2, FS_EmptySet
  <2>4. oami # NoCall /\ oami.row = r => dials[r] >= 1
    BY DEF Timely, OverBeforeDue
  <2>5. /\ Cardinality(Sleepers(r)) + Cardinality(L) + dials[r] <= Launches
        /\ Cardinality(Sleepers(r)) \in Nat /\ dials[r] \in Nat /\ Launches \in Nat
    BY <1>1, SleepersFit, Numbers DEF Timely, OneRound
  <2>. HIDE DEF G, L, T, f, lo
  <2>6. CASE g.row # r /\ ~(oami # NoCall /\ oami.row = r)
    <3>1. G \subseteq L
      BY <2>1, <2>6
    <3>2. IsFiniteSet(G) /\ Cardinality(G) <= Cardinality(L) /\ Cardinality(G) \in Nat
      BY <2>2, <3>1, FS_Subset, FS_CardinalityType
    <3>3. Cardinality(G) <= Launches
      BY <2>2, <2>5, <3>2
    <3>. QED
      BY <3>2, <3>3 DEF G
  <2>7. CASE g.row = r /\ ~(oami # NoCall /\ oami.row = r)
    <3>1. G \subseteq L \cup {0}
      BY <2>1, <2>7
    <3>2. IsFiniteSet(G) /\ Cardinality(G) <= Cardinality(L) + 1 /\ Cardinality(G) \in Nat
      BY <2>2, <3>1, OneMore
    <3>3. Cardinality(G) <= Launches
      BY <2>2, <2>3, <2>5, <2>7, <3>2
    <3>. QED
      BY <3>2, <3>3 DEF G
  <2>8. CASE g.row # r /\ oami # NoCall /\ oami.row = r
    <3>1. G \subseteq L \cup {-1}
      BY <2>1, <2>8
    <3>2. IsFiniteSet(G) /\ Cardinality(G) <= Cardinality(L) + 1 /\ Cardinality(G) \in Nat
      BY <2>2, <3>1, OneMore
    <3>3. Cardinality(G) <= Launches
      BY <2>2, <2>4, <2>5, <2>8, <3>2
    <3>. QED
      BY <3>2, <3>3 DEF G
  <2>9. CASE g.row = r /\ oami # NoCall /\ oami.row = r
    <3>1. G \subseteq (L \cup {0}) \cup {-1}
      BY <2>1, <2>9
    <3>2. /\ IsFiniteSet(L \cup {0}) /\ Cardinality(L \cup {0}) <= Cardinality(L) + 1
          /\ Cardinality(L \cup {0}) \in Nat
      BY <2>2, OneMore
    <3>3. /\ IsFiniteSet(G) /\ Cardinality(G) <= Cardinality(L \cup {0}) + 1
          /\ Cardinality(G) \in Nat
      BY <3>1, <3>2, OneMore
    <3>4. Cardinality(G) <= Launches
      BY <2>2, <2>3, <2>4, <2>5, <2>9, <3>2, <3>3
    <3>. QED
      BY <3>3, <3>4 DEF G
  <2>. QED
    BY <2>6, <2>7, <2>8, <2>9
<1>4. Cardinality(T) <= MostCalls /\ Cardinality(T) \in Nat
  <2>1. IsFiniteSet(Rows) /\ Launches \in Nat
    BY <1>1, FiniteRows, Numbers
  <2>. HIDE DEF T, f
  <2>. QED
    BY <1>2, <1>3, <2>1, GroupsCount DEF MostCalls
<1>5. Cardinality(T) = Len(callChan) + 1 - lo
  <2>1. lo \in Int /\ Len(callChan) \in Int /\ lo <= Len(callChan) + 1
    BY <1>1, Calls
  <2>. HIDE DEF lo
  <2>. QED
    BY <2>1, Interval
<1>. HIDE DEF T, f
<1>. QED
  BY <1>1, <1>4, <1>5, Calls, Numbers

-----------------------------------------------------------------------------

LEMMA InitTimely == RetryOutlasts /\ Init => Timely
<1> SUFFICES ASSUME Init PROVE Timely
  OBVIOUS
<1>1. NothingOverdue
  BY InitTimes
<1>2. TicksApart /\ OverBeforeDue /\ InTurn
  BY DEF Init, TicksApart, OverBeforeDue, InTurn
<1>3. OneRound
  <2>1. \A r : Sleepers(r) = {} /\ InLine(r) = {}
    BY DEF Init, Sleepers, InLine
  <2>2. \A r \in Rows : dials[r] = 0
    BY DEF Init
  <2>3. Launches \in Nat
    BY <1>1, Numbers
  <2>. QED
    BY <2>1, <2>2, <2>3, FS_EmptySet DEF OneRound
<1>. QED
  BY <1>1, <1>2, <1>3 DEF Timely

\* A tick launches the rows that are due: none of their calls is left.
LEMMA PassTimely ==
  ASSUME Timely, NothingOverdue', Pass
  PROVE  Timely'
<1>1. NothingOverdue
  BY DEF Timely
<1>2. ASSUME NEW g \in asleep', g \notin asleep
      PROVE  /\ g = [row |-> g.row, age |-> 0, pause |-> Pause(ReadyCalls)]
             /\ g.row \in Rows /\ wait[g.row] = 0
  <2>1. PICK r \in ReadyCalls : g = [row |-> r, age |-> 0, pause |-> Pause(ReadyCalls)]
    BY <1>2 DEF Pass
  <2>. QED
    BY <2>1 DEF ReadyCalls
<1>3. asleep \subseteq asleep' /\ sincePass = period /\ sincePass' = 0 /\ period' = period
  BY DEF Pass
<1>4. TicksApart'
  <2>1. \A g \in asleep' : g.age >= sincePass'
    BY <1>3, <1>2, <1>1, Calls
  <2>2. ASSUME NEW g \in asleep', NEW h \in asleep', g.row = h.row, g # h
        PROVE  g.age - h.age >= period \/ h.age - g.age >= period
    <3>1. \A s \in asleep : s.age \in Nat /\ s.age >= period
      BY <1>1, <1>3, Calls DEF Timely, TicksApart
    <3>2. period \in Nat
      BY <1>1, Numbers
    <3>3. CASE g \in asleep /\ h \in asleep
      BY <2>2, <3>3 DEF Timely, TicksApart
    <3>4. CASE g \in asleep /\ h \notin asleep
      <4>1. h.age = 0
        BY <1>2, <3>4
      <4>. QED
        BY <3>1, <3>2, <3>4, <4>1
    <3>5. CASE g \notin asleep /\ h \in asleep
      <4>1. g.age = 0
        BY <1>2, <3>5
      <4>. QED
        BY <3>1, <3>2, <3>5, <4>1
    <3>6. CASE g \notin asleep /\ h \notin asleep
      BY <1>2, <2>2, <3>6
    <3>. QED
      BY <3>3, <3>4, <3>5, <3>6
  <2>. QED
    BY <1>3, <2>1, <2>2 DEF TicksApart
<1>5. \A r : InLine(r)' = InLine(r)
  BY DEF Pass, InLine
<1>6. dials' = dials /\ wait' = wait /\ Launches' = Launches
  BY DEF Pass, Launches
<1>7. OneRound'
  <2>1. ASSUME NEW r \in Rows
        PROVE  /\ (Cardinality(Sleepers(r)) + Cardinality(InLine(r)) + dials[r] <= Launches)'
               /\ (wait[r] = 0 => dials[r] = 0)'
    <3>1. CASE wait[r] = 0
      <4>1. dials[r] = 0
        BY <3>1 DEF Timely, OneRound
      <4>2. InLine(r) = {}
        <5>1. ASSUME NEW i \in InLine(r) PROVE FALSE
          <6>1. i \in 1..Len(callChan) /\ callChan[i].row = r
            BY DEF InLine
          <6>2. i \in Nat /\ Rest + Trip * i < 0
            BY <3>1, <6>1 DEF Timely, OverBeforeDue
          <6>3. Trip * i \in Nat /\ Rest \in Nat
            BY <1>1, <6>2, Numbers, Calls, Products
          <6>. QED
            BY <6>2, <6>3
        <5>. QED
          BY <5>1
      <4>3. Cardinality(InLine(r)') = 0
        BY <1>5, <4>2, FS_EmptySet
      <4>4. Cardinality(Sleepers(r)') <= Launches' /\ Cardinality(Sleepers(r)') \in Nat
        <5>1. \A g \in Sleepers(r)' : g.age \in 0..MaxPause
          BY Pauses DEF NothingOverdue, TypeOK, Sleepers
        <5>2. \A g, h \in Sleepers(r)' : g # h => g.age - h.age >= period' \/ h.age - g.age >= period'
          BY <1>4 DEF TicksApart, Sleepers
        <5>3. period' \in Nat \ {0}
          BY <1>1, <1>3, Numbers
        <5>. QED
          BY <5>1, <5>2, <5>3, FitsPause DEF Launches
      <4>. QED
        BY <1>6, <3>1, <4>1, <4>3, <4>4
    <3>2. CASE wait[r] # 0
      <4>1. Sleepers(r)' = Sleepers(r)
        BY <1>2, <1>3, <3>2 DEF Sleepers
      <4>. QED
        BY <1>5, <1>6, <4>1 DEF Timely, OneRound
    <3>. QED
      BY <3>1, <3>2
  <2>. QED
    BY <2>1 DEF OneRound
<1>8. OverBeforeDue'
  BY DEF Pass, OverBeforeDue, Rest, Timely
<1>9. InTurn'
  BY DEF Pass, InTurn, Rest, MostCalls, Launches, Timely
<1>. QED
  BY <1>4, <1>7, <1>8, <1>9 DEF Timely

\* A goroutine wakes: its call is the last of at most MostCalls, so retry_time
\* is longer than the responses ahead of it.
LEMMA WakeTimely ==
  ASSUME RetryOutlasts, Timely, NothingOverdue', NEW g \in asleep, Wake(g)
  PROVE  Timely'
<1> DEFINE n == Len(callChan)
<1>1. NothingOverdue
  BY DEF Timely
<1>2. /\ callChan' = Append(callChan, [row |-> g.row, age |-> g.age])
      /\ asleep' = asleep \ {g} /\ wait' = [wait EXCEPT ![g.row] = RetryTime]
      /\ dials' = dials /\ oami' = oami /\ period' = period /\ sincePass' = sincePass
      /\ Rest' = Rest /\ Launches' = Launches /\ MostCalls' = MostCalls
  BY DEF Wake, Rest, MostCalls, Launches
<1>3. n \in Nat /\ g.row \in Rows /\ g.age \in Nat /\ g.age <= MaxPause /\ Rest \in Nat
  BY <1>1, Calls
<1>4. /\ Len(callChan') = n + 1
      /\ \A i \in 1..n : callChan'[i] = callChan[i]
      /\ callChan'[n + 1].row = g.row /\ callChan'[n + 1].age = g.age
  <2>1. callChan \in Seq([row : Rows, age : Nat])
    BY <1>1 DEF NothingOverdue, TypeOK
  <2>2. [row |-> g.row, age |-> g.age] \in [row : Rows, age : Nat]
    BY <1>3
  <2>. QED
    BY <1>2, <2>1, <2>2, AppendProperties
<1>5. Trip \in Nat /\ MostCalls \in Nat /\ RetryTime \in Nat /\ MaxPause \in Nat
  BY <1>1, Numbers
<1>6. Trip * MostCalls < RetryTime /\ Trip * MostCalls \in Nat
  <2>1. period \in Periods
    BY <1>1 DEF NothingOverdue, TypeOK
  <2>2. RetryTime > Trip * MostCalls
    BY <2>1 DEF RetryOutlasts, MostCalls, Launches
  <2>. QED
    BY <1>5, <2>2, Products
<1>7. /\ Rest + Trip * (n + 1) <= Trip * MostCalls
      /\ Rest + Trip * n <= Trip * (MostCalls - 1)
      /\ Trip * n \in Nat /\ Trip * (MostCalls - 1) \in Nat
  <2>1. n + 1 <= MostCalls /\ (oami # NoCall => n + 2 <= MostCalls)
    BY NoMoreCalls
  <2>2. MostCalls - 1 \in Nat /\ n <= MostCalls - 1
    BY <1>3, <1>5, <2>1
  <2>3. /\ Trip * n \in Nat /\ Trip * (MostCalls - 1) \in Nat
        /\ Trip * (n + 1) = Trip * n + Trip
        /\ Trip * ((MostCalls - 1) + 1) = Trip * (MostCalls - 1) + Trip
        /\ Trip * n <= Trip * (MostCalls - 1)
    BY <1>3, <1>5, <2>2, Products
  <2>4. (MostCalls - 1) + 1 = MostCalls
    BY <1>5
  <2>5. Rest + Trip * n <= Trip * (MostCalls - 1)
    <3>1. CASE oami = NoCall
      BY <2>3, <3>1 DEF Rest
    <3>2. CASE oami # NoCall
      <4>1. n + 1 <= MostCalls - 1 /\ n + 1 \in Nat
        BY <1>3, <1>5, <2>1, <3>2
      <4>2. Trip * (n + 1) <= Trip * (MostCalls - 1)
        BY <1>5, <2>2, <4>1, Products
      <4>3. Rest <= Trip
        BY <1>1, Calls
      <4>. QED
        BY <1>3, <1>5, <2>3, <4>2, <4>3
    <3>. QED
      BY <3>1, <3>2
  <2>6. Trip * MostCalls = Trip * (MostCalls - 1) + Trip
    BY <2>3, <2>4
  <2>7. Rest + Trip * (n + 1) <= Trip * MostCalls
    BY <1>3, <1>5, <2>3, <2>5, <2>6
  <2>. QED
    BY <2>3, <2>5, <2>7
<1>. HIDE DEF n
<1>8. TicksApart'
  BY <1>2 DEF Timely, TicksApart
<1>9. OneRound'
  <2>1. ASSUME NEW r \in Rows
        PROVE  /\ (Cardinality(Sleepers(r)) + Cardinality(InLine(r)) + dials[r] <= Launches)'
               /\ (wait[r] = 0 => dials[r] = 0)'
    <3>1. /\ IsFiniteSet(Sleepers(r)) /\ Cardinality(Sleepers(r)) \in Nat
          /\ IsFiniteSet(InLine(r)) /\ Cardinality(InLine(r)) \in Nat
          /\ Cardinality(Sleepers(r)) + Cardinality(InLine(r)) + dials[r] <= Launches
          /\ dials[r] \in Nat /\ Launches \in Nat /\ wait \in [Rows -> Nat]
          /\ (wait[r] = 0 => dials[r] = 0)
      BY <1>1, SleepersFit, InLineSize, Numbers DEF Timely, OneRound
    <3>2. CASE r = g.row
      <4>1. Sleepers(r)' = Sleepers(r) \ {g} /\ g \in Sleepers(r)
        BY <1>2, <3>2 DEF Sleepers
      <4>2. Cardinality(Sleepers(r)') = Cardinality(Sleepers(r)) - 1
        BY <3>1, <4>1, FS_RemoveElement
      <4>3. InLine(r)' \subseteq InLine(r) \cup {n + 1}
        BY <1>3, <1>4 DEF InLine, n
      <4>4. /\ Cardinality(InLine(r)') \in Nat
            /\ Cardinality(InLine(r)') <= Cardinality(InLine(r)) + 1
        BY <3>1, <4>3, OneMore
      <4>5. wait'[r] = RetryTime /\ RetryTime # 0
        BY <1>2, <1>5, <1>6, <3>1, <3>2
      <4>6. (Cardinality(Sleepers(r)) + Cardinality(InLine(r)) + dials[r] <= Launches)'
        BY <1>2, <3>1, <4>2, <4>4
      <4>. QED
        BY <4>5, <4>6
    <3>3. CASE r # g.row
      <4>1. Sleepers(r)' = Sleepers(r)
        BY <1>2, <3>3 DEF Sleepers
      <4>2. InLine(r)' = InLine(r)
        BY <1>3, <1>4, <3>3 DEF InLine, n
      <4>3. wait'[r] = wait[r]
        BY <1>2, <3>1, <3>3
      <4>. QED
        BY <1>2, <3>1, <4>1, <4>2, <4>3
    <3>. QED
      BY <3>2, <3>3
  <2>. QED
    BY <2>1 DEF OneRound
<1>10. \A r \in Rows : wait'[r] = (IF r = g.row THEN RetryTime ELSE wait[r])
                       /\ wait[r] \in Nat /\ wait[r] <= RetryTime
  BY <1>1, <1>2, Numbers
<1>11. OverBeforeDue'
  <2>1. ASSUME oami' # NoCall
        PROVE  dials'[oami'.row] >= 1 /\ Rest' < wait'[oami'.row]
    <3>1. oami # NoCall /\ oami' = oami /\ oami.row \in Rows
      BY <1>1, <1>2, <2>1, Calls
    <3>2. dials[oami.row] >= 1 /\ Rest < wait[oami.row]
      BY <3>1 DEF Timely, OverBeforeDue
    <3>3. Rest < wait'[oami.row]
      BY <1>3, <1>5, <1>10, <3>1, <3>2
    <3>. QED
      BY <1>2, <3>1, <3>2, <3>3
  <2>2. ASSUME NEW i \in 1..(n + 1)
        PROVE  Rest + Trip * i < wait'[callChan'[i].row]
    <3>1. CASE i \in 1..n
      <4>1. Rest + Trip * i < wait[callChan[i].row] /\ callChan[i].row \in Rows
        BY <1>1, <3>1, Calls DEF Timely, OverBeforeDue, n
      <4>2. Rest + Trip * i \in Nat
        <5>1. i \in Nat
          BY <3>1
        <5>2. Trip * i \in Nat
          BY <1>5, <5>1, Products
        <5>. QED
          BY <1>3, <5>2
      <4>3. Rest + Trip * i < wait'[callChan[i].row]
        BY <1>5, <1>10, <4>1, <4>2
      <4>. QED
        BY <1>4, <3>1, <4>3
    <3>2. CASE i \notin 1..n
      <4>1. i = n + 1
        BY <1>3, <3>2
      <4>2. wait'[callChan'[i].row] = RetryTime
        BY <1>3, <1>4, <1>10, <4>1
      <4>3. Rest + Trip * (n + 1) \in Nat
        <5>1. Trip * (n + 1) \in Nat
          BY <1>3, <1>5, Products
        <5>. QED
          BY <1>3, <5>1
      <4>4. Rest + Trip * (n + 1) < RetryTime
        BY <1>5, <1>6, <1>7, <4>3
      <4>. QED
        BY <4>1, <4>2, <4>4
    <3>. QED
      BY <3>1, <3>2
  <2>. QED
    BY <1>2, <1>4, <2>1, <2>2 DEF OverBeforeDue
<1>12. InTurn'
  <2>1. ASSUME NEW i \in 1..(n + 1)
        PROVE  callChan'[i].age + Rest + Trip * (i - 1) <= MaxPause + Trip * (MostCalls - 1)
    <3>1. CASE i \in 1..n
      BY <1>4, <3>1 DEF Timely, InTurn, n
    <3>2. CASE i \notin 1..n
      <4>1. i = n + 1 /\ i - 1 = n
        BY <1>3, <3>2
      <4>2. g.age + Rest + Trip * n <= MaxPause + Trip * (MostCalls - 1)
        BY <1>3, <1>5, <1>7
      <4>. QED
        BY <1>4, <4>1, <4>2
    <3>. QED
      BY <3>1, <3>2
  <2>. QED
    BY <1>2, <1>4, <2>1 DEF InTurn
<1>. QED
  BY <1>8, <1>9, <1>11, <1>12 DEF Timely

\* The first call is originated: the others are one place ahead, and wait for
\* its response instead.
LEMMA OriginateTimely ==
  ASSUME Timely, NothingOverdue', Originate
  PROVE  Timely'
<1> DEFINE n == Len(callChan)
           first == callChan[1].row
<1>1. NothingOverdue
  BY DEF Timely
<1>2. /\ n \in Nat \ {0} /\ Len(callChan') = n - 1
      /\ Head(callChan).row = first /\ first \in Rows
      /\ \A i \in 1..(n - 1) : callChan'[i] = callChan[i + 1]
  <2>1. callChan \in Seq([row : Rows, age : Nat]) /\ callChan # <<>> /\ callChan' = Tail(callChan)
    BY <1>1 DEF NothingOverdue, TypeOK, Originate
  <2>2. Head(callChan) = callChan[1] /\ n \in Nat \ {0} /\ Len(callChan') = n - 1
    BY <2>1
  <2>3. \A i \in 1..(n - 1) : callChan'[i] = callChan[i + 1]
    BY <2>1, <2>2
  <2>4. callChan[1].row \in Rows
    BY <1>1, <2>2, Calls
  <2>. QED
    BY <2>2, <2>3, <2>4
<1>3. /\ oami = NoCall /\ oami' = [row |-> first, trip |-> 0] /\ Rest = 0
      /\ dials' = [dials EXCEPT ![first] = @ + 1] /\ wait' = wait /\ asleep' = asleep
      /\ period' = period /\ sincePass' = sincePass
      /\ Launches' = Launches /\ MostCalls' = MostCalls
  BY <1>2 DEF Originate, Rest, Launches, MostCalls
<1>4. Trip \in Nat /\ dials \in [Rows -> Nat] /\ wait \in [Rows -> Nat] /\ Launches \in Nat
      /\ MostCalls \in Nat /\ MaxPause \in Nat
  BY <1>1, Numbers
<1>5. Rest' \in Nat /\ Rest' <= Trip
  BY <1>3, <1>4 DEF Rest
<1>6. \A i \in 1..n : /\ Trip * i < wait[callChan[i].row]
                      /\ callChan[i].row \in Rows
                      /\ wait[callChan[i].row] \in Nat /\ callChan[i].age \in Nat
                      /\ callChan[i].age + Trip * (i - 1) <= MaxPause + Trip * (MostCalls - 1)
  <2>1. ASSUME NEW i \in 1..n
        PROVE  /\ Trip * i < wait[callChan[i].row]
               /\ callChan[i].row \in Rows
               /\ wait[callChan[i].row] \in Nat /\ callChan[i].age \in Nat
               /\ callChan[i].age + Trip * (i - 1) <= MaxPause + Trip * (MostCalls - 1)
    <3>1. /\ Rest + Trip * i < wait[callChan[i].row]
          /\ callChan[i].age + Rest + Trip * (i - 1) <= MaxPause + Trip * (MostCalls - 1)
      BY DEF Timely, OverBeforeDue, InTurn
    <3>2. callChan[i].row \in Rows /\ callChan[i].age \in Nat /\ i \in Nat /\ i - 1 \in Nat
      BY <1>1, Calls
    <3>3. Trip * i \in Nat /\ Trip * (i - 1) \in Nat
      BY <1>4, <3>2, Products
    <3>4. Trip * i < wait[callChan[i].row]
      BY <1>3, <3>1, <3>3
    <3>5. callChan[i].age + Trip * (i - 1) <= MaxPause + Trip * (MostCalls - 1)
      <4>1. callChan[i].age + Rest = callChan[i].age
        BY <1>3, <3>2
      <4>. QED
        BY <3>1, <4>1
    <3>. QED
      BY <1>4, <3>2, <3>4, <3>5
  <2>. QED
    BY <2>1
<1>7. Trip < wait[first] /\ wait[first] \in Nat /\ wait[first] # 0
  <2>1. Trip * 1 = Trip /\ 1 \in 1..n
    BY <1>2, <1>4
  <2>2. Trip * 1 < wait[first] /\ wait[first] \in Nat
    BY <1>6, <2>1
  <2>3. Trip < wait[first]
    BY <2>1, <2>2
  <2>. QED
    BY <1>4, <2>2, <2>3
<1>8. ASSUME NEW i \in 1..(n - 1)
      PROVE  /\ callChan'[i] = callChan[i + 1] /\ i + 1 \in 1..n /\ i \in Nat /\ (i + 1) - 1 = i
             /\ Trip * (i + 1) = Trip * i + Trip /\ Trip * i \in Nat
             /\ Trip * i = Trip * (i - 1) + Trip /\ Trip * (i - 1) \in Nat
  <2>1. callChan'[i] = callChan[i + 1] /\ i + 1 \in 1..n /\ i \in Nat /\ (i + 1) - 1 = i
        /\ i - 1 \in Nat /\ (i - 1) + 1 = i
    BY <1>2
  <2>2. /\ Trip * (i + 1) = Trip * i + Trip /\ Trip * i \in Nat
        /\ Trip * ((i - 1) + 1) = Trip * (i - 1) + Trip /\ Trip * (i - 1) \in Nat
    BY <1>4, <2>1, Products
  <2>. QED
    BY <2>1, <2>2
<1>. HIDE DEF n, first
<1>9. TicksApart'
  BY <1>3 DEF Timely, TicksApart
<1>10. OneRound'
  <2>1. ASSUME NEW r \in Rows
        PROVE  /\ (Cardinality(Sleepers(r)) + Cardinality(InLine(r)) + dials[r] <= Launches)'
               /\ (wait[r] = 0 => dials[r] = 0)'
    <3>1. /\ Cardinality(Sleepers(r)) \in Nat
          /\ IsFiniteSet(InLine(r)) /\ Cardinality(InLine(r)) \in Nat
          /\ Cardinality(Sleepers(r)) + Cardinality(InLine(r)) + dials[r] <= Launches
          /\ dials[r] \in Nat
          /\ (wait[r] = 0 => dials[r] = 0)
      BY <1>1, SleepersFit, InLineSize, Numbers DEF Timely, OneRound
    <3>2. Sleepers(r)' = Sleepers(r)
      BY <1>3 DEF Sleepers
    <3>3. \A i \in InLine(r)' : i \in Nat /\ i + 1 \in InLine(r) \ {1}
      BY <1>2, <1>8 DEF InLine, n
    <3>4. CASE r = first
      <4>1. 1 \in InLine(r)
        BY <1>2, <3>4 DEF InLine, n, first
      <4>2. IsFiniteSet(InLine(r) \ {1}) /\ Cardinality(InLine(r) \ {1}) = Cardinality(InLine(r)) - 1
        BY <3>1, <4>1, FS_RemoveElement
      <4>3. /\ Cardinality(InLine(r)') \in Nat
            /\ Cardinality(InLine(r)') <= Cardinality(InLine(r)) - 1
        <5>1. Cardinality(InLine(r)') <= Cardinality(InLine(r) \ {1})
              /\ Cardinality(InLine(r)') \in Nat
          BY <3>3, <4>2, ShiftedNoLarger
        <5>. QED
          BY <4>2, <5>1
      <4>4. dials'[r] = dials[r] + 1
        BY <1>3, <1>4, <3>4
      <4>5. wait'[r] # 0
        BY <1>3, <1>7, <3>4
      <4>6. Cardinality(Sleepers(r)) + Cardinality(InLine(r)') + dials'[r] <= Launches
        BY <1>4, <3>1, <4>3, <4>4
      <4>. QED
        BY <1>3, <3>2, <4>5, <4>6
    <3>5. CASE r # first
      <4>1. \A i \in InLine(r)' : i \in Nat /\ i + 1 \in InLine(r)
        BY <3>3
      <4>2. Cardinality(InLine(r)') <= Cardinality(InLine(r)) /\ Cardinality(InLine(r)') \in Nat
        BY <3>1, <4>1, ShiftedNoLarger
      <4>3. dials'[r] = dials[r]
        BY <1>3, <1>4, <3>5
      <4>4. Cardinality(Sleepers(r)) + Cardinality(InLine(r)') + dials'[r] <= Launches
        BY <1>4, <3>1, <4>2, <4>3
      <4>. QED
        BY <1>3, <3>1, <3>2, <4>3, <4>4
    <3>. QED
      BY <3>4, <3>5
  <2>. QED
    BY <2>1 DEF OneRound
<1>11. OverBeforeDue'
  <2>1. oami'.row = first /\ dials'[first] >= 1 /\ Rest' < wait'[first]
    <3>1. dials'[first] = dials[first] + 1 /\ dials[first] \in Nat
      BY <1>2, <1>3, <1>4
    <3>. QED
      BY <1>3, <1>4, <1>5, <1>7, <3>1
  <2>2. ASSUME NEW i \in 1..(n - 1)
        PROVE  Rest' + Trip * i < wait'[callChan'[i].row]
    <3>1. Trip * (i + 1) < wait[callChan[i + 1].row] /\ wait[callChan[i + 1].row] \in Nat
      BY <1>6, <1>8
    <3>2. Rest' + Trip * i < wait[callChan[i + 1].row]
      BY <1>4, <1>5, <1>8, <3>1
    <3>. QED
      BY <1>3, <1>8, <3>2
  <2>. QED
    BY <1>2, <2>1, <2>2 DEF OverBeforeDue
<1>12. InTurn'
  <2>1. ASSUME NEW i \in 1..(n - 1)
        PROVE  callChan'[i].age + Rest' + Trip * (i - 1) <= MaxPause + Trip * (MostCalls - 1)
    <3> DEFINE late == MaxPause + Trip * (MostCalls - 1)
               a == callChan[i + 1].age
               ahead == Trip * (i - 1)
    <3>1. a + (ahead + Trip) <= late /\ a \in Nat /\ ahead \in Nat
      <4>1. a + Trip * i <= late /\ a \in Nat
        BY <1>6, <1>8
      <4>. QED
        BY <1>8, <4>1
    <3>2. late \in Int
      <4>1. MostCalls - 1 \in Int
        BY <1>4
      <4>. QED
        BY <1>4, <4>1
    <3>. HIDE DEF late, a, ahead
    <3>3. a + Rest' + ahead <= late
      BY <1>4, <1>5, <3>1, <3>2, Sums
    <3>. QED
      BY <1>8, <3>3 DEF late, a, ahead
  <2>. QED
    BY <1>2, <1>3, <2>1 DEF InTurn
<1>. QED
  BY <1>9, <1>10, <1>11, <1>12 DEF Timely

\* A response only shortens the wait of the others.
LEMMA RespondTimely ==
  ASSUME Timely, NothingOverdue', Respond
  PROVE  Timely'
<1>1. NothingOverdue
  BY DEF Timely
<1>2. /\ oami' = NoCall /\ Rest' = 0 /\ callChan' = callChan /\ wait' = wait
      /\ MostCalls' = MostCalls
  BY DEF Respond, Rest, MostCalls, Launches
<1>3. TicksApart' /\ OneRound'
  BY DEF Respond, Timely, TicksApart, OneRound, Sleepers, InLine, Launches
<1>4. Rest \in Nat /\ Trip \in Nat /\ wait \in [Rows -> Nat] /\ MostCalls \in Nat /\ MaxPause \in Nat
  BY <1>1, Calls, Numbers
<1>5. OverBeforeDue'
  <2>1. ASSUME NEW i \in 1..Len(callChan) PROVE 0 + Trip * i < wait[callChan[i].row]
    <3>1. Rest + Trip * i < wait[callChan[i].row]
      BY DEF Timely, OverBeforeDue
    <3>2. Trip * i \in Nat /\ wait[callChan[i].row] \in Nat
      <4>1. i \in Nat /\ callChan[i].row \in Rows
        BY <1>1, Calls
      <4>. QED
        BY <1>4, <4>1, Products
    <3>. QED
      BY <1>4, <3>1, <3>2
  <2>. QED
    BY <1>2, <2>1 DEF OverBeforeDue
<1>6. InTurn'
  <2>1. ASSUME NEW i \in 1..Len(callChan)
        PROVE  callChan[i].age + 0 + Trip * (i - 1) <= MaxPause + Trip * (MostCalls - 1)
    <3> DEFINE late == MaxPause + Trip * (MostCalls - 1)
    <3>1. callChan[i].age + Rest + Trip * (i - 1) <= late
      BY DEF Timely, InTurn
    <3>2. callChan[i].age \in Nat /\ Trip * (i - 1) \in Nat
      <4>1. i - 1 \in Nat /\ callChan[i].age \in Nat
        BY <1>1, Calls
      <4>. QED
        BY <1>4, <4>1, Products
    <3>3. late \in Int
      <4>1. MostCalls - 1 \in Int
        BY <1>4
      <4>. QED
        BY <1>4, <4>1
    <3>. HIDE DEF late
    <3>4. callChan[i].age + 0 + Trip * (i - 1) <= late
      BY <1>4, <3>1, <3>2, <3>3
    <3>. QED
      BY <3>4 DEF late
  <2>. QED
    BY <1>2, <2>1 DEF InTurn
<1>. QED
  BY <1>3, <1>5, <1>6 DEF Timely

\* Time passes: initOAMI is busy with a call whose response is not overdue.
LEMMA AdvanceTimely ==
  ASSUME Timely, NothingOverdue', Advance
  PROVE  Timely'
<1> DEFINE n == Len(callChan)
           Older(g) == [g EXCEPT !.age = @ + 1]
<1>1. NothingOverdue
  BY DEF Timely
<1>2. /\ Len(callChan') = n /\ n \in Nat
      /\ \A i \in 1..n : callChan'[i].row = callChan[i].row /\ callChan'[i].age = callChan[i].age + 1
  <2>1. callChan \in Seq([row : Rows, age : Nat])
    BY <1>1 DEF NothingOverdue, TypeOK
  <2>2. callChan' = [i \in 1..n |-> [callChan[i] EXCEPT !.age = @ + 1]]
    BY <2>1 DEF Advance
  <2>3. \A i \in 1..n : callChan[i] \in [row : Rows, age : Nat]
    BY <2>1, ElementOfSeq
  <2>4. n \in Nat
    BY <2>1
  <2>5. Len(callChan') = n
    BY <2>2, <2>4
  <2>. QED
    BY <2>2, <2>3, <2>4, <2>5
<1>3. /\ asleep' = {Older(g) : g \in asleep} /\ period' = period
      /\ sincePass' = sincePass + 1 /\ Launches' = Launches /\ MostCalls' = MostCalls
      /\ wait' = [r \in Rows |-> IF wait[r] > 0 THEN wait[r] - 1 ELSE 0]
      /\ dials' = [r \in Rows |-> IF wait[r] = 1 THEN 0 ELSE dials[r]]
  BY DEF Advance, Launches, MostCalls
<1>4. \A g \in asleep : /\ Older(g).row = g.row /\ Older(g).age = g.age + 1
                        /\ g.row \in Rows /\ g.age \in Nat
  <2>1. \A g \in asleep : g \in [row : Rows, age : 0..MaxPause, pause : {CpsPause, SlowPause}]
    BY <1>1, Calls
  <2>2. \A g \in asleep : g.row \in Rows /\ g.age \in Nat
    BY <1>1, Calls
  <2>. QED
    BY <2>1, <2>2
<1>5. /\ Trip \in Nat /\ dials \in [Rows -> Nat] /\ wait \in [Rows -> Nat] /\ Launches \in Nat
      /\ MostCalls \in Nat /\ MaxPause \in Nat /\ period \in Nat /\ sincePass \in Nat
  <2>1. period \in Nat /\ sincePass \in 0..period
    BY <1>1, Numbers
  <2>. QED
    BY <1>1, <2>1, Numbers
\* Whoever waits is behind a call that is being originated.
<1>6. /\ oami' # NoCall => oami # NoCall /\ oami'.row = oami.row /\ oami.row \in Rows
      /\ oami # NoCall => Rest' \in Nat /\ Rest \in Nat /\ Rest' < Rest
      /\ n > 0 => oami # NoCall
  <2>1. CASE oami = NoCall
    <3>1. oami' = NoCall
      BY <2>1 DEF Advance
    <3>2. callChan = <<>>
      BY <2>1 DEF Advance, Due
    <3>. QED
      BY <2>1, <3>1, <3>2
  <2>2. CASE oami # NoCall
    <3>1. /\ oami \in [row : Rows, trip : 0..Trip] /\ oami.trip # Trip
          /\ oami' = [oami EXCEPT !.trip = @ + 1]
      BY <1>1, <2>2, Calls DEF Advance, Due
    <3>2. /\ oami'.row = oami.row /\ oami'.trip = oami.trip + 1 /\ oami.row \in Rows
          /\ oami.trip \in 0..Trip
      BY <3>1
    <3>3. Rest' \in {0, Trip - (oami.trip + 1)} /\ Rest = Trip - oami.trip
      BY <2>2, <3>2 DEF Rest
    <3>4. Rest' \in Nat /\ Rest \in Nat /\ Rest' < Rest
      BY <1>5, <3>1, <3>2, <3>3
    <3>. QED
      BY <2>2, <3>2, <3>4
  <2>. QED
    BY <2>1, <2>2
<1>. HIDE DEF n, Older
<1>7. TicksApart'
  <2>1. ASSUME NEW g \in asleep' PROVE g.age >= sincePass'
    <3>1. PICK s \in asleep : g = Older(s)
      BY <1>3
    <3>2. s.age >= sincePass
      BY DEF Timely, TicksApart
    <3>. QED
      BY <1>3, <1>4, <1>5, <3>1, <3>2
  <2>2. ASSUME NEW g \in asleep', NEW h \in asleep', g.row = h.row, g # h
        PROVE  g.age - h.age >= period \/ h.age - g.age >= period
    <3>1. PICK s \in asleep : g = Older(s)
      BY <1>3
    <3>2. PICK t \in asleep : h = Older(t)
      BY <1>3
    <3>3. s.row = t.row /\ s # t
      BY <1>4, <2>2, <3>1, <3>2
    <3>4. s.age - t.age >= period \/ t.age - s.age >= period
      BY <3>3 DEF Timely, TicksApart
    <3>5. g.age = s.age + 1 /\ h.age = t.age + 1 /\ s.age \in Nat /\ t.age \in Nat
      BY <1>4, <3>1, <3>2
    <3>. QED
      BY <1>5, <3>4, <3>5
  <2>. QED
    BY <1>3, <2>1, <2>2 DEF TicksApart
<1>8. OneRound'
  <2>1. ASSUME NEW r \in Rows
        PROVE  /\ (Cardinality(Sleepers(r)) + Cardinality(InLine(r)) + dials[r] <= Launches)'
               /\ (wait[r] = 0 => dials[r] = 0)'
    <3>1. /\ IsFiniteSet(Sleepers(r)) /\ Cardinality(Sleepers(r)) \in Nat
          /\ Cardinality(InLine(r)) \in Nat
          /\ Cardinality(Sleepers(r)) + Cardinality(InLine(r)) + dials[r] <= Launches
          /\ dials[r] \in Nat /\ wait[r] \in Nat
          /\ (wait[r] = 0 => dials[r] = 0)
      BY <1>1, <1>5, SleepersFit, InLineSize DEF Timely, OneRound
    <3>2. InLine(r)' = InLine(r)
      BY <1>2 DEF InLine, n
    <3>3. Cardinality(Sleepers(r)') \in Nat /\ Cardinality(Sleepers(r)') <= Cardinality(Sleepers(r))
      <4>1. \A g \in Sleepers(r)' : \E s \in Sleepers(r) : g = Older(s)
        <5>1. ASSUME NEW g \in Sleepers(r)' PROVE \E s \in Sleepers(r) : g = Older(s)
          <6>1. g \in asleep' /\ g.row = r
            BY DEF Sleepers
          <6>2. PICK s \in asleep : g = Older(s)
            BY <1>3, <6>1
          <6>3. s \in Sleepers(r)
            BY <1>4, <6>1, <6>2 DEF Sleepers
          <6>. QED
            BY <6>2, <6>3
        <5>. QED
          BY <5>1
      <4> DEFINE from == [g \in Sleepers(r)' |-> CHOOSE s \in Sleepers(r) : g = Older(s)]
      <4>2. \A g \in Sleepers(r)' : from[g] \in Sleepers(r) /\ g = Older(from[g])
        BY <4>1
      <4>3. from \in [Sleepers(r)' -> Sleepers(r)]
        BY <4>2
      <4>. HIDE DEF from
      <4>4. \A g, h \in Sleepers(r)' : from[g] = from[h] => g = h
        BY <4>2
      <4>. QED
        BY <3>1, <4>3, <4>4, NoLarger
    <3>4. dials'[r] = (IF wait[r] = 1 THEN 0 ELSE dials[r])
          /\ wait'[r] = (IF wait[r] > 0 THEN wait[r] - 1 ELSE 0)
      BY <1>3
    <3>5. dials'[r] \in Nat /\ dials'[r] <= dials[r] /\ (wait'[r] = 0 => dials'[r] = 0)
      BY <3>1, <3>4
    <3>6. Cardinality(Sleepers(r)') + Cardinality(InLine(r)) + dials'[r] <= Launches
      BY <1>5, <3>1, <3>3, <3>5
    <3>. QED
      BY <1>3, <3>2, <3>5, <3>6
  <2>. QED
    BY <2>1 DEF OneRound
<1>9. OverBeforeDue'
  <2>1. ASSUME oami' # NoCall
        PROVE  dials'[oami'.row] >= 1 /\ Rest' < wait'[oami'.row]
    <3>1. /\ oami # NoCall /\ oami'.row = oami.row /\ oami.row \in Rows
          /\ Rest' \in Nat /\ Rest \in Nat /\ Rest' < Rest
      BY <1>6, <2>1
    <3>2. dials[oami.row] >= 1 /\ Rest < wait[oami.row]
      BY <3>1 DEF Timely, OverBeforeDue
    <3>3. /\ dials'[oami.row] = (IF wait[oami.row] = 1 THEN 0 ELSE dials[oami.row])
          /\ wait'[oami.row] = (IF wait[oami.row] > 0 THEN wait[oami.row] - 1 ELSE 0)
          /\ wait[oami.row] \in Nat
      BY <1>3, <1>5, <3>1
    <3>4. dials'[oami.row] >= 1 /\ Rest' < wait'[oami.row]
      BY <3>1, <3>2, <3>3
    <3>. QED
      BY <3>1, <3>4
  <2>2. ASSUME NEW i \in 1..n
        PROVE  Rest' + Trip * i < wait'[callChan'[i].row]
    <3> DEFINE r == callChan[i].row
               ahead == Trip * i
    <3>1. Rest + ahead < wait[r] /\ r \in Rows /\ i \in Nat
      BY <1>1, Calls DEF Timely, OverBeforeDue, n
    <3>2. ahead \in Nat
      BY <1>5, <3>1, Products
    <3>3. Rest' \in Nat /\ Rest \in Nat /\ Rest' < Rest
      BY <1>2, <1>6
    <3>. HIDE DEF r, ahead
    <3>4. wait'[r] = (IF wait[r] > 0 THEN wait[r] - 1 ELSE 0) /\ wait[r] \in Nat
      BY <1>3, <1>5, <3>1
    <3>5. Rest' + ahead < wait'[r]
      BY <3>1, <3>2, <3>3, <3>4
    <3>. QED
      BY <1>2, <3>5 DEF r, ahead
  <2>. QED
    BY <1>2, <2>1, <2>2 DEF OverBeforeDue
<1>10. InTurn'
  <2>1. ASSUME NEW i \in 1..n
        PROVE  callChan'[i].age + Rest' + Trip * (i - 1) <= MaxPause + Trip * (MostCalls - 1)
    <3> DEFINE late == MaxPause + Trip * (MostCalls - 1)
               a == callChan[i].age
               ahead == Trip * (i - 1)
    <3>1. a + Rest + ahead <= late
      BY DEF Timely, InTurn, n
    <3>2. a \in Nat /\ ahead \in Nat
      <4>1. i - 1 \in Nat /\ a \in Nat
        BY <1>1, <1>2, Calls DEF n
      <4>. QED
        BY <1>5, <4>1, Products
    <3>3. late \in Int
      <4>1. MostCalls - 1 \in Int
        BY <1>5
      <4>. QED
        BY <1>5, <4>1
    <3>4. Rest' \in Nat /\ Rest \in Nat /\ Rest' < Rest
      BY <1>2, <1>6
    <3>5. callChan'[i].age = a + 1
      BY <1>2
    <3>. HIDE DEF late, a, ahead
    <3>6. (a + 1) + Rest' + ahead <= late
      BY <3>1, <3>2, <3>3, <3>4, Sums
    <3>. QED
      BY <3>5, <3>6 DEF late, ahead
  <2>. QED
    BY <1>2, <1>3, <2>1 DEF InTurn
<1>. QED
  BY <1>7, <1>8, <1>9, <1>10 DEF Timely

LEMMA StepTimely == RetryOutlasts /\ Timely /\ [Next]_vars => Timely'
<1> SUFFICES ASSUME RetryOutlasts, Timely, [Next]_vars PROVE Timely'
  OBVIOUS
<1>1. NothingOverdue'
  BY StepTimes DEF Timely
<1>2. CASE Pass
  BY <1>1, <1>2, PassTimely
<1>3. ASSUME NEW g \in asleep, Wake(g) PROVE Timely'
  BY <1>1, <1>3, WakeTimely
<1>4. CASE Originate
  BY <1>1, <1>4, OriginateTimely
<1>5. CASE Respond
  BY <1>1, <1>5, RespondTimely
<1>6. CASE Advance
  BY <1>1, <1>6, AdvanceTimely
<1>7. ASSUME UNCHANGED <<period, sincePass, asleep, callChan, oami, wait, dials>>
      PROVE  Timely'
  <2>1. /\ \A r : Sleepers(r)' = Sleepers(r) /\ InLine(r)' = InLine(r)
        /\ Rest' = Rest /\ Launches' = Launches /\ MostCalls' = MostCalls
    BY <1>7 DEF Sleepers, InLine, Rest, Launches, MostCalls
  <2>2. TicksApart' /\ OneRound'
    BY <1>7, <2>1 DEF Timely, TicksApart, OneRound
  <2>3. OverBeforeDue' /\ InTurn'
    BY <1>7, <2>1 DEF Timely, OverBeforeDue, InTurn
  <2>. QED
    BY <1>1, <2>2, <2>3 DEF Timely
<1>8. ASSUME NEW r \in Rows, Hangup(r) PROVE Timely'
  BY <1>7, <1>8 DEF Hangup
<1>9. CASE UNCHANGED vars
  BY <1>7, <1>9 DEF vars
<1>. QED
  BY <1>2, <1>3, <1>4, <1>5, <1>6, <1>8, <1>9 DEF Next

(***************************************************************************)
(* A number that falls due is called at most once for each tick of its     *)
(* pause and once more, however the pauses, ticks and responses fall, while*)
(* retry_time outlasts the responses to all the calls there may be.        *)
(***************************************************************************)
THEOREM DialsAreBounded ==
  ASSUME RetryOutlasts
  PROVE  Spec => []DialsBounded
<1>1. Init => Timely
  BY InitTimely
<1>2. Timely /\ [Next]_vars => Timely'
  BY StepTimely
<1>3. ASSUME Timely PROVE DialsBounded
  <2>1. ASSUME NEW r \in Rows PROVE dials[r] <= Launches
    <3>1. /\ Cardinality(Sleepers(r)) \in Nat /\ Cardinality(InLine(r)) \in Nat
          /\ dials[r] \in Nat /\ Launches \in Nat
      BY <1>3, SleepersFit, InLineSize, Numbers DEF Timely
    <3>2. Cardinality(Sleepers(r)) + Cardinality(InLine(r)) + dials[r] <= Launches
      BY <1>3 DEF Timely, OneRound
    <3>. QED
      BY <3>1, <3>2
  <2>. QED
    BY <2>1 DEF DialsBounded
<1>. QED
  BY <1>1, <1>2, <1>3, PTL DEF Spec

(***************************************************************************)
(* A call that waits for initOAMI was let through by the window no longer  *)
(* ago than the pause and the responses to all the calls there may be but  *)
(* its own, under the same condition.                                      *)
(***************************************************************************)
THEOREM LatenessIsBounded ==
  ASSUME RetryOutlasts
  PROVE  Spec => []LateBounded
<1>1. Init => Timely
  BY InitTimely
<1>2. Timely /\ [Next]_vars => Timely'
  BY StepTimely
<1>3. ASSUME Timely PROVE LateBounded
  <2>1. NothingOverdue
    BY <1>3 DEF Timely
  <2>2. ASSUME NEW i \in 1..Len(callChan)
        PROVE  callChan[i].age <= MaxPause + Trip * (MostCalls - 1)
    <3> DEFINE late == MaxPause + Trip * (MostCalls - 1)
               ahead == Trip * (i - 1)
    <3>1. callChan[i].age + Rest + ahead <= late
      BY <1>3 DEF Timely, InTurn
    <3>2. callChan[i].age \in Nat /\ Rest \in Nat /\ i - 1 \in Nat
      BY <2>1, Calls
    <3>3. ahead \in Nat /\ late \in Int
      <4>1. Trip \in Nat /\ MostCalls - 1 \in Int /\ MaxPause \in Nat
        BY <2>1, Numbers
      <4>. QED
        BY <3>2, <4>1, Products
    <3>. HIDE DEF late, ahead
    <3>4. callChan[i].age <= late
      BY <3>1, <3>2, <3>3
    <3>. QED
      BY <3>4 DEF late
  <2>. QED
    BY <2>2 DEF LateBounded, MostCalls
<1>. QED
  BY <1>1, <1>2, <1>3, PTL DEF Spec
====
