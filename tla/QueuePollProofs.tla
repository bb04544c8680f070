-------------------------- MODULE QueuePollProofs --------------------------
(***************************************************************************)
(* Theorems about QueuePoll, for any queues and any number of faults.      *)
(***************************************************************************)
EXTENDS QueuePoll, FiniteSetTheorems, SequenceTheorems, TLAPS

LEMMA MessageTypes ==
  /\ Summaries \subseteq Messages
  /\ Message("Success") \in Messages /\ Message("Error") \in Messages
  /\ Message("stray") \in Messages /\ Message("QueueSummaryComplete") \in Messages
  /\ \A m \in Messages : m.kind = "QueueSummary" => m \in Summaries
BY DEF Messages, Message, Summaries

\* The goroutine's records as the actions change them.
LEMMA PollTypes ==
  ASSUME TypeOK
  PROVE  /\ Idle \in Polls /\ Booting \in Polls
         /\ [Idle EXCEPT !.pc = "send"] \in Polls
         /\ \A err \in {"broken pipe", "empty", "other"} : Failed(err) \in Polls
         /\ poll.attempt = 0 => Retried \in Polls
         /\ \A pc \in {"list", "store", "update"} : [poll EXCEPT !.pc = pc] \in Polls
         /\ [poll EXCEPT !.pc = "first", !.err = "none"] \in Polls
         /\ poll.list # <<>> => First \in Summaries /\ Rest \in Polls
         /\ \A m \in Summaries : [poll EXCEPT !.list = Append(@, m)] \in Polls
<1>1. poll \in Polls /\ poll.list \in Seq(Summaries) /\ <<>> \in Seq(Summaries)
  BY EmptySeq DEF TypeOK, Polls
<1>2. Idle \in Polls /\ Booting \in Polls /\ [Idle EXCEPT !.pc = "send"] \in Polls
  BY <1>1 DEF Idle, Booting, Polls
<1>3. \A err \in {"broken pipe", "empty", "other"} : Failed(err) \in Polls
  BY <1>1 DEF Failed, Polls
<1>4. poll.attempt = 0 => Retried \in Polls
  <2>. SUFFICES ASSUME poll.attempt = 0 PROVE Retried \in Polls
    OBVIOUS
  <2>1. poll.attempt + 1 = 1
    OBVIOUS
  <2>2. Retried = [poll EXCEPT !.pc = "send", !.attempt = 1]
    BY <2>1, <1>1 DEF Retried, Polls
  <2>. QED
    BY <1>1, <2>2 DEF Polls
<1>5. /\ \A pc \in {"list", "store", "update"} : [poll EXCEPT !.pc = pc] \in Polls
      /\ [poll EXCEPT !.pc = "first", !.err = "none"] \in Polls
  BY <1>1 DEF Polls
<1>6. poll.list # <<>> => First \in Summaries /\ Tail(poll.list) \in Seq(Summaries)
  BY <1>1, HeadTailProperties DEF First
<1>7. poll.list # <<>> => Rest \in Polls
  BY <1>1, <1>6 DEF Rest, Polls
<1>8. ASSUME NEW m \in Summaries
      PROVE  [poll EXCEPT !.list = Append(@, m)] \in Polls
  <2>1. Append(poll.list, m) \in Seq(Summaries)
    BY <1>1
  <2>. QED
    BY <1>1, <2>1 DEF Polls
<1>. QED
  BY <1>2, <1>3, <1>4, <1>5, <1>6, <1>7, <1>8

-----------------------------------------------------------------------------
(* What an answer looks like on the wire.                                  *)

LEMMA AnswerShape ==
  ASSUME TypeOK, NEW order \in SetToSeqs(present)
  PROVE  /\ AnswerOf(order) \in Seq(Messages)
         /\ \E n \in Nat :
              /\ Len(AnswerOf(order)) = n + 2
              /\ AnswerOf(order)[1].kind = "Success"
              /\ \A i \in 2..(n + 1) : AnswerOf(order)[i].kind = "QueueSummary"
              /\ AnswerOf(order)[n + 2].kind = "QueueSummaryComplete"
<1> DEFINE n == Cardinality(present)
           summaries == [i \in DOMAIN order |-> Summary(order[i])]
           first == <<Message("Success")>>
           last == <<Message("QueueSummaryComplete")>>
<1>1. n \in Nat
  BY FiniteQueues, FS_Subset, FS_CardinalityType DEF TypeOK
<1>2. DOMAIN order = 1..n /\ \A i \in 1..n : order[i] \in Queues
  BY DEF SetToSeqs, TypeOK
<1>3. \A q \in Queues : Summary(q) \in Summaries
  BY Bounds DEF TypeOK, Summary, Summaries
<1>4. summaries \in [1..n -> Summaries]
  BY <1>2, <1>3
<1>5. summaries \in Seq(Messages) /\ Len(summaries) = n
      /\ \A i \in 1..n : summaries[i].kind = "QueueSummary"
  <2>1. summaries \in [1..n -> Messages]
    BY <1>4, MessageTypes
  <2>2. \A i \in 1..n : summaries[i].kind = "QueueSummary"
    BY <1>4 DEF Summaries
  <2>. QED
    BY <1>1, <2>1, <2>2, SeqDef, LenProperties
<1>6. /\ first \in Seq(Messages) /\ Len(first) = 1 /\ first[1].kind = "Success"
      /\ last \in Seq(Messages) /\ Len(last) = 1 /\ last[1].kind = "QueueSummaryComplete"
  BY MessageTypes DEF Message
<1> HIDE DEF n, summaries, first, last
<1>7. /\ first \o summaries \in Seq(Messages) /\ Len(first \o summaries) = n + 1
      /\ (first \o summaries)[1].kind = "Success"
      /\ \A i \in 2..(n + 1) : (first \o summaries)[i].kind = "QueueSummary"
  <2>1. \A i \in 2..(n + 1) : (first \o summaries)[i] = summaries[i - 1]
    <3>1. \A i \in 1..(1 + n) :
            (first \o summaries)[i] = IF i <= 1 THEN first[i] ELSE summaries[i - 1]
      <4>1. /\ first \in Seq(Messages) /\ summaries \in Seq(Messages)
            /\ Len(first) = 1 /\ Len(summaries) = n
        BY <1>5, <1>6
      <4>2. \A i \in 1..(Len(first) + Len(summaries)) :
              (first \o summaries)[i] = IF i <= Len(first) THEN first[i]
                                        ELSE summaries[i - Len(first)]
        BY <4>1, ConcatProperties
      <4>. QED
        BY <4>1, <4>2
    <3>2. \A i \in 2..(n + 1) : i \in 1..(1 + n) /\ ~(i <= 1)
      BY <1>1
    <3>. QED
      BY <3>1, <3>2, Zenon
  <2>2. (first \o summaries)[1] = first[1]
    BY <1>1, <1>5, <1>6, ConcatProperties
  <2>3. \A i \in 2..(n + 1) : i - 1 \in 1..n
    BY <1>1
  <2>4. first \o summaries \in Seq(Messages) /\ Len(first \o summaries) = n + 1
    <3>1. first \o summaries \in Seq(Messages)
          /\ Len(first \o summaries) = Len(first) + Len(summaries)
      BY <1>5, <1>6, ConcatProperties
    <3>. QED
      BY <1>1, <1>5, <1>6, <3>1
  <2>5. \A i \in 2..(n + 1) : (first \o summaries)[i].kind = "QueueSummary"
    BY <1>5, <2>1, <2>3
  <2>. QED
    BY <1>1, <1>6, <2>2, <2>4, <2>5
<1>8. LET s == first \o summaries \o last
      IN  /\ s \in Seq(Messages) /\ Len(s) = n + 2
          /\ \A i \in 1..(n + 1) : s[i] = (first \o summaries)[i]
          /\ s[n + 2] = last[1]
  <2> DEFINE before == first \o summaries
  <2>1. /\ before \in Seq(Messages) /\ last \in Seq(Messages)
        /\ Len(before) = n + 1 /\ Len(last) = 1
    BY <1>6, <1>7
  <2> HIDE DEF before
  <2>2. /\ before \o last \in Seq(Messages)
        /\ Len(before \o last) = Len(before) + Len(last)
        /\ \A i \in 1..(Len(before) + Len(last)) :
             (before \o last)[i] = IF i <= Len(before) THEN before[i]
                                   ELSE last[i - Len(before)]
    BY <2>1, ConcatProperties
  <2>3. /\ Len(before \o last) = n + 2
        /\ \A i \in 1..(n + 1) : (before \o last)[i] = before[i]
        /\ (before \o last)[n + 2] = last[1]
    BY <1>1, <2>1, <2>2
  <2>. QED
    BY <2>2, <2>3 DEF before
<1>9. AnswerOf(order) = first \o summaries \o last
  BY DEF AnswerOf, first, summaries, last
<1>10. AnswerOf(order) \in Seq(Messages) /\ Len(AnswerOf(order)) = n + 2
  BY <1>8, <1>9
<1>11. \A i \in 1..(n + 1) : AnswerOf(order)[i] = (first \o summaries)[i]
  BY <1>8, <1>9
<1>12. /\ AnswerOf(order)[1].kind = "Success"
       /\ \A i \in 2..(n + 1) : AnswerOf(order)[i].kind = "QueueSummary"
  <2>1. 1 \in 1..(n + 1) /\ \A i \in 2..(n + 1) : i \in 1..(n + 1)
    BY <1>1
  <2>2. AnswerOf(order)[1] = (first \o summaries)[1]
    BY <1>11, <2>1, Zenon
  <2>3. \A i \in 2..(n + 1) : AnswerOf(order)[i] = (first \o summaries)[i]
    BY <1>11, <2>1, Zenon
  <2>. QED
    BY <1>7, <2>2, <2>3, Zenon
<1>13. AnswerOf(order)[n + 2].kind = "QueueSummaryComplete"
  BY <1>6, <1>8, <1>9
<1>. QED
  BY <1>1, <1>10, <1>12, <1>13

-----------------------------------------------------------------------------

\* Between the two statements of a summary, queuesMap is ahead of the table.
Updating ==
    poll.pc = "update" => poll.list # <<>> /\ queuesMap[First.queue] = First.agents

LEMMA StepTypeOK == TypeOK /\ Updating /\ [Next]_vars => TypeOK'
<1> SUFFICES ASSUME TypeOK, Updating, [Next]_vars PROVE TypeOK'
  OBVIOUS
<1>a. /\ Idle \in Polls /\ Booting \in Polls
      /\ [Idle EXCEPT !.pc = "send"] \in Polls
      /\ \A err \in {"broken pipe", "empty", "other"} : Failed(err) \in Polls
      /\ poll.attempt = 0 => Retried \in Polls
      /\ \A pc \in {"list", "store", "update"} : [poll EXCEPT !.pc = pc] \in Polls
      /\ [poll EXCEPT !.pc = "first", !.err = "none"] \in Polls
      /\ poll.list # <<>> => First \in Summaries /\ Rest \in Polls
      /\ \A m \in Summaries : [poll EXCEPT !.list = Append(@, m)] \in Polls
  BY PollTypes
<1>b. <<>> \in Seq(Messages) /\ wire \in Seq(Messages) /\ Len(wire) \in Nat
  BY EmptySeq, LenProperties DEF TypeOK
<1>1. CASE Boot
  BY <1>1, <1>a, <1>b DEF Boot, Connect, TypeOK, asterisk, stored
<1>2. CASE Tick
  BY <1>2, <1>a DEF Tick, TypeOK, asterisk, stored, connection
<1>3. CASE Send
  <2>1. pending' \in Nat /\ link' \in {"open", "closed", "broken"}
    BY <1>3 DEF Send, TypeOK
  <2>2. poll' \in Polls
    BY <1>3, <1>a DEF Send
  <2>. QED
    BY <1>3, <2>1, <2>2 DEF Send, TypeOK, asterisk, stored
<1>4. CASE SendFails
  BY <1>4, <1>a DEF SendFails, TypeOK, asterisk, stored, connection
<1>5. CASE ReadFirst \/ ReadList
  <2>1. /\ wire \in Seq(Messages) /\ wire # <<>>
        /\ Head(wire) \in Messages /\ wire' = Tail(wire)
    BY <1>5, <1>b, HeadTailProperties DEF ReadFirst, ReadList
  <2>2. wire' \in Seq(Messages)
    BY <2>1, HeadTailProperties
  <2>. USE MessageTypes
  <2>3. poll' \in Polls
    <3>1. CASE ReadFirst
      BY <3>1, <1>a DEF ReadFirst
    <3>2. CASE ReadList
      <4>1. CASE Head(wire).kind = "QueueSummary"
        BY <3>2, <4>1, <2>1, <1>a DEF ReadList
      <4>2. CASE Head(wire).kind # "QueueSummary"
        BY <3>2, <4>2, <1>a DEF ReadList, TypeOK
      <4>. QED
        BY <4>1, <4>2
    <3>. QED
      BY <1>5, <3>1, <3>2
  <2>. QED
    BY <1>5, <2>2, <2>3 DEF ReadFirst, ReadList, TypeOK, asterisk, stored
<1>6. CASE ReadEnds
  BY <1>6, <1>a DEF ReadEnds, TypeOK, asterisk, stored, connection
<1>7. CASE GiveUp \/ RetrySame \/ Reconnect \/ ReconnectFails
  <2>1. poll' \in Polls
    BY <1>7, <1>a DEF GiveUp, RetrySame, Reconnect, ReconnectFails, MayRetry
  <2>2. link' \in {"open", "closed", "broken"} /\ pending' \in Nat
        /\ wire' \in Seq(Messages) /\ strays' \in Nat
    <3>1. CASE Reconnect
      BY <3>1, <1>b DEF Reconnect, Connect
    <3>2. CASE GiveUp \/ RetrySame \/ ReconnectFails
      BY <3>2, <1>b DEF GiveUp, RetrySame, ReconnectFails, TypeOK, connection
    <3>. QED
      BY <1>7, <3>1, <3>2
  <2>. QED
    BY <1>7, <2>1, <2>2 DEF GiveUp, RetrySame, Reconnect, ReconnectFails, TypeOK,
                            asterisk, stored
<1>8. CASE Stored
  BY <1>8, <1>a DEF Stored, TypeOK, asterisk, stored, connection
<1>9. CASE StoreNew \/ StoreMap \/ UpdateRow
  <2>1. poll.list # <<>> /\ First.queue \in Queues /\ First.agents \in Nat
    BY <1>9, <1>a DEF StoreNew, StoreMap, UpdateRow, Updating, Summaries
  <2>2. poll' \in Polls
    BY <1>9, <1>a, <2>1 DEF StoreNew, StoreMap, UpdateRow
  <2>3. queuesMap' \in [Queues -> Nat \cup {Absent}] /\ table' \in [Queues -> Nat \cup {Absent}]
    BY <1>9, <2>1 DEF StoreNew, StoreMap, UpdateRow, TypeOK
  <2>. QED
    BY <1>9, <2>2, <2>3 DEF StoreNew, StoreMap, UpdateRow, TypeOK, asterisk, connection
<1>10. CASE StoreFails
  <2>1. queuesMap' \in [Queues -> Nat \cup {Absent}]
    BY <1>10 DEF StoreFails
  <2>2. faults' \in 0..MaxFaults
    BY <1>10, Bounds DEF StoreFails, Fault, TypeOK
  <2>. QED
    BY <1>10, <1>a, <1>b, <2>1, <2>2 DEF StoreFails, TypeOK, asterisk
<1>11. CASE Answer
  <2>1. PICK order \in SetToSeqs(present) : wire' = wire \o AnswerOf(order)
    BY <1>11 DEF Answer
  <2>2. wire' \in Seq(Messages)
    BY <2>1, <1>b, AnswerShape, ConcatProperties
  <2>3. pending' \in Nat
    BY <1>11 DEF Answer, TypeOK
  <2>. QED
    BY <1>11, <2>2, <2>3 DEF Answer, TypeOK, asterisk, stored
<1>12. CASE Refuse \/ Stray
  <2>1. wire' \in Seq(Messages)
    <3>1. \A m \in Messages : Append(wire, m) \in Seq(Messages)
      BY <1>b, AppendProperties
    <3>. QED
      BY <1>12, <3>1, MessageTypes DEF Refuse, Stray
  <2>2. faults' \in 0..MaxFaults /\ pending' \in Nat /\ strays' \in Nat
    BY <1>12, Bounds DEF Refuse, Stray, Fault, TypeOK
  <2>. QED
    BY <1>12, <2>1, <2>2 DEF Refuse, Stray, TypeOK, asterisk, stored
<1>13. ASSUME NEW stops \in BOOLEAN, Drop(stops) PROVE TypeOK'
  <2>1. wire' \in Seq(Messages)
    <3>1. PICK n \in 0..Len(wire) : wire' = SubSeq(wire, 1, n)
      BY <1>13 DEF Drop
    <3>2. ASSUME NEW i \in 1..n PROVE wire[i] \in Messages
      <4>1. i \in 1..Len(wire)
        BY <1>b
      <4>. QED
        BY <1>b, <4>1, ElementOfSeq
    <3>3. 1 \in Int /\ n \in Int
      BY <1>b
    <3>. QED
      BY <3>1, <3>2, <3>3, SubSeqProperties
  <2>2. faults' \in 0..MaxFaults
    BY <1>13, Bounds DEF Drop, Fault, TypeOK
  <2>3. up' \in BOOLEAN /\ pending' \in Nat
    BY <1>13 DEF Drop
  <2>. QED
    BY <1>13, <2>1, <2>2, <2>3 DEF Drop, TypeOK, stored
<1>14. CASE AsteriskStarts
  BY <1>14 DEF AsteriskStarts, TypeOK, connection, stored
<1>15. ASSUME NEW q \in Queues, AgentsChange(q) \/ Dissolve(q) PROVE TypeOK'
  <2>1. agents' \in [Queues -> 0..MaxChanges]
    BY <1>15, Bounds DEF AgentsChange, Dissolve, TypeOK
  <2>2. present' \subseteq Queues
    BY <1>15 DEF AgentsChange, Dissolve, TypeOK
  <2>. QED
    BY <1>15, <2>1, <2>2 DEF AgentsChange, Dissolve, TypeOK, connection, stored
<1>16. CASE UNCHANGED vars
  BY <1>16 DEF vars, TypeOK, asterisk, connection, stored
<1>. QED
  BY <1>1, <1>2, <1>3, <1>4, <1>5, <1>6, <1>7, <1>8, <1>9, <1>10, <1>11, <1>12,
     <1>13, <1>14, <1>15, <1>16 DEF Next, Poller, Asterisk

-----------------------------------------------------------------------------
(* What is stored.                                                         *)

LEMMA StepUpdating == TypeOK /\ Updating /\ [Next]_vars => Updating'
<1> SUFFICES ASSUME TypeOK, Updating, [Next]_vars, poll'.pc = "update" PROVE Updating'
  BY DEF Updating
<1>1. CASE StoreMap
  <2>1. poll \in Polls /\ poll.list \in Seq(Summaries) /\ poll.list # <<>>
    BY <1>1 DEF StoreMap, TypeOK, Polls
  <2>2. poll'.list = poll.list /\ First.queue \in Queues
    <3>1. First \in Summaries /\ poll' = [poll EXCEPT !.pc = "update"]
      BY <1>1, <2>1, HeadTailProperties DEF StoreMap, First
    <3>. QED
      BY <3>1, <2>1 DEF Polls, Summaries
  <2>3. queuesMap' = [queuesMap EXCEPT ![First.queue] = First.agents]
        /\ DOMAIN queuesMap = Queues
    BY <1>1 DEF StoreMap, TypeOK
  <2>. QED
    BY <2>1, <2>2, <2>3 DEF Updating, First
<1>2. CASE ~StoreMap
  <2>1. poll' = poll
    <3>1. poll \in Polls
      BY DEF TypeOK
    <3>2. ~(Boot \/ Tick \/ Stored \/ GiveUp \/ ReconnectFails \/ StoreFails)
      <4>1. Idle.pc = "tick" /\ Booting.pc = "boot" /\ [Idle EXCEPT !.pc = "send"].pc = "send"
        BY DEF Idle, Booting
      <4>2. ~(Boot \/ Stored \/ GiveUp \/ ReconnectFails)
        BY <4>1 DEF Boot, Stored, GiveUp, ReconnectFails
      <4>3. ~(Tick \/ StoreFails)
        BY <4>1 DEF Tick, StoreFails
      <4>. QED
        BY <4>2, <4>3
    <3>3. ~(Send \/ SendFails \/ ReadEnds)
      BY <3>1 DEF Send, SendFails, ReadEnds, Failed, Polls
    <3>4. ~ReadFirst
      <4>1. ReadFirst => poll' \in {[poll EXCEPT !.pc = "list"], Failed("other"), Failed("empty")}
        BY DEF ReadFirst
      <4>. QED
        BY <4>1, <3>1 DEF Failed, Polls
    <3>5. ~ReadList
      <4>1. ReadList => \/ poll' \in {[poll EXCEPT !.pc = "store"], poll}
                        \/ \E m : poll' = [poll EXCEPT !.list = Append(@, m)]
        BY DEF ReadList
      <4>2. ReadList => poll.pc = "list"
        BY DEF ReadList
      <4>. QED
        BY <4>1, <4>2, <3>1 DEF Polls
    <3>6. ~(RetrySame \/ Reconnect)
      BY <3>1 DEF RetrySame, Reconnect, Retried, Polls
    <3>7. ~(StoreNew \/ UpdateRow)
      BY <3>1 DEF StoreNew, UpdateRow, Rest, Polls
    <3>. QED
      BY <1>2, <3>2, <3>3, <3>4, <3>5, <3>6, <3>7 DEF Next, Poller, Asterisk, Answer, Refuse,
         Stray, Drop, AsteriskStarts, AgentsChange, Dissolve, vars
  <2>2. UNCHANGED queuesMap
    BY <1>2, <2>1 DEF Next, Poller, Asterisk, Boot, Tick, Send, SendFails, ReadFirst,
                ReadList, ReadEnds, GiveUp, RetrySame, Reconnect, ReconnectFails, Stored,
                StoreNew, UpdateRow, StoreFails, Answer, Refuse, Stray, Drop,
                AsteriskStarts, AgentsChange, Dissolve, Booting, Idle, vars, stored
  <2>. QED
    BY <2>1, <2>2 DEF Updating, First
<1>. QED
  BY <1>1, <1>2

LEMMA StepMap ==
  TypeOK /\ Updating /\ MapMatchesTable /\ [Next]_vars => MapMatchesTable'
<1> SUFFICES ASSUME TypeOK, Updating, MapMatchesTable, [Next]_vars PROVE MapMatchesTable'
  OBVIOUS
<1>1. CASE poll.pc # "update" /\ UNCHANGED stored
  BY <1>1 DEF MapMatchesTable, stored
<1>2. CASE poll.pc = "update" /\ UNCHANGED <<stored, poll>>
  BY <1>2 DEF MapMatchesTable, stored, First
<1>3. CASE StoreNew
  BY <1>3 DEF StoreNew, MapMatchesTable, TypeOK
<1>4. CASE StoreMap
  <2>1. poll'.list = poll.list /\ poll'.pc = "update"
    BY <1>4 DEF StoreMap, TypeOK, Polls
  <2>2. \A q \in Queues \ {First.queue} : queuesMap'[q] = queuesMap[q] /\ table'[q] = table[q]
    BY <1>4 DEF StoreMap, TypeOK
  <2>3. poll.pc # "update"
    BY <1>4 DEF StoreMap
  <2>. QED
    BY <2>1, <2>2, <2>3 DEF MapMatchesTable, First
<1>5. CASE UpdateRow
  <2>1. queuesMap[First.queue] = First.agents
    BY <1>5 DEF UpdateRow, Updating
  <2>2. \A q \in Queues : table'[q] = IF q = First.queue THEN First.agents ELSE table[q]
    BY <1>5 DEF UpdateRow, TypeOK
  <2>3. queuesMap' = queuesMap
    BY <1>5 DEF UpdateRow
  <2>. QED
    BY <2>1, <2>2, <2>3 DEF MapMatchesTable
<1>6. CASE StoreFails
  BY <1>6 DEF StoreFails, MapMatchesTable
<1>. QED
  BY <1>1, <1>2, <1>3, <1>4, <1>5, <1>6
     DEF Next, Poller, Asterisk, Boot, Tick, Send, SendFails, ReadFirst, ReadList, ReadEnds,
         GiveUp, RetrySame, Reconnect, ReconnectFails, Stored, MayRetry, Answer, Refuse,
         Stray, Drop, AsteriskStarts, AgentsChange, Dissolve, vars

LEMMA InitPoll == Init => TypeOK /\ Updating /\ MapMatchesTable
<1> SUFFICES ASSUME Init PROVE TypeOK /\ Updating /\ MapMatchesTable
  OBVIOUS
<1>1. wire \in Seq(Messages) /\ poll \in Polls /\ poll.pc = "boot"
  BY EmptySeq DEF Init, Booting, Idle, Polls
<1>2. agents \in [Queues -> 0..MaxChanges] /\ faults \in 0..MaxFaults
  BY Bounds DEF Init
<1>. QED
  BY <1>1, <1>2 DEF Init, TypeOK, Updating, MapMatchesTable

(***************************************************************************)
(* Every variable keeps its type: no request is retried twice, and no      *)
(* summary is stored that the poll does not have.                          *)
(***************************************************************************)
THEOREM PollTypeCorrect == Spec => []TypeOK
BY InitPoll, StepTypeOK, StepUpdating, PTL DEF Spec

(***************************************************************************)
(* The agents the dialler sees are those of the table, whatever fails.     *)
(***************************************************************************)
THEOREM MapFollowsTable == Spec => []MapMatchesTable
BY InitPoll, StepTypeOK, StepUpdating, StepMap, PTL DEF Spec

-----------------------------------------------------------------------------
(* How the poll reads its connection: it is never left waiting for a list  *)
(* Asterisk does not owe, and lags behind by no more answers than it was   *)
(* sent messages it had not asked for.                                     *)

Open == {"Success", "QueueSummary"}                   \* more must follow
Inside == {"QueueSummary", "QueueSummaryComplete"}    \* something came before
Leading == {"Success", "Error", "stray"}              \* what a poll takes for a response

\* Answers come whole, up to the part that was read.
Framed(s) ==
    \A i \in 1..Len(s) :
        IF i < Len(s) THEN s[i].kind \in Open <=> s[i + 1].kind \in Inside
                      ELSE s[i].kind \notin Open

Owed(s) == Cardinality({i \in DOMAIN s : s[i].kind \in Leading})

\* What Asterisk sends at once: an answer, a refusal, an event.
Whole(u) ==
    /\ u \in Seq(Messages) /\ Len(u) >= 1 /\ Framed(u)
    /\ u[1].kind \in Leading
    /\ \A i \in 2..Len(u) : u[i].kind \notin Leading

LEMMA Kinds == \A m \in Messages : /\ m.kind \in Leading \cup Inside
                                   /\ m.kind \in Leading <=> m.kind \notin Inside
BY DEF Messages, Message, Summaries, Leading, Inside

LEMMA AnswerWhole ==
  ASSUME TypeOK, NEW order \in SetToSeqs(present)
  PROVE  Whole(AnswerOf(order))
<1> DEFINE u == AnswerOf(order)
<1>1. u \in Seq(Messages)
  BY AnswerShape
<1>2. PICK n \in Nat : /\ Len(u) = n + 2 /\ u[1].kind = "Success"
                       /\ \A i \in 2..(n + 1) : u[i].kind = "QueueSummary"
                       /\ u[n + 2].kind = "QueueSummaryComplete"
  BY AnswerShape
<1> HIDE DEF u
<1>3. Framed(u)
  <2>1. ASSUME NEW i \in 1..(n + 2)
        PROVE  IF i < n + 2 THEN u[i].kind \in Open /\ u[i + 1].kind \in Inside
                            ELSE u[i].kind \notin Open
    <3>1. CASE i = n + 2
      BY <1>2, <3>1 DEF Open
    <3>2. CASE i < n + 2
      <4>1. i = 1 \/ i \in 2..(n + 1)
        BY <3>2
      <4>2. i + 1 = n + 2 \/ i + 1 \in 2..(n + 1)
        BY <3>2
      <4>. QED
        BY <1>2, <3>2, <4>1, <4>2 DEF Open, Inside
    <3>. QED
      BY <3>1, <3>2
  <2>. QED
    BY <1>2, <2>1 DEF Framed
<1>4. \A i \in 2..Len(u) : u[i].kind \notin Leading
  <2>1. \A i \in 2..Len(u) : i \in 2..(n + 1) \/ i = n + 2
    BY <1>2
  <2>. QED
    BY <1>2, <2>1 DEF Leading
<1>5. u[1].kind \in Leading /\ Len(u) >= 1
  BY <1>2 DEF Leading
<1>6. Whole(u)
  BY <1>1, <1>3, <1>4, <1>5 DEF Whole
<1>. QED
  BY <1>6 DEF u

LEMMA MessageWhole ==
  ASSUME NEW k \in {"Error", "stray"}
  PROVE  Whole(<<Message(k)>>)
<1>1. <<Message(k)>> \in Seq(Messages) /\ Len(<<Message(k)>>) = 1
  BY MessageTypes
<1>2. <<Message(k)>>[1].kind = k
  BY DEF Message
<1>3. Framed(<<Message(k)>>)
  BY <1>1, <1>2 DEF Framed, Open
<1>. QED
  BY <1>1, <1>2, <1>3 DEF Whole, Leading

-----------------------------------------------------------------------------
(* What sending and reading do to frames and counts.                       *)

LEMMA OwedFinite ==
  ASSUME NEW s \in Seq(Messages)
  PROVE  /\ IsFiniteSet({i \in DOMAIN s : s[i].kind \in Leading})
         /\ Owed(s) \in Nat
<1>1. DOMAIN s = 1..Len(s) /\ Len(s) \in Int
  BY LenProperties
<1>2. IsFiniteSet(1..Len(s))
  BY <1>1, FS_Interval
<1>. QED
  BY <1>1, <1>2, FS_Subset, FS_CardinalityType DEF Owed

LEMMA SendWhole ==
  ASSUME NEW s \in Seq(Messages), NEW u, Whole(u), Framed(s)
  PROVE  /\ s \o u \in Seq(Messages) /\ s \o u # <<>>
         /\ Framed(s \o u)
         /\ Owed(s \o u) = Owed(s) + 1
         /\ (s \o u)[1] = IF s = <<>> THEN u[1] ELSE s[1]
<1> DEFINE t == s \o u
           m == Len(s)
           n == Len(u)
<1>1. m \in Nat /\ n \in Nat /\ n >= 1 /\ u \in Seq(Messages)
      /\ DOMAIN s = 1..m /\ (s = <<>> <=> m = 0)
  BY LenProperties, EmptySeq DEF Whole
<1>2. /\ t \in Seq(Messages) /\ Len(t) = m + n /\ DOMAIN t = 1..(m + n)
      /\ \A i \in 1..(m + n) : t[i] = IF i <= m THEN s[i] ELSE u[i - m]
  BY <1>1, ConcatProperties, LenProperties
<1>3. u[1].kind \in Leading /\ u[1].kind \notin Inside
  BY DEF Whole, Leading, Inside
<1> HIDE DEF t, m, n
<1>4. Framed(t)
  <2>1. ASSUME NEW i \in 1..(m + n)
        PROVE  IF i < m + n THEN t[i].kind \in Open <=> t[i + 1].kind \in Inside
                            ELSE t[i].kind \notin Open
    <3>1. CASE i < m
      <4>1. i \in 1..m /\ i + 1 \in 1..m /\ t[i] = s[i] /\ t[i + 1] = s[i + 1]
        BY <1>1, <1>2, <3>1
      <4>. QED
        BY <1>1, <3>1, <4>1 DEF Framed, m
    <3>2. CASE i = m
      <4>1. t[i] = s[m] /\ t[i + 1] = u[1] /\ m \in 1..m /\ i < m + n
        BY <1>1, <1>2, <3>2
      <4>2. s[m].kind \notin Open
        BY <1>1, <4>1 DEF Framed, m
      <4>. QED
        BY <4>1, <4>2, <1>3
    <3>3. CASE i > m
      <4>1. i - m \in 1..n /\ t[i] = u[i - m]
        BY <1>1, <1>2, <3>3
      <4>2. CASE i < m + n
        <5>1. i - m < n /\ t[i + 1] = u[i - m + 1]
          <6>1. i + 1 \in 1..(m + n) /\ (i + 1) - m = i - m + 1
            BY <1>1, <4>2
          <6>. QED
            BY <1>1, <1>2, <3>3, <4>2, <6>1
        <5>. QED
          BY <4>1, <4>2, <5>1 DEF Whole, Framed, n
      <4>3. CASE ~(i < m + n)
        <5>1. ~(i - m < n)
          BY <1>1, <4>3
        <5>. QED
          BY <4>1, <4>3, <5>1 DEF Whole, Framed, n
      <4>. QED
        BY <4>2, <4>3
    <3>. QED
      BY <1>1, <3>1, <3>2, <3>3
  <2>. QED
    BY <1>2, <2>1 DEF Framed
<1>5. Owed(t) = Owed(s) + 1
  <2> DEFINE A == {i \in DOMAIN s : s[i].kind \in Leading}
             B == {i \in DOMAIN t : t[i].kind \in Leading}
  <2>1. ASSUME NEW i \in 1..(m + n)
        PROVE  t[i].kind \in Leading <=> i \in A \cup {m + 1}
    <3>1. CASE i <= m
      BY <1>1, <1>2, <3>1
    <3>2. CASE i = m + 1
      BY <1>1, <1>2, <1>3, <3>2
    <3>3. CASE i > m + 1
      <4>1. i - m \in 2..n /\ t[i] = u[i - m]
        BY <1>1, <1>2, <3>3
      <4>2. t[i].kind \notin Leading
        BY <4>1 DEF Whole, n
      <4>. QED
        BY <1>1, <3>3, <4>2
    <3>. QED
      BY <1>1, <3>1, <3>2, <3>3
  <2>2. A \cup {m + 1} \subseteq 1..(m + n)
    BY <1>1
  <2>3. B = A \cup {m + 1}
    BY <1>2, <2>1, <2>2
  <2>4. m + 1 \notin A
    BY <1>1
  <2>5. IsFiniteSet(A)
    BY OwedFinite
  <2>. QED
    BY <2>3, <2>4, <2>5, FS_AddElement DEF Owed
<1>6. t[1] = IF s = <<>> THEN u[1] ELSE s[1]
  BY <1>1, <1>2
<1>7. t # <<>>
  BY <1>1, <1>2, EmptySeq
<1>. QED
  BY <1>2, <1>4, <1>5, <1>6, <1>7 DEF t

LEMMA ReadOne ==
  ASSUME NEW s \in Seq(Messages), s # <<>>, Framed(s)
  PROVE  /\ Tail(s) \in Seq(Messages) /\ Framed(Tail(s)) /\ Head(s) = s[1]
         /\ Head(s).kind \in Open => Tail(s) # <<>>
         /\ Tail(s) # <<>> => (Head(s).kind \in Open <=> Tail(s)[1].kind \in Inside)
         /\ Owed(s) = Owed(Tail(s)) + (IF Head(s).kind \in Leading THEN 1 ELSE 0)
<1> DEFINE t == Tail(s)
           n == Len(s)
<1>1. n \in Nat \ {0} /\ DOMAIN s = 1..n /\ Head(s) = s[1]
  BY EmptySeq, LenProperties
<1>2. /\ t \in Seq(Messages) /\ Len(t) = n - 1 /\ DOMAIN t = 1..(n - 1)
      /\ \A i \in 1..(n - 1) : t[i] = s[i + 1]
  BY HeadTailProperties, LenProperties
<1> HIDE DEF t, n
<1>3. t # <<>> <=> n > 1
  <2>1. t # <<>> => Len(t) \in Nat \ {0}
    BY <1>2, EmptySeq
  <2>2. t = <<>> => Len(t) = 0
    BY EmptySeq
  <2>. QED
    BY <1>1, <1>2, <2>1, <2>2
<1>4. Framed(t)
  <2>1. ASSUME NEW i \in 1..(n - 1)
        PROVE  IF i < n - 1 THEN t[i].kind \in Open <=> t[i + 1].kind \in Inside
                            ELSE t[i].kind \notin Open
    <3>1. t[i] = s[i + 1] /\ i + 1 \in 1..n /\ (i < n - 1 <=> i + 1 < n)
      BY <1>1, <1>2
    <3>2. i < n - 1 => t[i + 1] = s[(i + 1) + 1]
      BY <1>1, <1>2
    <3>. QED
      BY <3>1, <3>2 DEF Framed, n
  <2>. QED
    BY <1>2, <2>1 DEF Framed
<1>5. s[1].kind \in Open => t # <<>>
  BY <1>1, <1>3 DEF Framed, n
<1>6. t # <<>> => (s[1].kind \in Open <=> t[1].kind \in Inside)
  <2>. SUFFICES ASSUME t # <<>> PROVE s[1].kind \in Open <=> t[1].kind \in Inside
    OBVIOUS
  <2>1. 1 < n /\ 1 \in 1..n /\ t[1] = s[1 + 1]
    BY <1>1, <1>2, <1>3
  <2>. QED
    BY <2>1 DEF Framed, n
<1>7. Owed(s) = Owed(t) + (IF s[1].kind \in Leading THEN 1 ELSE 0)
  <2> DEFINE A == {i \in DOMAIN t : t[i].kind \in Leading}
             B == {i \in DOMAIN s : s[i].kind \in Leading}
             C == B \ {1}
             f == [i \in A |-> i + 1]
  <2>1. A \subseteq 1..(n - 1) /\ C \subseteq 2..n
    BY <1>1, <1>2
  <2>2. \A i \in 1..(n - 1) : i \in A <=> i + 1 \in C
    BY <1>1, <1>2
  <2>3. f \in [A -> C]
    BY <2>1, <2>2
  <2>4. \A i, j \in A : f[i] = f[j] => i = j
    BY <2>1
  <2>5. \A c \in C : \E i \in A : f[i] = c
    <3>1. ASSUME NEW c \in C PROVE c - 1 \in A /\ f[c - 1] = c
      <4>1. c - 1 \in 1..(n - 1) /\ (c - 1) + 1 = c
        BY <1>1, <2>1
      <4>2. c - 1 \in A
        BY <2>2, <4>1
      <4>. QED
        BY <4>1, <4>2
    <3>. QED
      BY <3>1
  <2>6. ExistsBijection(A, C)
    <3>1. f \in Bijection(A, C)
      BY <2>3, <2>4, <2>5 DEF Bijection, Injection, Surjection, IsInjective
    <3>. QED
      BY <3>1 DEF ExistsBijection
  <2>7. IsFiniteSet(A) /\ IsFiniteSet(B) /\ Owed(t) \in Nat
    BY <1>2, OwedFinite
  <2>8. Cardinality(C) = Cardinality(A)
    BY <2>6, <2>7, FS_Bijection
  <2>9. Cardinality(C) = IF 1 \in B THEN Cardinality(B) - 1 ELSE Cardinality(B)
    BY <2>7, FS_RemoveElement
  <2>10. 1 \in B <=> s[1].kind \in Leading
    BY <1>1
  <2>11. Owed(t) = Cardinality(A) /\ Owed(s) = Cardinality(B) /\ Cardinality(B) \in Nat
    BY <2>7, FS_CardinalityType DEF Owed
  <2> HIDE DEF A, B, C, f
  <2>12. CASE 1 \in B
    <3>1. Cardinality(B) = Cardinality(A) + 1
      BY <2>8, <2>9, <2>11, <2>12
    <3>. QED
      BY <2>10, <2>11, <2>12, <3>1
  <2>13. CASE 1 \notin B
    <3>1. Owed(s) = Owed(t)
      BY <2>8, <2>9, <2>11, <2>13
    <3>. QED
      BY <2>7, <2>10, <2>13, <3>1
  <2>. QED
    BY <2>12, <2>13
<1>. QED
  BY <1>1, <1>2, <1>4, <1>5, <1>6, <1>7 DEF t

-----------------------------------------------------------------------------

(***************************************************************************)
(* On an open connection the poll is inside an answer exactly when it      *)
(* reads a list, and then the rest of the answer is there to be read.      *)
(***************************************************************************)
Framing ==
    link = "open" =>
        /\ Framed(wire)
        /\ wire # <<>> => (wire[1].kind \in Inside <=> poll.pc = "list")
        /\ poll.pc = "list" => wire # <<>>
        /\ poll.pc = "first" => wire # <<>> \/ pending > 0

Lag ==
    link = "open" =>
        pending + Owed(wire) <= strays + (IF poll.pc = "first" THEN 1 ELSE 0)

InStep == TypeOK /\ Updating /\ Framing /\ Lag

LEMMA InitInStep == Init => InStep
  BY InitPoll DEF Init, InStep, Framing, Lag

\* The goroutine goes on without reading or writing.
LEMMA StepAside ==
  ASSUME InStep, UNCHANGED connection,
         poll' = poll \/ {poll.pc, poll'.pc} \cap {"first", "list"} = {}
  PROVE  Framing' /\ Lag'
<1>1. link' = link /\ pending' = pending /\ wire' = wire /\ strays' = strays
  BY DEF connection
<1>2. \A pc \in {"first", "list"} : poll'.pc = pc <=> poll.pc = pc
  OBVIOUS
<1>. QED
  BY <1>1, <1>2 DEF InStep, Framing, Lag

\* Asterisk sends something whole.
LEMMA StepWhole ==
  ASSUME InStep, link = "open", NEW u, Whole(u), wire' = wire \o u,
         UNCHANGED <<link, poll>>,
         \/ pending > 0 /\ pending' = pending - 1 /\ strays' = strays
         \/ pending' = pending /\ strays' = strays + 1
  PROVE  Framing' /\ Lag'
<1>1. /\ wire \in Seq(Messages) /\ Framed(wire) /\ Owed(wire) \in Nat
      /\ pending \in Nat /\ strays \in Nat
  BY OwedFinite DEF InStep, Framing, TypeOK
<1>2. /\ wire' # <<>> /\ Framed(wire') /\ Owed(wire') = Owed(wire) + 1
      /\ wire'[1] = IF wire = <<>> THEN u[1] ELSE wire[1]
  BY <1>1, SendWhole
<1>3. u[1].kind \notin Inside
  BY DEF Whole, Leading, Inside
<1>4. wire'[1].kind \in Inside <=> poll'.pc = "list"
  BY <1>2, <1>3 DEF InStep, Framing
<1>5. Framing'
  BY <1>2, <1>4 DEF Framing
<1>6. Lag'
  BY <1>1, <1>2 DEF InStep, Lag
<1>. QED
  BY <1>5, <1>6

\* The goroutine reads a message.
LEMMA StepRead ==
  ASSUME InStep, ReadFirst \/ ReadList
  PROVE  Framing' /\ Lag'
<1>. SUFFICES ASSUME link = "open" PROVE Framing' /\ Lag'
  BY DEF ReadFirst, ReadList, Framing, Lag
<1>1. /\ wire \in Seq(Messages) /\ wire # <<>> /\ Framed(wire) /\ wire' = Tail(wire)
      /\ pending' = pending /\ strays' = strays /\ link' = link
      /\ pending \in Nat /\ strays \in Nat
  BY DEF InStep, Framing, TypeOK, ReadFirst, ReadList
<1>2. /\ wire' \in Seq(Messages) /\ Framed(wire') /\ Head(wire) = wire[1]
      /\ Head(wire).kind \in Open => wire' # <<>>
      /\ wire' # <<>> => (Head(wire).kind \in Open <=> wire'[1].kind \in Inside)
      /\ Owed(wire) = Owed(wire') + (IF Head(wire).kind \in Leading THEN 1 ELSE 0)
      /\ Owed(wire') \in Nat /\ Owed(wire) \in Nat
  BY <1>1, ReadOne, OwedFinite
<1>3. Head(wire) \in Messages
  BY <1>1, HeadTailProperties
<1>4. poll \in Polls
  BY DEF InStep, TypeOK
<1>5. CASE ReadFirst
  <2>1. poll.pc = "first" /\ Head(wire).kind \in Leading
    BY <1>1, <1>2, <1>3, <1>5, Kinds DEF ReadFirst, InStep, Framing
  <2>2. poll'.pc # "first" /\ (poll'.pc = "list" <=> Head(wire).kind = "Success")
    BY <1>4, <1>5 DEF ReadFirst, Failed, Polls
  <2>3. Head(wire).kind = "Success" <=> Head(wire).kind \in Open
    BY <2>1 DEF Leading, Open
  <2>4. Framing'
    BY <1>1, <1>2, <2>2, <2>3 DEF Framing
  <2>5. Lag'
    BY <1>1, <1>2, <2>1, <2>2 DEF InStep, Lag
  <2>. QED
    BY <2>4, <2>5
<1>6. CASE ReadList
  <2>1. poll.pc = "list" /\ Head(wire).kind \in Inside /\ Head(wire).kind \notin Leading
    BY <1>1, <1>2, <1>3, <1>6, Kinds DEF ReadList, InStep, Framing
  <2>2. poll'.pc # "first" /\ (poll'.pc = "list" <=> Head(wire).kind = "QueueSummary")
    BY <1>4, <1>6, <2>1 DEF ReadList, Inside, Polls
  <2>3. Head(wire).kind = "QueueSummary" <=> Head(wire).kind \in Open
    BY <2>1 DEF Inside, Open
  <2>4. Framing'
    BY <1>1, <1>2, <2>2, <2>3 DEF Framing
  <2>5. Lag'
    BY <1>1, <1>2, <2>1, <2>2 DEF InStep, Lag
  <2>. QED
    BY <2>4, <2>5
<1>. QED
  BY <1>5, <1>6

LEMMA StepInStep == InStep /\ [Next]_vars => InStep'
<1> SUFFICES ASSUME InStep, [Next]_vars PROVE InStep'
  OBVIOUS
<1>1. TypeOK' /\ Updating'
  BY StepTypeOK, StepUpdating DEF InStep
<1>2. poll \in Polls
  BY DEF InStep, TypeOK
<1>3. Idle.pc = "tick" /\ [Idle EXCEPT !.pc = "send"].pc = "send"
      /\ Retried.pc = "send" /\ Rest.pc = "store"
      /\ [poll EXCEPT !.pc = "update"].pc = "update"
  BY <1>2 DEF Idle, Retried, Rest, Polls
<1>4. CASE Boot \/ Reconnect
  <2>1. /\ link' = "open" /\ pending' = 0 /\ wire' = <<>> /\ strays' = 0
        /\ poll'.pc \notin {"first", "list"}
    BY <1>3, <1>4 DEF Boot, Reconnect, Connect
  <2>2. Framed(wire') /\ Owed(wire') = 0
    BY <2>1, FS_EmptySet DEF Framed, Owed
  <2>. QED
    BY <1>1, <2>1, <2>2 DEF InStep, Framing, Lag
<1>5. CASE Send
  <2>1. CASE link = "open"
    <3>1. /\ pending' = pending + 1 /\ link' = link /\ wire' = wire /\ strays' = strays
          /\ poll.pc = "send" /\ poll'.pc = "first"
      BY <1>2, <1>5, <2>1 DEF Send, Polls
    <3>2. pending \in Nat /\ strays \in Nat /\ Owed(wire) \in Nat
      BY OwedFinite DEF InStep, TypeOK
    <3>3. Framing'
      BY <2>1, <3>1, <3>2 DEF InStep, Framing
    <3>4. Lag'
      BY <2>1, <3>1, <3>2 DEF InStep, Lag
    <3>. QED
      BY <1>1, <3>3, <3>4 DEF InStep
  <2>2. CASE link # "open"
    BY <1>1, <1>5, <2>2 DEF Send, InStep, Framing, Lag
  <2>. QED
    BY <2>1, <2>2
<1>6. CASE SendFails \/ ReadEnds \/ StoreFails \/ \E stops \in BOOLEAN : Drop(stops)
  <2>1. link' # "open"
    BY <1>6 DEF SendFails, ReadEnds, StoreFails, Drop
  <2>. QED
    BY <1>1, <2>1 DEF InStep, Framing, Lag
<1>7. CASE ReadFirst \/ ReadList
  BY <1>1, <1>7, StepRead DEF InStep
<1>8. CASE Tick \/ GiveUp \/ RetrySame \/ ReconnectFails \/ Stored \/ StoreNew \/ StoreMap
           \/ UpdateRow
  <2>1. /\ UNCHANGED connection
        /\ poll.pc \notin {"first", "list"} /\ poll'.pc \notin {"first", "list"}
    BY <1>3, <1>8 DEF Tick, GiveUp, RetrySame, ReconnectFails, Stored, StoreNew, StoreMap,
                      UpdateRow, MayRetry
  <2>. QED
    BY <1>1, <2>1, StepAside DEF InStep
<1>9. CASE Answer
  <2>1. PICK order \in SetToSeqs(present) : wire' = wire \o AnswerOf(order)
    BY <1>9 DEF Answer
  <2>2. Whole(AnswerOf(order))
    BY AnswerWhole DEF InStep
  <2>. QED
    BY <1>1, <1>9, <2>1, <2>2, StepWhole DEF InStep, Answer
<1>10. CASE Refuse \/ Stray
  <2>1. PICK k \in {"Error", "stray"} : wire' = Append(wire, Message(k))
    BY <1>10 DEF Refuse, Stray
  <2>2. wire' = wire \o <<Message(k)>>
    BY <2>1, MessageTypes, AppendIsConcat DEF InStep, TypeOK
  <2>3. Whole(<<Message(k)>>)
    BY MessageWhole
  <2>. QED
    BY <1>1, <1>10, <2>2, <2>3, StepWhole DEF InStep, Refuse, Stray
<1>11. CASE AsteriskStarts \/ (\E q \in Queues : AgentsChange(q) \/ Dissolve(q))
            \/ UNCHANGED vars
  <2>1. UNCHANGED <<connection, poll>>
    BY <1>11 DEF AsteriskStarts, AgentsChange, Dissolve, vars
  <2>. QED
    BY <1>1, <2>1, StepAside DEF InStep
<1>. QED
  BY <1>4, <1>5, <1>6, <1>7, <1>8, <1>9, <1>10, <1>11 DEF Next, Poller, Asterisk

(***************************************************************************)
(* Whatever is retried, refused, lost or left over, the poll waits on an   *)
(* open and silent connection only for an answer Asterisk owes it.         *)
(***************************************************************************)
THEOREM NeverWaitsInVain == Spec => []BlockedOnlyOnSilence
<1>1. InStep => BlockedOnlyOnSilence
  BY DEF InStep, Framing, BlockedOnlyOnSilence
<1>. QED
  BY <1>1, InitInStep, StepInStep, PTL DEF Spec

(***************************************************************************)
(* Between two polls no more answers are still to come than there were     *)
(* messages nobody asked for.                                              *)
(***************************************************************************)
THEOREM LagIsBounded == Spec => []LagBounded
<1>1. ASSUME InStep PROVE LagBounded
  <2>1. wire \in Seq(Messages) /\ pending \in Nat
    BY <1>1 DEF InStep, TypeOK
  <2>2. Answers(wire) \in Nat /\ Answers(wire) <= Owed(wire) /\ Owed(wire) \in Nat
    <3>1. {i \in DOMAIN wire : wire[i].kind \in {"Success", "Error"}}
            \subseteq {i \in DOMAIN wire : wire[i].kind \in Leading}
      BY DEF Leading
    <3>. QED
      BY <2>1, <3>1, OwedFinite, FS_Subset, FS_CardinalityType DEF Answers, Owed
  <2>. SUFFICES ASSUME poll.pc = "tick", link = "open"
                PROVE  pending + Answers(wire) <= strays
    BY DEF LagBounded
  <2>3. pending + Owed(wire) <= strays + 0 /\ strays \in Nat
    BY <1>1 DEF InStep, Lag, TypeOK
  <2>. QED
    BY <2>1, <2>2, <2>3
<1>. QED
  BY <1>1, InitInStep, StepInStep, PTL DEF Spec

====
