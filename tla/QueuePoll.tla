----------------------------- MODULE QueuePoll -----------------------------
(***************************************************************************)
(* The goroutine initAMI: once a second it asks Asterisk for a summary of  *)
(* its queues over an AMI connection (queueSummaryWithRetry and            *)
(* getAMIMessageList), and stores what it reads in the table queues and in *)
(* queuesMap, where the dispatcher looks for free agents.                  *)
(*                                                                         *)
(* Every request of a connection carries the same ActionID, so an answer   *)
(* is matched to a request by its place in the stream only.                *)
(***************************************************************************)
EXTENDS Integers, Sequences, FiniteSets, SequencesExt

CONSTANTS
    Queues,       \* Asterisk queues, as QueueSummary names them
    NoQueue,      \* a message that is not about a queue
    MaxChanges,   \* BOUND on how often the agents of a queue change
    MaxFaults     \* BOUND on lost connections, odd answers and failed statements

ASSUME FiniteQueues == IsFiniteSet(Queues)
ASSUME NoQueueFresh == NoQueue \notin Queues
ASSUME Bounds == MaxChanges \in Nat /\ MaxFaults \in Nat

VARIABLES
    agents,     \* Asterisk: the state of each queue, as a count of its changes
    present,    \* Asterisk: the queues it has
    up,         \* Asterisk accepts connections
    link,       \* the connection: open, closed (by Asterisk), broken (we know)
    pending,    \* requests Asterisk has not answered
    wire,       \* messages sent to us and not read
    strays,     \* history: messages of this connection that answer no request
    poll,       \* the goroutine
    queuesMap,  \* the state of each queue as last stored, or Absent
    table,      \* the same in the table queues
    faults

asterisk == <<agents, present, up>>
connection == <<link, pending, wire, strays>>
stored == <<queuesMap, table>>
vars == <<asterisk, connection, poll, stored, faults>>

-----------------------------------------------------------------------------

Absent == -1

Message(kind) == [kind |-> kind, queue |-> NoQueue, agents |-> 0]
Summary(q) == [kind |-> "QueueSummary", queue |-> q, agents |-> agents[q]]
Summaries == [kind : {"QueueSummary"}, queue : Queues, agents : Nat]
Messages ==
    Summaries \cup {Message(k) : k \in {"Success", "Error", "stray", "QueueSummaryComplete"}}

(***************************************************************************)
(* boot: not connected yet; tick: waits for the ticker; send; first: waits *)
(* for the response; list: reads the summaries; failed: the request ended  *)
(* with err; store and update: in the loop over the summaries.             *)
(***************************************************************************)
Polls == [pc : {"boot", "tick", "send", "first", "list", "failed", "store", "update"},
          attempt : {0, 1}, list : Seq(Summaries),
          err : {"none", "broken pipe", "empty", "other"}]

Idle == [pc |-> "tick", attempt |-> 0, list |-> <<>>, err |-> "none"]
Booting == [Idle EXCEPT !.pc = "boot"]
Failed(err) == [poll EXCEPT !.pc = "failed", !.list = <<>>, !.err = err]

TypeOK ==
    /\ agents \in [Queues -> 0..MaxChanges]
    /\ present \subseteq Queues
    /\ up \in BOOLEAN
    /\ link \in {"open", "closed", "broken"}
    /\ pending \in Nat
    /\ wire \in Seq(Messages)
    /\ strays \in Nat
    /\ poll \in Polls
    /\ queuesMap \in [Queues -> Nat \cup {Absent}]
    /\ table \in [Queues -> Nat \cup {Absent}]
    /\ faults \in 0..MaxFaults

Init ==
    /\ agents = [q \in Queues |-> 0]
    /\ present = Queues
    /\ up = TRUE
    /\ link = "broken" /\ pending = 0 /\ wire = <<>> /\ strays = 0
    /\ poll = Booting
    /\ queuesMap = [q \in Queues |-> Absent]
    /\ table = [q \in Queues |-> Absent]
    /\ faults = 0

Fault == faults < MaxFaults /\ faults' = faults + 1

-----------------------------------------------------------------------------
(* The connection, and one request on it (getAMIMessageList).              *)

\* NewAsterisk: a connection of its own, with nothing on it.
Connect ==
    /\ up
    /\ link' = "open" /\ pending' = 0 /\ wire' = <<>> /\ strays' = 0

\* A failure ends the process, which is restarted: boot waits for Asterisk.
Boot ==
    /\ poll.pc = "boot"
    /\ Connect
    /\ poll' = Idle
    /\ UNCHANGED <<asterisk, stored, faults>>

Tick ==
    /\ poll.pc = "tick"
    /\ poll' = [Idle EXCEPT !.pc = "send"]
    /\ UNCHANGED <<asterisk, connection, stored, faults>>

\* Writing to a connection that Asterisk has closed may still succeed, once.
Send ==
    /\ poll.pc = "send" /\ link # "broken"
    /\ IF link = "open" THEN pending' = pending + 1 /\ UNCHANGED link
                        ELSE link' = "broken" /\ UNCHANGED pending
    /\ poll' = [poll EXCEPT !.pc = "first", !.err = "none"]
    /\ UNCHANGED <<asterisk, wire, strays, stored, faults>>

SendFails ==
    /\ poll.pc = "send" /\ link # "open"
    /\ link' = "broken"
    /\ poll' = Failed("broken pipe")
    /\ UNCHANGED <<asterisk, pending, wire, strays, stored, faults>>

\* The first message must be a response; an event has no Message to tell.
ReadFirst ==
    /\ poll.pc = "first" /\ wire # <<>>
    /\ poll' = CASE Head(wire).kind = "Success" -> [poll EXCEPT !.pc = "list"]
                 [] Head(wire).kind = "Error" -> Failed("other")
                 [] OTHER -> Failed("empty")
    /\ wire' = Tail(wire)
    /\ UNCHANGED <<asterisk, link, pending, strays, stored, faults>>

\* Mutants of ReadList: the first summary ends the list; nothing does.
ReadListFirstOnly ==
    /\ poll.pc = "list" /\ wire # <<>>
    /\ LET message == Head(wire)
       IN  poll' = CASE message.kind = "QueueSummaryComplete" -> [poll EXCEPT !.pc = "store"]
                     [] message.kind = "QueueSummary" ->
                          [poll EXCEPT !.pc = "store", !.list = <<message>>]
                     [] OTHER -> poll
    /\ wire' = Tail(wire)
    /\ UNCHANGED <<asterisk, link, pending, strays, stored, faults>>

ReadListForever ==
    /\ poll.pc = "list" /\ wire # <<>>
    /\ LET message == Head(wire)
       IN  poll' = IF message.kind = "QueueSummary"
                   THEN [poll EXCEPT !.list = Append(@, message)] ELSE poll
    /\ wire' = Tail(wire)
    /\ UNCHANGED <<asterisk, link, pending, strays, stored, faults>>

ReadList ==
    /\ poll.pc = "list" /\ wire # <<>>
    /\ LET message == Head(wire)
       IN  poll' = CASE message.kind = "QueueSummaryComplete" -> [poll EXCEPT !.pc = "store"]
                     [] message.kind = "QueueSummary" ->
                          [poll EXCEPT !.list = Append(@, message)]
                     [] OTHER -> poll
    /\ wire' = Tail(wire)
    /\ UNCHANGED <<asterisk, link, pending, strays, stored, faults>>

\* Nothing more will come: EOF, whose text no one takes for a broken pipe.
ReadEnds ==
    /\ poll.pc \in {"first", "list"} /\ wire = <<>> /\ link # "open"
    /\ link' = "broken"
    /\ poll' = Failed("other")
    /\ UNCHANGED <<asterisk, pending, wire, strays, stored, faults>>

-----------------------------------------------------------------------------
(* queueSummaryWithRetry: a second attempt after an error without a text,  *)
(* and, over a new connection, after a broken pipe.                        *)

\* Mutant of MayRetry: the attempts are not counted.
MayRetryAlways(err) == poll.pc = "failed" /\ poll.err = err

MayRetry(err) == poll.pc = "failed" /\ poll.err = err /\ poll.attempt = 0

Retried == [poll EXCEPT !.pc = "send", !.attempt = @ + 1]

GiveUp ==
    /\ poll.pc = "failed"
    /\ ~MayRetry("empty") /\ ~MayRetry("broken pipe")
    /\ poll' = Idle
    /\ UNCHANGED <<asterisk, connection, stored, faults>>

RetrySame ==
    /\ MayRetry("empty")
    /\ poll' = Retried
    /\ UNCHANGED <<asterisk, connection, stored, faults>>

\* Mutant of Reconnect: the old connection is returned.
ReconnectKeepsOld ==
    /\ MayRetry("broken pipe")
    /\ up
    /\ poll' = Retried
    /\ UNCHANGED <<asterisk, connection, stored, faults>>

Reconnect ==
    /\ MayRetry("broken pipe")
    /\ Connect
    /\ poll' = Retried
    /\ UNCHANGED <<asterisk, stored, faults>>

ReconnectFails ==
    /\ MayRetry("broken pipe")
    /\ ~up
    /\ poll' = Idle
    /\ UNCHANGED <<asterisk, connection, stored, faults>>

-----------------------------------------------------------------------------
(* The loop over the summaries, and UpdateQueueSummary.                    *)

First == Head(poll.list)
Rest == [poll EXCEPT !.pc = "store", !.list = Tail(@)]

Stored ==
    /\ poll.pc = "store" /\ poll.list = <<>>
    /\ poll' = Idle
    /\ UNCHANGED <<asterisk, connection, stored, faults>>

\* A queue without a row gets one; queuesMap is left to the next poll.
StoreNew ==
    /\ poll.pc = "store" /\ poll.list # <<>>
    /\ table[First.queue] = Absent
    /\ table' = [table EXCEPT ![First.queue] = First.agents]
    /\ poll' = Rest
    /\ UNCHANGED <<asterisk, connection, queuesMap, faults>>

StoreMap ==
    /\ poll.pc = "store" /\ poll.list # <<>>
    /\ table[First.queue] # Absent
    /\ queuesMap' = [queuesMap EXCEPT ![First.queue] = First.agents]
    /\ poll' = [poll EXCEPT !.pc = "update"]
    /\ UNCHANGED <<asterisk, connection, table, faults>>

UpdateRow ==
    /\ poll.pc = "update"
    /\ table' = [table EXCEPT ![First.queue] = First.agents]
    /\ poll' = Rest
    /\ UNCHANGED <<asterisk, connection, queuesMap, faults>>

\* Mutant of StoreFails: the error is ignored.
StoreFailsIgnored ==
    /\ poll.pc \in {"store", "update"} /\ poll.list # <<>>
    /\ Fault
    /\ poll' = Rest
    /\ UNCHANGED <<asterisk, connection, stored>>

\* A failed statement ends the process; it starts again with an empty map.
StoreFails ==
    /\ poll.pc \in {"store", "update"} /\ poll.list # <<>>
    /\ Fault
    /\ poll' = Booting
    /\ queuesMap' = [q \in Queues |-> Absent]
    /\ link' = "broken" /\ pending' = 0 /\ wire' = <<>> /\ strays' = 0
    /\ UNCHANGED <<asterisk, table>>

Poller ==
    \/ Boot \/ Tick \/ Send \/ SendFails
    \/ ReadFirst \/ ReadList \/ ReadEnds
    \/ GiveUp \/ RetrySame \/ Reconnect \/ ReconnectFails
    \/ Stored \/ StoreNew \/ StoreMap \/ UpdateRow

-----------------------------------------------------------------------------
(* Asterisk.                                                               *)

\* The answer to a request: its response, the summaries and the end of the list.
AnswerOf(order) ==
    <<Message("Success")>> \o [i \in DOMAIN order |-> Summary(order[i])]
                           \o <<Message("QueueSummaryComplete")>>

Answer ==
    /\ link = "open" /\ pending > 0
    /\ pending' = pending - 1
    /\ \E order \in SetToSeqs(present) : wire' = wire \o AnswerOf(order)
    /\ UNCHANGED <<asterisk, link, strays, poll, stored, faults>>

Refuse ==
    /\ link = "open" /\ pending > 0
    /\ Fault
    /\ pending' = pending - 1
    /\ wire' = Append(wire, Message("Error"))
    /\ UNCHANGED <<asterisk, link, strays, poll, stored>>

\* An event nobody asked for, although the login switches events off.
Stray ==
    /\ link = "open"
    /\ Fault
    /\ wire' = Append(wire, Message("stray"))
    /\ strays' = strays + 1
    /\ UNCHANGED <<asterisk, link, pending, poll, stored>>

\* The connection ends, because Asterisk stops or not; what was sent last is lost.
Drop(stops) ==
    /\ link = "open" /\ up
    /\ Fault
    /\ link' = "closed" /\ pending' = 0
    /\ \E n \in 0..Len(wire) : wire' = SubSeq(wire, 1, n)
    /\ up' = ~stops
    /\ UNCHANGED <<agents, present, strays, poll, stored>>

AsteriskStarts ==
    /\ ~up /\ up' = TRUE
    /\ UNCHANGED <<agents, present, connection, poll, stored, faults>>

AgentsChange(q) ==
    /\ q \in present /\ agents[q] < MaxChanges
    /\ agents' = [agents EXCEPT ![q] = @ + 1]
    /\ UNCHANGED <<present, up, connection, poll, stored, faults>>

\* The queue is taken out of Asterisk's configuration.
Dissolve(q) ==
    /\ q \in present /\ present' = present \ {q}
    /\ UNCHANGED <<agents, up, connection, poll, stored, faults>>

Asterisk ==
    \/ Answer \/ Refuse \/ Stray \/ AsteriskStarts
    \/ \E stops \in BOOLEAN : Drop(stops)
    \/ \E q \in Queues : AgentsChange(q) \/ Dissolve(q)

Next == Poller \/ StoreFails \/ Asterisk

Spec == Init /\ [][Next]_vars

\* The ticker and the scheduler run the poll; Asterisk answers what it is
\* asked and is started again.  Without the second the poll waits for ever:
\* the timeout of its context is not looked at.
LiveSpec == Spec /\ WF_vars(Poller) /\ WF_vars(Answer) /\ WF_vars(AsteriskStarts)

-----------------------------------------------------------------------------

Answers(s) == Cardinality({i \in DOMAIN s : s[i].kind \in {"Success", "Error"}})

(***************************************************************************)
(* A request that fails without reading its answer leaves it behind, and   *)
(* every later one reads an older answer than its own.  Retries, refusals, *)
(* lost connections and lists cut short add nothing to that lag: between   *)
(* two polls the answers still to come are no more than the unsolicited    *)
(* messages of the connection.                                             *)
(***************************************************************************)
LagBounded ==
    poll.pc = "tick" /\ link = "open" => pending + Answers(wire) <= strays

(***************************************************************************)
(* The poll never waits for a message that nobody will send: when it reads *)
(* an open connection with nothing on it, Asterisk owes an answer.  Behind *)
(* left-over answers and skipped events, too, the end of a list comes.     *)
(***************************************************************************)
BlockedOnlyOnSilence ==
    poll.pc \in {"first", "list"} /\ link = "open" /\ wire = <<>> => pending > 0

(***************************************************************************)
(* The agents the dialler sees are the ones the table shows, restarts and  *)
(* failed statements included, except while a row is being updated.        *)
(***************************************************************************)
MapMatchesTable ==
    \A q \in Queues :
        \/ queuesMap[q] \in {table[q], Absent}
        \/ poll.pc = "update" /\ First.queue = q

(***************************************************************************)
(* The dialler comes to see the agents of every queue as they are, and     *)
(* goes on to: after lost connections, whose EOF only the next poll turns  *)
(* into a new one, after restarts of either side, and for a new queue,     *)
(* whose first poll only inserts its row.  (Of a queue Asterisk no longer  *)
(* has, the last agents seen stay for ever.)                               *)
(***************************************************************************)
AvailableCatchesUp ==
    \A q \in Queues : <>[](q \in present => queuesMap[q] = agents[q])

====
