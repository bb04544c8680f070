----------------------------- MODULE DialerCalls -----------------------------
(***************************************************************************)
(* Two theorems about Dialer that follow a call to its end in Asterisk:    *)
(* a number online is taken offline again, and a line once taken is given  *)
(* back by a Hangup only.                                                  *)
(***************************************************************************)
EXTENDS DialerProofs

(***************************************************************************)
(* Channels are those of calls Asterisk accepted; the number the handler   *)
(* works on is online until it deletes it, whatever goroutines add         *)
(* meanwhile; without its event loop the program has no events.            *)
(***************************************************************************)
Channels ==
    /\ \A p \in Calls, l \in Legs : call[p].pc # "dialed" => legs[p][l] = "none"
    /\ hnd.pc \in {"update", "delete"} => Online(Dst[hnd.row])
    /\ ~evUp => stream = <<>>

LEMMA InitChannels == Init => Channels
  BY DEF Init, Channels, IdleHnd

\* Steps that leave calls, channels, entries, the handler and events alone.
LEMMA ChannelsFrame ==
  ASSUME Channels, UNCHANGED <<call, legs, callEntry, hnd, evUp, stream>>
  PROVE  Channels'
  BY DEF Channels, Online

\* What every step of a goroutine leaves alone, and where it may lead.
LEMMA GoroutineStep ==
  ASSUME TypeOK, Filed, NEW p \in Calls, Goroutine(p)
  PROVE  /\ UNCHANGED <<legs, hnd, evUp, stream, disp, nlines, known>>
         /\ call[p].row \in Rows /\ call'[p].row = call[p].row
         /\ call[p].pc \in {"find", "add", "minus", "send", "oami"}
         /\ \A q \in Calls : q # p => call'[q] = call[q]
         /\ AddEntry(p) \/ UNCHANGED callEntry
<1>1. /\ UNCHANGED <<legs, hnd, evUp, stream, disp, nlines, known>>
      /\ call[p].pc \in {"find", "add", "minus", "send", "oami"}
      /\ AddEntry(p) \/ UNCHANGED callEntry
  BY DEF Goroutine, FindEntry, AddEntry, MinusRetry, Receive, Originate, memory
<1>2. call[p].row \in Rows
  BY <1>1, CallRow DEF TypeOK, Filed
<1>3. call'[p].row = call[p].row /\ \A q \in Calls : q # p => call'[q] = call[q]
  BY DEF Goroutine, FindEntry, AddEntry, MinusRetry, Receive, Originate,
         TypeOK, CallRecords
<1>. QED
  BY <1>1, <1>2, <1>3

\* A goroutine puts its number online and takes none offline.
LEMMA AddedOnline ==
  ASSUME TypeOK, Filed, NEW p \in Calls, AddEntry(p)
  PROVE  /\ call'[p].pc = "minus"
         /\ callEntry'[Dst[call[p].row]].row = call[p].row
         /\ \A d \in Dsts : d # Dst[call[p].row] => callEntry'[d] = callEntry[d]
         /\ \A d \in Dsts : Online(d) => Online(d)'
<1>1. call[p].row \in Rows /\ Dst[call[p].row] \in Dsts
  BY CallRow, RowData DEF AddEntry, TypeOK, Filed
<1>2. call'[p].pc = "minus"
  BY DEF AddEntry, TypeOK, CallRecords
<1>3. /\ callEntry'[Dst[call[p].row]].row = call[p].row
      /\ \A d \in Dsts : d # Dst[call[p].row] => callEntry'[d] = callEntry[d]
  BY <1>1 DEF AddEntry, TypeOK
<1>. QED
  BY <1>1, <1>2, <1>3, NoRowFresh DEF Online

\* What the handler does to the entries.
LEMMA HandlerStep ==
  ASSUME TypeOK, Filed, Handler
  PROVE  /\ UNCHANGED <<call, legs, evUp, disp, known>>
         /\ TakeEvent \/ UNCHANGED stream
         /\ \/ UNCHANGED callEntry
            \/ /\ hnd.row \in Rows /\ Dst[hnd.row] \in Dsts
               /\ \A d \in Dsts : d # Dst[hnd.row] => callEntry'[d] = callEntry[d]
               /\ \/ UpdateEntry /\ callEntry'[Dst[hnd.row]].row = hnd.row
                  \/ DeleteEntry /\ callEntry'[Dst[hnd.row]].row = NoRow
<1>1. /\ UNCHANGED <<call, legs, evUp, disp, known>>
      /\ TakeEvent \/ UNCHANGED stream
      /\ UpdateEntry \/ DeleteEntry \/ UNCHANGED callEntry
  BY DEF Handler, TakeEvent, UpdateEntry, DeleteEntry, ReleaseBranch, ReleaseGeo
<1>2. ASSUME UpdateEntry \/ DeleteEntry
      PROVE  hnd.row \in Rows /\ Dst[hnd.row] \in Dsts
  BY <1>2, RowData DEF UpdateEntry, DeleteEntry, TypeOK, Filed, Handlings
<1>3. CASE UpdateEntry
  BY <1>1, <1>2, <1>3 DEF UpdateEntry, TypeOK
<1>4. CASE DeleteEntry
  BY <1>1, <1>2, <1>4 DEF DeleteEntry, TypeOK, NoEntry
<1>. QED
  BY <1>1, <1>3, <1>4

\* The event the handler takes, and what it makes of it.
LEMMA EventTaken ==
  ASSUME TypeOK, TakeEvent
  PROVE  /\ stream \in Seq(Events) /\ stream # <<>> /\ stream' = Tail(stream)
         /\ Head(stream) \in Events /\ UNCHANGED <<callEntry, nlines>>
         /\ hnd.pc = "recv" /\ hnd'.pc \in {"recv", "update", "delete"}
         /\ hnd'.pc # "recv" => /\ Online(Head(stream).dst)
                                /\ hnd'.row = callEntry[Head(stream).dst].row
         /\ Online(Head(stream).dst) /\ Head(stream).kind = "Hangup" => hnd'.pc = "delete"
         /\ hnd'.pc = "delete" => Head(stream).kind = "Hangup"
<1>1. /\ stream \in Seq(Events) /\ stream # <<>> /\ stream' = Tail(stream)
      /\ UNCHANGED <<callEntry, nlines>>
  BY DEF TakeEvent, TypeOK
<1>2. Head(stream) \in Events
  BY <1>1, HeadTailProperties
<1>. QED
  BY <1>1, <1>2 DEF TakeEvent, IdleHnd

\* What a step of Asterisk does to a channel, and the event that tells of it.
LEMMA AsteriskStep ==
  ASSUME TypeOK, Filed, Asterisk
  PROVE  \E p \in Calls, l \in Legs, to \in {"up", "bridged", "down"}, e \in Events :
           /\ UNCHANGED <<call, callEntry, hnd, evUp, disp, nlines, known>>
           /\ call[p].pc = "dialed" /\ call[p].row \in Rows /\ legs[p][l] # "down"
           /\ \A q \in Calls, m \in Legs : q # p \/ m # l => legs'[q][m] = legs[q][m]
           /\ legs'[p][l] = to
           /\ e.dst = Dst[call[p].row] /\ (e.kind = "Hangup" <=> to = "down")
           /\ stream' = IF evUp THEN Append(stream, e) ELSE stream
<1>1. ASSUME NEW p \in Calls, NEW l \in Legs, NEW from, NEW to \in {"up", "bridged", "down"},
             NEW kind \in {"Newchannel", "BridgeEnter", "Hangup"},
             ChannelStep(p, l, from, to, kind),
             "down" \notin from, kind = "Hangup" <=> to = "down"
      PROVE  \E e \in Events :
               /\ UNCHANGED <<call, callEntry, hnd, evUp, disp, nlines, known>>
               /\ call[p].pc = "dialed" /\ call[p].row \in Rows /\ legs[p][l] # "down"
               /\ \A q \in Calls, m \in Legs : q # p \/ m # l => legs'[q][m] = legs[q][m]
               /\ legs'[p][l] = to
               /\ e.dst = Dst[call[p].row] /\ (e.kind = "Hangup" <=> to = "down")
               /\ stream' = IF evUp THEN Append(stream, e) ELSE stream
  <2>1. call[p].pc = "dialed" /\ call[p].row \in Rows /\ legs[p][l] # "down"
    BY <1>1, CallRow DEF ChannelStep, TypeOK, Filed
  <2>2. [kind |-> kind, dst |-> Dst[call[p].row]] \in Events
    BY <2>1, RowData DEF Events
  <2>3. /\ legs'[p][l] = to
        /\ \A q \in Calls, m \in Legs : q # p \/ m # l => legs'[q][m] = legs[q][m]
    BY <1>1 DEF ChannelStep, TypeOK
  <2>. QED
    BY <1>1, <2>1, <2>2, <2>3 DEF ChannelStep, Emit
<1>2. PICK p \in Calls, l \in Legs : ComesUp(p, l) \/ Answered(p, l) \/ HangsUp(p, l)
  BY DEF Asterisk
<1>. QED
  BY <1>1, <1>2 DEF ComesUp, Answered, HangsUp

LEMMA StepChannels == TypeOK /\ Filed /\ Channels /\ [Next]_vars => Channels'
<1> SUFFICES ASSUME TypeOK, Filed, Channels, [Next]_vars PROVE Channels'
  OBVIOUS
<1>1. CASE Dispatcher
  <2>1. /\ UNCHANGED <<legs, callEntry, hnd, evUp, stream>>
        /\ \A q \in Calls : call'[q].pc = "dialed" <=> call[q].pc = "dialed"
    <3>1. ASSUME NEW u \in Uids, NEW r \in Rows, NEW p \in Calls, Launch(u, r, p)
          PROVE  \A q \in Calls : call'[q].pc = "dialed" <=> call[q].pc = "dialed"
      BY <3>1 DEF Launch, Free, TypeOK
    <3>. QED
      BY <1>1, <3>1 DEF Dispatcher, Tick, BeginTask, WriteWork, NoLine, ReadCalls,
                        SkipRow, Launch
  <2>. QED
    BY <2>1 DEF Channels, Online
<1>2. ASSUME NEW p \in Calls, Goroutine(p) PROVE Channels'
  <2>1. \A q \in Calls, l \in Legs : call'[q].pc # "dialed" => legs'[q][l] = "none"
    BY <1>2, GoroutineStep DEF Channels
  <2>2. \A d \in Dsts : Online(d) => Online(d)'
    BY <1>2, GoroutineStep, AddedOnline DEF Online
  <2>3. hnd.pc # "recv" => Dst[hnd.row] \in Dsts
    BY RowData DEF TypeOK, Filed, Handlings
  <2>. QED
    BY <1>2, <2>1, <2>2, <2>3, GoroutineStep DEF Channels
<1>3. CASE Asterisk
  <2>1. PICK p \in Calls, l \in Legs :
          /\ UNCHANGED <<call, callEntry, hnd, evUp>>
          /\ call[p].pc = "dialed"
          /\ \A q \in Calls, m \in Legs : q # p => legs'[q][m] = legs[q][m]
          /\ ~evUp => stream' = stream
    BY <1>3, AsteriskStep
  <2>. QED
    BY <2>1 DEF Channels, Online
<1>4. CASE Handler
  <2>1. \A q \in Calls, l \in Legs : call'[q].pc # "dialed" => legs'[q][l] = "none"
    BY <1>4, HandlerStep DEF Channels
  <2>2. evUp' \/ stream' = <<>>
    <3>1. TakeEvent => stream # <<>>
      BY DEF TakeEvent
    <3>. QED
      BY <1>4, <3>1, HandlerStep DEF Channels
  <2>3. hnd'.pc \in {"update", "delete"} => Online(Dst[hnd.row])'
    <3>1. CASE TakeEvent
      <4>1. Head(stream).dst \in Dsts
        BY <3>1, EventTaken DEF Events
      <4>. QED
        BY <3>1, <4>1, EventTaken DEF Filed, Online
    <3>2. CASE ~TakeEvent
      BY <1>4, <3>2 DEF Handler, UpdateEntry, DeleteEntry, ReleaseBranch, ReleaseGeo,
                        IdleHnd, TypeOK, Handlings
    <3>. QED
      BY <3>1, <3>2
  <2>. QED
    BY <2>1, <2>2, <2>3 DEF Channels
<1>5. CASE Environment
  <2>1. ASSUME NEW sent \in BOOLEAN, Crash(sent) PROVE Channels'
    <3>1. \A q \in Calls : call'[q].pc # "dialed" => call[q].pc # "dialed"
      BY <2>1 DEF Crash, TypeOK, CallRecords
    <3>. QED
      BY <2>1, <3>1 DEF Crash, Channels, IdleHnd
  <2>2. CASE LoseEvents
    BY <2>2 DEF LoseEvents, Channels, Online
  <2>3. CASE \/ \E k \in Keys : \E item \in LimitItems[k] : Reload(k, item)
             \/ \E q \in Queues, n \in Available : PollQueue(q, n)
             \/ \E u \in Uids : ToggleTask(u) \/ ToggleWindow(u)
             \/ \E r \in Rows : RetryElapses(r)
    BY <2>3, ChannelsFrame
       DEF Reload, PollQueue, ToggleTask, ToggleWindow, RetryElapses, memory
  <2>. QED
    BY <1>5, <2>1, <2>2, <2>3 DEF Environment
<1>6. CASE UNCHANGED vars
  BY <1>6, ChannelsFrame DEF vars, memory
<1>. QED
  BY <1>1, <1>2, <1>3, <1>4, <1>5, <1>6 DEF Next

-----------------------------------------------------------------------------
(* Every number online has something that takes it offline.                *)

\* A Hangup of the number is on its way, or the handler has read it.
HangupRead(d) ==
    \/ \E i \in 1..Len(stream) : stream[i].kind = "Hangup" /\ stream[i].dst = d
    \/ hnd.pc = "delete" /\ Dst[hnd.row] = d

\* The handler takes a Hangup off the stream to delete the entry of its number.
LEMMA HangupTaken ==
  ASSUME TypeOK, Filed, TakeEvent, NEW d \in Dsts, Online(d)
  PROVE  HangupRead(d)' <=> HangupRead(d)
<1>1. /\ stream \in Seq(Events) /\ stream # <<>> /\ stream' = Tail(stream)
      /\ Head(stream) \in Events
  BY EventTaken
<1>2. /\ Len(stream) \in Nat /\ Len(stream) >= 1 /\ Len(stream') = Len(stream) - 1
      /\ \A i \in 1..Len(stream') : stream'[i] = stream[i + 1]
      /\ Head(stream) = stream[1]
  BY <1>1, HeadTailProperties
<1>3. hnd'.pc = "delete" => Dst[hnd'.row] = Head(stream).dst
  <2>1. Head(stream).dst \in Dsts
    BY <1>1 DEF Events
  <2>. QED
    BY <2>1, EventTaken DEF Filed
<1>4. ASSUME HangupRead(d) PROVE HangupRead(d)'
  <2>1. PICK i \in 1..Len(stream) : stream[i].kind = "Hangup" /\ stream[i].dst = d
    BY <1>4, EventTaken DEF HangupRead
  <2>2. CASE i = 1
    <3>1. Head(stream).kind = "Hangup" /\ Head(stream).dst = d
      BY <1>2, <2>1, <2>2
    <3>. QED
      BY <1>3, <3>1, EventTaken DEF HangupRead
  <2>3. CASE i # 1
    <3>1. i - 1 \in 1..Len(stream') /\ (i - 1) + 1 = i
      BY <1>2, <2>3
    <3>2. stream'[i - 1] = stream[i]
      BY <1>2, <3>1
    <3>. QED
      BY <2>1, <3>1, <3>2 DEF HangupRead
  <2>. QED
    BY <2>2, <2>3
<1>5. ASSUME HangupRead(d)' PROVE HangupRead(d)
  <2>1. CASE hnd'.pc = "delete" /\ Dst[hnd'.row] = d
    <3>1. stream[1].kind = "Hangup" /\ stream[1].dst = d /\ 1 \in 1..Len(stream)
      BY <1>2, <1>3, <2>1, EventTaken
    <3>. QED
      BY <3>1 DEF HangupRead
  <2>2. CASE \E i \in 1..Len(stream') : stream'[i].kind = "Hangup" /\ stream'[i].dst = d
    <3>1. PICK i \in 1..Len(stream') : stream'[i].kind = "Hangup" /\ stream'[i].dst = d
      BY <2>2
    <3>2. i + 1 \in 1..Len(stream)
      BY <1>2
    <3>3. stream'[i] = stream[i + 1]
      BY <1>2
    <3>. QED
      BY <3>1, <3>2, <3>3 DEF HangupRead
  <2>. QED
    BY <1>5, <2>1, <2>2 DEF HangupRead
<1>. QED
  BY <1>4, <1>5

\* The ways a step may leave a number its ender.
LEMMA EnderStays ==
  ASSUME NEW d \in Dsts, Ender(d),
         \A p \in Calls : call[p].pc \in {"minus", "send", "oami", "dialed"} =>
           /\ call'[p].row = call[p].row
           /\ \/ call'[p].pc = call[p].pc /\ \A l \in Legs : legs'[p][l] = legs[p][l]
              \/ call'[p].pc \in {"minus", "send", "oami"}
              \/ call'[p].pc = "dialed" /\ \E l \in Legs : legs'[p][l] # "down",
         UNCHANGED <<stream, hnd>>
  PROVE  Ender(d)'
  BY DEF Ender

LEMMA GoroutineEnds ==
  ASSUME Legs # {}, "originate" \notin Env,
         TypeOK, Filed, Channels, NoOrphanEntry, NEW p \in Calls, Goroutine(p)
  PROVE  NoOrphanEntry'
<1>1. ASSUME NEW d \in Dsts, Ender(d) PROVE Ender(d)'
  <2>1. ASSUME call[p].pc \in {"minus", "send", "oami"}
        PROVE  \/ call'[p].pc \in {"minus", "send", "oami"}
               \/ call'[p].pc = "dialed" /\ \E l \in Legs : legs'[p][l] # "down"
    <3>1. MinusRetry(p) \/ Receive(p) \/ Originate(p)
      BY <2>1 DEF Goroutine, FindEntry, AddEntry
    <3>2. call'[p].pc \in {"send", "oami", "dialed"}
      BY <3>1 DEF MinusRetry, Receive, Originate, TypeOK, CallRecords
    <3>3. \A l \in Legs : legs'[p][l] = "none"
      BY <2>1, GoroutineStep DEF Channels
    <3>. QED
      BY <3>2, <3>3
  <2>2. ASSUME NEW q \in Calls, call[q].pc \in {"minus", "send", "oami", "dialed"}
        PROVE  /\ call'[q].row = call[q].row
               /\ \/ call'[q].pc = call[q].pc /\ \A l \in Legs : legs'[q][l] = legs[q][l]
                  \/ call'[q].pc \in {"minus", "send", "oami"}
                  \/ call'[q].pc = "dialed" /\ \E l \in Legs : legs'[q][l] # "down"
    BY <2>1, <2>2, GoroutineStep
  <2>3. UNCHANGED <<stream, hnd>>
    BY GoroutineStep
  <2>. QED
    BY <1>1, <2>2, <2>3, EnderStays
<1>2. ASSUME NEW d \in Dsts, Online(d)' PROVE Ender(d)'
  <2>1. CASE Online(d)
    BY <1>1, <2>1 DEF NoOrphanEntry
  <2>2. CASE ~Online(d)
    <3>1. AddEntry(p) /\ d = Dst[call[p].row]
      BY <1>2, <2>2, GoroutineStep, AddedOnline DEF Online
    <3>2. call'[p].pc = "minus" /\ call'[p].row = call[p].row /\ call[p].row \in Rows
      BY <3>1, GoroutineStep, AddedOnline
    <3>. QED
      BY <3>1, <3>2, NoRowFresh DEF Ender
  <2>. QED
    BY <2>1, <2>2
<1>. QED
  BY <1>2 DEF NoOrphanEntry

\* Asterisk hangs the half of a channel up and says so, while the event loop runs.
LEMMA AsteriskEnds ==
  ASSUME TypeOK, Filed, evUp, NoOrphanEntry, Asterisk
  PROVE  NoOrphanEntry'
<1>1. PICK p \in Calls, l \in Legs, to \in {"up", "bridged", "down"}, e \in Events :
        /\ UNCHANGED <<call, callEntry, hnd, evUp, disp, nlines, known>>
        /\ call[p].pc = "dialed" /\ call[p].row \in Rows /\ legs[p][l] # "down"
        /\ \A q \in Calls, m \in Legs : q # p \/ m # l => legs'[q][m] = legs[q][m]
        /\ legs'[p][l] = to
        /\ e.dst = Dst[call[p].row] /\ (e.kind = "Hangup" <=> to = "down")
        /\ stream' = IF evUp THEN Append(stream, e) ELSE stream
  BY AsteriskStep
<1>2. /\ Len(stream) \in Nat /\ Len(stream') = Len(stream) + 1
      /\ \A i \in 1..Len(stream) : stream'[i] = stream[i]
      /\ stream'[Len(stream) + 1] = e
  BY <1>1, AppendProperties DEF TypeOK
<1>3. ASSUME NEW d \in Dsts, Ender(d) PROVE Ender(d)'
  <2>1. CASE \E i \in 1..Len(stream) : stream[i].kind = "Hangup" /\ stream[i].dst = d
    BY <1>2, <2>1 DEF Ender
  <2>2. CASE hnd.pc = "delete" /\ Dst[hnd.row] = d
    BY <1>1, <2>2 DEF Ender
  <2>3. ASSUME NEW q \in Calls, call[q].row # NoRow, Dst[call[q].row] = d,
               \/ call[q].pc \in {"minus", "send", "oami"}
               \/ call[q].pc = "dialed" /\ \E m \in Legs : legs[q][m] # "down"
        PROVE  Ender(d)'
    <3>1. CASE q = p /\ to = "down"
      <4>1. e.kind = "Hangup" /\ e.dst = d
        BY <1>1, <2>3, <3>1
      <4>. QED
        BY <1>2, <4>1 DEF Ender
    <3>2. CASE q # p \/ to # "down"
      BY <1>1, <2>3, <3>2 DEF Ender
    <3>. QED
      BY <3>1, <3>2
  <2>. QED
    BY <1>3, <2>1, <2>2, <2>3 DEF Ender
<1>. QED
  BY <1>1, <1>3 DEF NoOrphanEntry, Online

\* The handler drops a Hangup only to delete the entry, or when there is none.
LEMMA HandlerEnds ==
  ASSUME TypeOK, Filed, NoOrphanEntry, Channels, Handler
  PROVE  NoOrphanEntry'
<1>1. ASSUME NEW d \in Dsts, Online(d)' PROVE Online(d)
  <2>1. UpdateEntry => Online(Dst[hnd.row])
    BY DEF UpdateEntry, Channels
  <2>. QED
    BY <1>1, <2>1, HandlerStep DEF Online
<1>2. CASE TakeEvent
  <2>1. ASSUME NEW d \in Dsts, Online(d) PROVE Ender(d)'
    <3>1. Ender(d) /\ UNCHANGED <<call, legs>> /\ hnd.pc = "recv"
      BY <1>2, <2>1, HandlerStep, EventTaken DEF NoOrphanEntry
    <3>2. HangupRead(d) => HangupRead(d)'
      BY <1>2, <2>1, HangupTaken
    <3>. QED
      BY <3>1, <3>2 DEF Ender, HangupRead
  <2>. QED
    BY <1>1, <2>1 DEF NoOrphanEntry
<1>3. CASE ~TakeEvent
  <2>1. ASSUME NEW d \in Dsts, Online(d)' PROVE Ender(d)'
    <3>1. Ender(d) /\ UNCHANGED <<call, legs, stream>>
      BY <1>1, <1>3, <2>1, HandlerStep DEF NoOrphanEntry
    <3>2. ~(hnd.pc = "delete" /\ Dst[hnd.row] = d)
      <4>1. hnd.pc = "delete" => DeleteEntry
        BY <1>3 DEF Handler, UpdateEntry, ReleaseBranch, ReleaseGeo
      <4>2. DeleteEntry /\ Dst[hnd.row] = d => ~Online(d)'
        BY DEF DeleteEntry, Online, NoEntry, TypeOK
      <4>. QED
        BY <2>1, <4>1, <4>2
    <3>. QED
      BY <3>1, <3>2 DEF Ender
  <2>. QED
    BY <2>1 DEF NoOrphanEntry
<1>. QED
  BY <1>2, <1>3

LEMMA StepEnds ==
  ASSUME Legs # {}, Env \cap {"originate", "events"} = {},
         TypeOK, Filed, Channels, evUp, NoOrphanEntry, [Next]_vars
  PROVE  evUp' /\ NoOrphanEntry'
<1>1. CASE Dispatcher
  <2>1. UNCHANGED <<legs, callEntry, hnd, evUp, stream>>
    BY <1>1 DEF Dispatcher, Tick, BeginTask, WriteWork, NoLine, ReadCalls, SkipRow, Launch
  <2>2. \A q \in Calls : call[q].pc # "free" => call'[q] = call[q]
    <3>1. ASSUME NEW u \in Uids, NEW r \in Rows, NEW p \in Calls, Launch(u, r, p)
          PROVE  \A q \in Calls : call[q].pc # "free" => call'[q] = call[q]
      BY <3>1 DEF Launch, Free, TypeOK
    <3>. QED
      BY <1>1, <3>1 DEF Dispatcher, Tick, BeginTask, WriteWork, NoLine, ReadCalls, SkipRow
  <2>3. \A d \in Dsts : Ender(d) => Ender(d)'
    BY <2>1, <2>2, EnderStays
  <2>. QED
    BY <2>1, <2>3 DEF NoOrphanEntry, Online
<1>2. ASSUME NEW p \in Calls, Goroutine(p) PROVE evUp' /\ NoOrphanEntry'
  BY <1>2, GoroutineStep, GoroutineEnds
<1>3. CASE Asterisk
  BY <1>3, AsteriskStep, AsteriskEnds
<1>4. CASE Handler
  BY <1>4, HandlerStep, HandlerEnds
<1>5. CASE Environment
  <2>1. ASSUME NEW sent \in BOOLEAN, Crash(sent) PROVE evUp' /\ NoOrphanEntry'
    BY <2>1 DEF Crash, NoOrphanEntry, Online, NoEntry
  <2>2. CASE \/ \E k \in Keys : \E item \in LimitItems[k] : Reload(k, item)
             \/ \E q \in Queues, n \in Available : PollQueue(q, n)
             \/ \E u \in Uids : ToggleTask(u) \/ ToggleWindow(u)
             \/ \E r \in Rows : RetryElapses(r)
    <3>1. UNCHANGED <<call, legs, callEntry, hnd, evUp, stream>>
      BY <2>2 DEF Reload, PollQueue, ToggleTask, ToggleWindow, RetryElapses, memory
    <3>. QED
      BY <3>1 DEF NoOrphanEntry, Online, Ender
  <2>3. ~LoseEvents
    BY DEF LoseEvents
  <2>. QED
    BY <1>5, <2>1, <2>2, <2>3 DEF Environment
<1>6. CASE UNCHANGED vars
  BY <1>6 DEF vars, memory, NoOrphanEntry, Online, Ender
<1>. QED
  BY <1>1, <1>2, <1>3, <1>4, <1>5, <1>6 DEF Next

(***************************************************************************)
(* While Asterisk accepts every originate and the event loop lives, no     *)
(* number stays online for good: whatever shares it, retries it, comes     *)
(* late or restarts in between, something that deletes its entry is there. *)
(***************************************************************************)
THEOREM NoEntryIsOrphaned ==
  ASSUME Legs # {}, Env \cap {"originate", "events"} = {}
  PROVE  Spec => []NoOrphanEntry
<1>1. Init => TypeOK /\ Filed /\ Channels /\ evUp /\ NoOrphanEntry
  <2>1. Init => evUp /\ NoOrphanEntry
    BY DEF Init, NoOrphanEntry, Online, NoEntry
  <2>. QED
    BY <2>1, InitTypeOK, InitFiled, InitChannels
<1>2. TypeOK /\ Filed /\ Channels /\ evUp /\ NoOrphanEntry /\ [Next]_vars
        => (TypeOK /\ Filed /\ Channels /\ evUp /\ NoOrphanEntry)'
  BY StepTypeOK, StepFiled, StepChannels, StepEnds
<1>. QED
  BY <1>1, <1>2, PTL DEF Spec

-----------------------------------------------------------------------------
(* Lines are given back by Hangups, one each.                              *)

\* The Hangups of numbers of k that the handler has not read.
Unread(k) ==
    {i \in 1..Len(stream) :
        /\ stream[i].kind = "Hangup"
        /\ \E r \in RowsOf(k) : Dst[r] = stream[i].dst}

\* The handler has read one and is going to give a line of k back.
GivingBack(k) ==
    \/ hnd.pc = "delete" /\ k \in KeysOf(hnd.row)
    \/ Releasing(k)

\* The lines taken of k, the Hangups still to be paid for, less those there were.
Debt(k) ==
    Cardinality(Launched(k)) + Cardinality(Unread(k))
        + (IF GivingBack(k) THEN 1 ELSE 0) - Cardinality(HungUp(k))

(***************************************************************************)
(* A Hangup on its way to the handler, and the handler on its way to the   *)
(* counters, are paid for before the line is given back; and what the      *)
(* dispatcher copied out of a counter, to write it back over what was      *)
(* released meanwhile, is as good as the counter.                          *)
(***************************************************************************)
Booked ==
    /\ \A k \in Keys : nlines[k] >= Debt(k)
    /\ \A u \in Uids : disp.pc = "write" /\ Current(u) => disp.copy >= Debt(u)

LEMMA DebtSets ==
  ASSUME TypeOK, NEW k
  PROVE  /\ IsFiniteSet(Launched(k)) /\ IsFiniteSet(Unread(k)) /\ IsFiniteSet(HungUp(k))
         /\ Cardinality(Launched(k)) \in Nat /\ Cardinality(Unread(k)) \in Nat
         /\ Cardinality(HungUp(k)) \in Nat /\ Debt(k) \in Int
<1>1. IsFiniteSet(Launched(k)) /\ Cardinality(Launched(k)) \in Nat
  <2>1. Launched(k) \in SUBSET Calls
    BY DEF Launched
  <2>. QED
    BY <2>1, SubsetCard, FiniteData
<1>2. IsFiniteSet(Unread(k)) /\ Cardinality(Unread(k)) \in Nat
  <2>1. Unread(k) \in SUBSET (1..Len(stream)) /\ Len(stream) \in Nat
    BY DEF Unread, TypeOK
  <2>2. IsFiniteSet(1..Len(stream))
    BY <2>1, FS_Interval
  <2>. QED
    BY <2>1, <2>2, SubsetCard
<1>3. IsFiniteSet(HungUp(k)) /\ Cardinality(HungUp(k)) \in Nat
  <2>1. HungUp(k) \in SUBSET (Calls \X Legs)
    BY DEF HungUp
  <2>2. IsFiniteSet(Calls \X Legs)
    BY FS_Product, FiniteData
  <2>. QED
    BY <2>1, <2>2, SubsetCard
<1>. QED
  BY <1>1, <1>2, <1>3 DEF Debt

\* The same facts after a step.
LEMMA DebtSetsNext ==
  ASSUME TypeOK', NEW k
  PROVE  /\ IsFiniteSet(Launched(k)') /\ IsFiniteSet(Unread(k)') /\ IsFiniteSet(HungUp(k)')
         /\ Cardinality(Launched(k)') \in Nat /\ Cardinality(Unread(k)') \in Nat
         /\ Cardinality(HungUp(k)') \in Nat /\ Debt(k)' \in Int
<1>1. IsFiniteSet(Launched(k)') /\ Cardinality(Launched(k)') \in Nat
  <2>1. Launched(k)' \in SUBSET Calls
    BY DEF Launched
  <2>. QED
    BY <2>1, SubsetCard, FiniteData
<1>2. IsFiniteSet(Unread(k)') /\ Cardinality(Unread(k)') \in Nat
  <2>1. Unread(k)' \in SUBSET (1..Len(stream')) /\ Len(stream') \in Nat
    BY DEF Unread, TypeOK
  <2>2. IsFiniteSet(1..Len(stream'))
    BY <2>1, FS_Interval
  <2>. QED
    BY <2>1, <2>2, SubsetCard
<1>3. IsFiniteSet(HungUp(k)') /\ Cardinality(HungUp(k)') \in Nat
  <2>1. HungUp(k)' \in SUBSET (Calls \X Legs)
    BY DEF HungUp
  <2>2. IsFiniteSet(Calls \X Legs)
    BY FS_Product, FiniteData
  <2>. QED
    BY <2>1, <2>2, SubsetCard
<1>. QED
  BY <1>1, <1>2, <1>3 DEF Debt

\* What the debt is made of, and how it changes with its parts.
LEMMA DebtSum ==
  ASSUME TypeOK, TypeOK', NEW k, NEW a \in -1..1, NEW b \in -1..1, NEW c \in 0..1,
         Cardinality(Launched(k)') <= Cardinality(Launched(k)) + a,
         Cardinality(Unread(k)') <= Cardinality(Unread(k)) + b,
         Cardinality(HungUp(k)) + c <= Cardinality(HungUp(k)')
  PROVE  /\ (GivingBack(k)' => GivingBack(k)) => Debt(k)' <= Debt(k) + a + b - c
         /\ GivingBack(k)' => Debt(k)' <= Debt(k) + a + b - c + 1
         /\ GivingBack(k) /\ ~GivingBack(k)' => Debt(k)' <= Debt(k) + a + b - c - 1
<1> DEFINE l == Cardinality(Launched(k))
           ln == Cardinality(Launched(k)')
           e == Cardinality(Unread(k))
           en == Cardinality(Unread(k)')
           h == Cardinality(HungUp(k))
           hn == Cardinality(HungUp(k)')
           g == IF GivingBack(k) THEN 1 ELSE 0
           gn == IF GivingBack(k)' THEN 1 ELSE 0
<1>1. l \in Nat /\ ln \in Nat /\ e \in Nat /\ en \in Nat /\ h \in Nat /\ hn \in Nat
  BY DebtSets, DebtSetsNext
<1>2. Debt(k) = l + e + g - h /\ Debt(k)' = ln + en + gn - hn
  BY DEF Debt
<1>3. ln <= l + a /\ en <= e + b /\ h + c <= hn
  OBVIOUS
<1>4. /\ g \in 0..1 /\ gn \in 0..1
      /\ (GivingBack(k)' => GivingBack(k)) => gn <= g
      /\ GivingBack(k) /\ ~GivingBack(k)' => gn <= g - 1
  OBVIOUS
<1>. HIDE DEF l, ln, e, en, h, hn, g, gn
<1>. QED
  BY <1>1, <1>2, <1>3, <1>4

\* A step that moves nothing of the debt of k but may forget some of it.
LEMMA DebtKept ==
  ASSUME TypeOK, TypeOK', NEW k,
         Launched(k)' \subseteq Launched(k), Unread(k)' \subseteq Unread(k),
         HungUp(k) \subseteq HungUp(k)', GivingBack(k)' => GivingBack(k)
  PROVE  /\ Debt(k)' <= Debt(k)
         /\ GivingBack(k) /\ ~GivingBack(k)' => Debt(k)' <= Debt(k) - 1
<1>1. /\ Cardinality(Launched(k)') <= Cardinality(Launched(k)) + 0
      /\ Cardinality(Unread(k)') <= Cardinality(Unread(k)) + 0
      /\ Cardinality(HungUp(k)) + 0 <= Cardinality(HungUp(k)')
  BY DebtSets, DebtSetsNext, SubsetCard
<1>2. Debt(k) \in Int /\ Debt(k)' \in Int
  BY DebtSets, DebtSetsNext
<1>3. 0 \in -1..1 /\ 0 \in 0..1
  OBVIOUS
<1>4. /\ (GivingBack(k)' => GivingBack(k)) => Debt(k)' <= Debt(k) + 0 + 0 - 0
      /\ GivingBack(k) /\ ~GivingBack(k)' => Debt(k)' <= Debt(k) + 0 + 0 - 0 - 1
  BY <1>1, <1>3, DebtSum
<1>. QED
  BY <1>2, <1>4

LEMMA InitBooked == Init => Booked
<1> SUFFICES ASSUME Init PROVE Booked
  OBVIOUS
<1>1. ASSUME NEW k \in Keys PROVE Debt(k) = 0 /\ nlines[k] = 0
  <2>1. Launched(k) = {}
    BY DEF Init, Launched, NewCall
  <2>2. Unread(k) = {} /\ ~GivingBack(k)
    BY DEF Init, Unread, GivingBack, Releasing, IdleHnd
  <2>3. HungUp(k) = {}
    BY DEF Init, HungUp
  <2>. QED
    BY <2>1, <2>2, <2>3, FS_EmptySet DEF Debt, Init
<1>2. disp.pc # "write"
  BY DEF Init, IdleDisp
<1>. QED
  BY <1>1, <1>2 DEF Booked

\* A step that adds no debt and leaves the counters and the dispatcher alone.
LEMMA BookedFrame ==
  ASSUME TypeOK, TypeOK', Booked, UNCHANGED <<disp, nlines>>,
         \A k \in Keys : Debt(k)' <= Debt(k)
  PROVE  Booked'
<1>1. ASSUME NEW k \in Keys PROVE nlines'[k] >= Debt(k)'
  <2>1. nlines[k] \in Int /\ Debt(k) \in Int /\ Debt(k)' \in Int
    BY DebtSets, DebtSetsNext DEF TypeOK
  <2>. QED
    BY <2>1 DEF Booked
<1>2. ASSUME NEW u \in Uids, disp'.pc = "write", Current(u)' PROVE disp'.copy >= Debt(u)'
  <2>1. u \in Keys /\ disp.copy \in Int /\ Debt(u) \in Int /\ Debt(u)' \in Int
    BY DebtSets, DebtSetsNext DEF Keys, TypeOK, Dispatches
  <2>2. disp.copy >= Debt(u)
    BY <1>2 DEF Booked, Current
  <2>3. Debt(u)' <= Debt(u)
    BY <2>1
  <2>. QED
    BY <2>1, <2>2, <2>3
<1>. QED
  BY <1>1, <1>2 DEF Booked

LEMMA DispatcherBooked ==
  ASSUME TypeOK, TypeOK', Channels, Accounts, Booked, Dispatcher
  PROVE  Booked'
<1>1. UNCHANGED <<legs, callEntry, hnd, evUp, stream>>
  BY DEF Dispatcher, Tick, BeginTask, WriteWork, NoLine, ReadCalls, SkipRow, Launch
<1>2. ASSUME NEW k PROVE Unread(k)' = Unread(k) /\ (GivingBack(k)' <=> GivingBack(k))
  BY <1>1 DEF Unread, GivingBack, Releasing
<1>3. ASSUME UNCHANGED call, NEW k PROVE Debt(k)' = Debt(k)
  <2>1. Launched(k)' = Launched(k) /\ HungUp(k)' = HungUp(k)
    BY <1>1, <1>3 DEF Launched, HungUp
  <2>. QED
    BY <1>2, <2>1 DEF Debt
<1>4. ASSUME UNCHANGED <<call, nlines>>, disp'.pc # "write" PROVE Booked'
  BY <1>3, <1>4 DEF Booked
<1>5. ASSUME NEW u \in Uids, BeginTask(u) PROVE Booked'
  <2>1. /\ disp'.todo = disp.todo
        /\ disp'.pc = "write" => disp'.copy = nlines[u]
    BY <1>5 DEF BeginTask, TypeOK, Dispatches
  <2>2. \A v \in Uids : Current(v)' => v = u
    BY <1>5, <2>1, TaskData DEF BeginTask, Current
  <2>3. u \in Keys /\ UNCHANGED <<call, nlines>>
    BY <1>5 DEF BeginTask, Keys
  <2>. QED
    BY <1>3, <2>1, <2>2, <2>3 DEF Booked
<1>6. ASSUME NEW u \in Uids, WriteWork(u) PROVE Booked'
  <2>1. disp'.pc = "check" /\ UNCHANGED call
    BY <1>6 DEF WriteWork, TypeOK, Dispatches
  <2>2. \A k \in Keys : nlines'[k] = IF k = u THEN disp.copy ELSE nlines[k]
    BY <1>6 DEF WriteWork, TypeOK
  <2>3. disp.copy >= Debt(u)
    BY <1>6 DEF Booked, WriteWork
  <2>. QED
    BY <1>3, <2>1, <2>2, <2>3 DEF Booked
<1>7. ASSUME NEW u \in Uids, NEW r \in Rows, NEW p \in Calls, Launch(u, r, p)
      PROVE  Booked'
  <2>1. Branch[r] = u /\ {u, TaskGeo[u]} \subseteq known
    BY <1>7 DEF Launch, Accounts, PassOnTask
  <2>2. /\ \A q \in Calls : q # p => call'[q] = call[q]
        /\ call'[p].row = r /\ call[p].pc = "free"
    BY <1>7 DEF Launch, Free, TypeOK
  <2>3. disp'.pc # "write"
    BY <1>7 DEF Launch, AfterRow, Finished, IdleDisp, TypeOK, Dispatches
  <2>4. ASSUME NEW k PROVE HungUp(k) \subseteq HungUp(k)'
    <3>1. \A l \in Legs : legs[p][l] = "none"
      BY <2>2 DEF Channels
    <3>. QED
      BY <1>1, <2>2, <3>1 DEF HungUp
  <2>5. ASSUME NEW k PROVE Cardinality(HungUp(k)) + 0 <= Cardinality(HungUp(k)')
    BY <2>4, DebtSets, DebtSetsNext, SubsetCard
  <2>6. ASSUME NEW k \in Keys PROVE nlines'[k] >= Debt(k)'
    <3>1. nlines[k] \in Int /\ nlines[k] >= Debt(k) /\ Debt(k) \in Int /\ Debt(k)' \in Int
      BY DebtSets, DebtSetsNext DEF Booked, TypeOK
    <3>2. CASE k \in {u, TaskGeo[u]}
      <4>1. Launched(k)' \in SUBSET (Launched(k) \cup {p})
        BY <2>2 DEF Launched
      <4>2. Cardinality(Launched(k)') <= Cardinality(Launched(k)) + 1
        BY <4>1, DebtSets, MoreCard
      <4>3. Cardinality(Unread(k)') <= Cardinality(Unread(k)) + 0
        BY <1>2, DebtSets
      <4>4. 0 \in -1..1 /\ 1 \in -1..1 /\ 0 \in 0..1
        OBVIOUS
      <4>5. Debt(k)' <= Debt(k) + 1 + 0 - 0
        BY <1>2, <2>5, <4>2, <4>3, <4>4, DebtSum
      <4>6. nlines'[k] = nlines[k] + 1
        BY <1>7, <2>1, <3>2 DEF Launch, LineGet
      <4>. QED
        BY <3>1, <4>5, <4>6
    <3>3. CASE k \notin {u, TaskGeo[u]}
      <4>1. k \notin KeysOf(r)
        BY <2>1, <3>3 DEF KeysOf
      <4>2. Launched(k)' \subseteq Launched(k)
        BY <2>2, <4>1 DEF Launched
      <4>3. Debt(k)' <= Debt(k)
        BY <1>2, <2>4, <4>2, DebtKept
      <4>4. nlines'[k] = nlines[k]
        BY <1>7, <3>3 DEF Launch, LineGet
      <4>. QED
        BY <3>1, <4>3, <4>4
    <3>. QED
      BY <3>2, <3>3
  <2>. QED
    BY <2>3, <2>6 DEF Booked
<1>8. CASE \/ Tick
           \/ \E u \in Uids : NoLine(u)
           \/ \E u \in Uids, rows \in SUBSET Rows : ReadCalls(u, rows)
           \/ \E u \in Uids, r \in Rows : SkipRow(u, r)
  <2>1. disp'.pc # "write" /\ UNCHANGED <<call, nlines>>
    BY <1>8 DEF Tick, NoLine, ReadCalls, SkipRow, AfterRow, Finished, IdleDisp,
                TypeOK, Dispatches
  <2>. QED
    BY <1>4, <2>1
<1>. QED
  BY <1>5, <1>6, <1>7, <1>8 DEF Dispatcher

\* A goroutine changes what it has come to, not what was taken for it.
LEMMA GoroutineBooked ==
  ASSUME TypeOK, TypeOK', Filed, Booked, NEW p \in Calls, Goroutine(p)
  PROVE  Booked'
<1>1. /\ UNCHANGED <<legs, hnd, evUp, stream, disp, nlines>>
      /\ call'[p].row = call[p].row /\ call[p].pc # "free"
      /\ \A q \in Calls : q # p => call'[q] = call[q]
  BY GoroutineStep
<1>2. \A q \in Calls : call'[q].row = call[q].row
  BY <1>1
<1>3. ASSUME NEW k \in Keys PROVE Debt(k)' <= Debt(k)
  <2>1. Launched(k)' \subseteq Launched(k)
    BY <1>1 DEF Launched
  <2>2. Unread(k)' = Unread(k) /\ (GivingBack(k)' <=> GivingBack(k))
    BY <1>1 DEF Unread, GivingBack, Releasing
  <2>3. HungUp(k) \subseteq HungUp(k)'
    BY <1>1, <1>2 DEF HungUp
  <2>. QED
    BY <2>1, <2>2, <2>3, DebtKept
<1>. QED
  BY <1>1, <1>3, BookedFrame

\* A channel that hangs up adds one Hangup to those there were and to the unread.
LEMMA AsteriskBooked ==
  ASSUME TypeOK, TypeOK', Filed, Booked, Asterisk
  PROVE  Booked'
<1>1. PICK p \in Calls, l \in Legs, to \in {"up", "bridged", "down"}, e \in Events :
        /\ UNCHANGED <<call, callEntry, hnd, evUp, disp, nlines, known>>
        /\ call[p].pc = "dialed" /\ call[p].row \in Rows /\ legs[p][l] # "down"
        /\ \A q \in Calls, m \in Legs : q # p \/ m # l => legs'[q][m] = legs[q][m]
        /\ legs'[p][l] = to
        /\ e.dst = Dst[call[p].row] /\ (e.kind = "Hangup" <=> to = "down")
        /\ stream' = IF evUp THEN Append(stream, e) ELSE stream
  BY AsteriskStep
<1>2. /\ Len(stream) \in Nat
      /\ stream' = stream \/ /\ Len(stream') = Len(stream) + 1
                             /\ \A i \in 1..Len(stream) : stream'[i] = stream[i]
                             /\ stream'[Len(stream) + 1] = e
  BY <1>1, AppendProperties DEF TypeOK
<1>3. ASSUME NEW k
      PROVE  /\ Launched(k)' = Launched(k) /\ (GivingBack(k)' <=> GivingBack(k))
             /\ HungUp(k) \subseteq HungUp(k)'
  <2>1. Launched(k)' = Launched(k) /\ (GivingBack(k)' <=> GivingBack(k))
    BY <1>1 DEF Launched, GivingBack, Releasing
  <2>2. ASSUME NEW c \in HungUp(k) PROVE c \in HungUp(k)'
    <3>1. c \in Calls \X Legs /\ legs[c[1]][c[2]] = "down"
      BY DEF HungUp
    <3>2. c[1] \in Calls /\ c[2] \in Legs /\ ~(c[1] = p /\ c[2] = l)
      BY <1>1, <3>1
    <3>3. legs'[c[1]][c[2]] = "down"
      BY <1>1, <3>1, <3>2
    <3>. QED
      BY <1>1, <3>3 DEF HungUp
  <2>. QED
    BY <2>1, <2>2
<1>4. ASSUME NEW k \in Keys PROVE Debt(k)' <= Debt(k)
  <2>1. CASE to = "down" /\ \E r \in RowsOf(k) : Dst[r] = Dst[call[p].row]
    <3> DEFINE c == <<p, l>>
    <3>1. c \in HungUp(k)' /\ c \notin HungUp(k)
      BY <1>1, <2>1 DEF HungUp
    <3>2. HungUp(k) \in SUBSET (HungUp(k)' \ {c})
      BY <1>3, <3>1
    <3>3. Cardinality(HungUp(k)) <= Cardinality(HungUp(k)') - 1
      <4>. HIDE DEF c
      <4>. QED
        BY <3>1, <3>2, DebtSetsNext, LessCard
    <3>4. Unread(k)' \in SUBSET (Unread(k) \cup {Len(stream) + 1})
      BY <1>2 DEF Unread
    <3>5. Cardinality(Unread(k)') <= Cardinality(Unread(k)) + 1
      BY <3>4, DebtSets, MoreCard
    <3>6. /\ Cardinality(Launched(k)') <= Cardinality(Launched(k)) + 0
          /\ Cardinality(HungUp(k)) + 1 <= Cardinality(HungUp(k)')
      BY <1>3, <3>3, DebtSets, DebtSetsNext
    <3>7. 0 \in -1..1 /\ 1 \in -1..1 /\ 1 \in 0..1
      OBVIOUS
    <3>8. Debt(k)' <= Debt(k) + 0 + 1 - 1
      BY <1>3, <3>5, <3>6, <3>7, DebtSum
    <3>. QED
      BY <3>8, DebtSets, DebtSetsNext
  <2>2. CASE ~(to = "down" /\ \E r \in RowsOf(k) : Dst[r] = Dst[call[p].row])
    <3>1. Unread(k)' \subseteq Unread(k)
      BY <1>1, <1>2, <2>2 DEF Unread
    <3>. QED
      BY <1>3, <3>1, DebtKept
  <2>. QED
    BY <2>1, <2>2
<1>. QED
  BY <1>1, <1>4, BookedFrame

\* Taking the first event off moves the unread ones up by one place.
LEMMA UnreadTaken ==
  ASSUME TypeOK, TypeOK', TakeEvent, NEW k
  PROVE  /\ Cardinality(Unread(k)') <= Cardinality(Unread(k))
         /\ 1 \in Unread(k) => Cardinality(Unread(k)') <= Cardinality(Unread(k)) - 1
<1>1. /\ stream \in Seq(Events) /\ stream # <<>> /\ stream' = Tail(stream)
  BY EventTaken
<1>2. /\ Len(stream) \in Nat /\ Len(stream) >= 1 /\ Len(stream') = Len(stream) - 1
      /\ \A i \in 1..Len(stream') : stream'[i] = stream[i + 1]
  BY <1>1, HeadTailProperties
<1>3. \A i \in Unread(k)' : i \in Nat /\ i + 1 \in Unread(k) \ {1}
  BY <1>2 DEF Unread
<1> DEFINE f == [i \in Unread(k)' |-> i + 1]
<1>4. f \in Injection(Unread(k)', Unread(k) \ {1})
  <2>1. f \in [Unread(k)' -> Unread(k) \ {1}]
    BY <1>3
  <2>2. \A x, y \in Unread(k)' : f[x] = f[y] => x = y
    BY <1>3
  <2>. HIDE DEF f
  <2>. QED
    BY <2>1, <2>2 DEF Injection, IsInjective
<1>. HIDE DEF f
<1>5. /\ IsFiniteSet(Unread(k) \ {1}) /\ Cardinality(Unread(k) \ {1}) \in Nat
      /\ Cardinality(Unread(k) \ {1}) <= Cardinality(Unread(k))
  BY DebtSets, SubsetCard
<1>6. Cardinality(Unread(k)') <= Cardinality(Unread(k) \ {1})
  BY <1>4, <1>5, FS_Injection
<1>7. 1 \in Unread(k) => Cardinality(Unread(k) \ {1}) <= Cardinality(Unread(k)) - 1
  BY DebtSets, LessCard
<1>. QED
  BY <1>5, <1>6, <1>7, DebtSets, DebtSetsNext

LEMMA HandlerBooked ==
  ASSUME TypeOK, TypeOK', Filed, Channels, Booked, Handler
  PROVE  Booked'
<1>1. UNCHANGED <<call, legs, evUp, disp, known>>
  BY HandlerStep
<1>2. \A k : Launched(k)' = Launched(k) /\ HungUp(k)' = HungUp(k)
  BY <1>1 DEF Launched, HungUp
<1>3. CASE TakeEvent
  <2>1. /\ UNCHANGED <<callEntry, nlines>> /\ hnd.pc = "recv"
        /\ stream \in Seq(Events) /\ stream # <<>> /\ Head(stream) \in Events
        /\ hnd'.pc \in {"recv", "update", "delete"}
    BY <1>3, EventTaken
  <2>2. ASSUME NEW k \in Keys PROVE Debt(k)' <= Debt(k)
    <3>1. /\ Cardinality(Launched(k)') <= Cardinality(Launched(k)) + 0
          /\ Cardinality(HungUp(k)) + 0 <= Cardinality(HungUp(k)')
          /\ Cardinality(Unread(k)') <= Cardinality(Unread(k)) + 0
          /\ 0 \in -1..1 /\ -1 \in -1..1 /\ 0 \in 0..1
      BY <1>2, <1>3, UnreadTaken, DebtSets, DebtSetsNext
    <3>2. CASE ~GivingBack(k)'
      <4>1. Debt(k)' <= Debt(k) + 0 + 0 - 0
        BY <3>1, <3>2, DebtSum
      <4>. QED
        BY <4>1, DebtSets, DebtSetsNext
    <3>3. CASE GivingBack(k)'
      <4>1. /\ hnd'.pc = "delete" /\ k \in KeysOf(hnd'.row)
            /\ Head(stream).kind = "Hangup" /\ hnd'.row = callEntry[Head(stream).dst].row
            /\ Online(Head(stream).dst) /\ Head(stream).dst \in Dsts
        BY <1>3, <2>1, <3>3, EventTaken DEF GivingBack, Releasing, Events
      <4>2. hnd'.row \in RowsOf(k) /\ Dst[hnd'.row] = Head(stream).dst
        BY <4>1 DEF Filed, Online, RowsOf, TypeOK, Entries
      <4>3. 1 \in 1..Len(stream) /\ stream[1] = Head(stream)
        BY <2>1, HeadTailProperties
      <4>4. 1 \in Unread(k)
        BY <4>1, <4>2, <4>3 DEF Unread
      <4>5. Cardinality(Unread(k)') <= Cardinality(Unread(k)) + (-1)
        BY <1>3, <4>4, UnreadTaken, DebtSets, DebtSetsNext
      <4>6. Debt(k)' <= Debt(k) + 0 + (-1) - 0 + 1
        BY <3>1, <3>3, <4>5, DebtSum
      <4>. QED
        BY <4>6, DebtSets, DebtSetsNext
    <3>. QED
      BY <3>2, <3>3
  <2>. QED
    BY <1>1, <2>1, <2>2, BookedFrame
<1>4. CASE UpdateEntry \/ DeleteEntry
  <2>1. /\ UNCHANGED <<nlines, stream>>
        /\ hnd'.pc = "recv" \/ (hnd.pc = "delete" /\ hnd'.pc = "relBranch" /\ hnd'.row = hnd.row)
    BY <1>4 DEF UpdateEntry, DeleteEntry, IdleHnd, TypeOK, Handlings
  <2>2. ASSUME NEW k \in Keys PROVE Debt(k)' <= Debt(k)
    <3>1. Unread(k)' = Unread(k) /\ (GivingBack(k)' => GivingBack(k))
      BY <2>1 DEF Unread, GivingBack, Releasing
    <3>. QED
      BY <1>2, <3>1, DebtKept
  <2>. QED
    BY <1>1, <2>1, <2>2, BookedFrame
<1>5. ASSUME NEW j \in Keys, nlines' = LineRelease(j), GivingBack(j), ~GivingBack(j)',
             UNCHANGED stream, \A k \in Keys : GivingBack(k)' => GivingBack(k)
      PROVE  Booked'
  <2>1. \A k : Unread(k)' = Unread(k)
    BY <1>5 DEF Unread
  <2>2. ASSUME NEW k \in Keys
        PROVE  /\ Debt(k) \in Int /\ Debt(k)' \in Int
               /\ Debt(k)' <= Debt(k) /\ (k = j => Debt(k)' <= Debt(k) - 1)
    BY <1>2, <1>5, <2>1, DebtKept, DebtSets, DebtSetsNext
  <2>3. ASSUME NEW k \in Keys PROVE nlines'[k] >= Debt(k)'
    <3>1. nlines'[k] = nlines[k] \/ (k = j /\ nlines'[k] = nlines[k] - 1)
      <4>1. nlines' = IF j \in known THEN [nlines EXCEPT ![j] = nlines[j] - 1] ELSE nlines
        BY <1>5 DEF LineRelease
      <4>2. nlines \in [Keys -> Int]
        BY DEF TypeOK
      <4>. QED
        BY <4>1, <4>2
    <3>2. nlines[k] \in Int /\ nlines[k] >= Debt(k)
      BY DEF TypeOK, Booked
    <3>. QED
      BY <2>2, <3>1, <3>2
  <2>4. ASSUME NEW u \in Uids, disp'.pc = "write", Current(u)' PROVE disp'.copy >= Debt(u)'
    <3>1. u \in Keys /\ disp.copy \in Int
      BY DEF Keys, TypeOK, Dispatches
    <3>2. disp.copy >= Debt(u) /\ disp' = disp
      BY <1>1, <2>4 DEF Booked, Current
    <3>. QED
      BY <2>2, <3>1, <3>2
  <2>. QED
    BY <2>3, <2>4 DEF Booked
<1>6. CASE ReleaseBranch
  <2>1. hnd.row \in Rows /\ Branch[hnd.row] \in Uids /\ TaskGeo[Branch[hnd.row]] \in Geos
    BY <1>6, RowData, TaskData DEF ReleaseBranch, TypeOK, Filed, Handlings
  <2>2. Branch[hnd.row] \in Keys /\ Branch[hnd.row] # TaskGeo[Branch[hnd.row]]
    BY <2>1, KeysDisjoint DEF Keys
  <2>3. hnd.pc = "relBranch" /\ hnd'.pc = "relGeo" /\ hnd'.row = hnd.row /\ UNCHANGED stream
    BY <1>6 DEF ReleaseBranch, TypeOK, Handlings
  <2>4. /\ GivingBack(Branch[hnd.row])
        /\ \A k \in Keys : GivingBack(k)' => GivingBack(k)
    BY <2>2, <2>3 DEF GivingBack, Releasing, KeysOf
  <2>5. ASSUME NEW j \in Keys, j = Branch[hnd.row] PROVE Booked'
    <3>1. ~GivingBack(j)'
      BY <2>2, <2>3, <2>5 DEF GivingBack, Releasing
    <3>. QED
      BY <1>5, <1>6, <2>3, <2>4, <2>5, <3>1 DEF ReleaseBranch
  <2>. QED
    BY <2>2, <2>5
<1>7. CASE ReleaseGeo
  <2>1. hnd.row \in Rows /\ TaskGeo[Branch[hnd.row]] \in Keys
    BY <1>7, RowData, TaskData DEF ReleaseGeo, TypeOK, Filed, Handlings, Keys
  <2>2. hnd.pc = "relGeo" /\ hnd'.pc = "recv" /\ UNCHANGED stream
    BY <1>7 DEF ReleaseGeo, IdleHnd
  <2>3. GivingBack(TaskGeo[Branch[hnd.row]]) /\ \A k \in Keys : ~GivingBack(k)'
    BY <2>2 DEF GivingBack, Releasing
  <2>4. ASSUME NEW j \in Keys, j = TaskGeo[Branch[hnd.row]] PROVE Booked'
    BY <1>5, <1>7, <2>2, <2>3, <2>4 DEF ReleaseGeo
  <2>. QED
    BY <2>1, <2>4
<1>. QED
  BY <1>3, <1>4, <1>6, <1>7 DEF Handler

\* The end of the event loop forgets Hangups that were never paid out.
LEMMA EnvironmentBooked ==
  ASSUME "crash" \notin Env, TypeOK, TypeOK', Booked, Environment \/ UNCHANGED vars
  PROVE  Booked'
<1>1. /\ UNCHANGED <<disp, nlines, call, legs, hnd>>
      /\ stream' = stream \/ stream' = <<>>
  <2>1. \A sent \in BOOLEAN : ~Crash(sent)
    BY DEF Crash
  <2>2. CASE LoseEvents
    BY <2>2 DEF LoseEvents
  <2>3. CASE \/ \E k \in Keys : \E item \in LimitItems[k] : Reload(k, item)
             \/ \E q \in Queues, n \in Available : PollQueue(q, n)
             \/ \E u \in Uids : ToggleTask(u) \/ ToggleWindow(u)
             \/ \E r \in Rows : RetryElapses(r)
             \/ UNCHANGED vars
    BY <2>3 DEF Reload, PollQueue, ToggleTask, ToggleWindow, RetryElapses, memory, vars
  <2>. QED
    BY <2>1, <2>2, <2>3 DEF Environment
<1>2. ASSUME NEW k \in Keys PROVE Debt(k)' <= Debt(k)
  <2>1. Launched(k)' = Launched(k) /\ HungUp(k)' = HungUp(k)
    BY <1>1 DEF Launched, HungUp
  <2>2. Unread(k)' \subseteq Unread(k) /\ (GivingBack(k)' <=> GivingBack(k))
    BY <1>1 DEF Unread, GivingBack, Releasing
  <2>. QED
    BY <2>1, <2>2, DebtKept
<1>. QED
  BY <1>1, <1>2, BookedFrame

LEMMA DebtIsPaid ==
  ASSUME TypeOK, Booked
  PROVE  ReleasesBacked
<1>1. ASSUME NEW k \in Keys
      PROVE  Cardinality(Launched(k)) <= nlines[k] + Cardinality(HungUp(k))
  <2>1. nlines[k] \in Int /\ nlines[k] >= Debt(k)
    BY DEF TypeOK, Booked
  <2>2. Debt(k) >= Cardinality(Launched(k)) - Cardinality(HungUp(k))
    BY DebtSets DEF Debt
  <2>. QED
    BY <2>1, <2>2, DebtSets
<1>. QED
  BY <1>1 DEF ReleasesBacked

(***************************************************************************)
(* Until the program is restarted, every line of a branch or geo that is   *)
(* not counted any more was given back by a Hangup of its own: for any     *)
(* rows, numbers shared by any branches, halves, twins, retries, refused   *)
(* originates, failed UPDATEs, late events and the end of the event loop.  *)
(***************************************************************************)
THEOREM ReleasesAreBacked ==
  ASSUME "crash" \notin Env
  PROVE  Spec => []ReleasesBacked
<1> DEFINE Inv == TypeOK /\ Filed /\ Accounts /\ Channels /\ Booked
<1>1. Init => Inv
  BY InitTypeOK, InitFiled, InitAccounts, InitChannels, InitBooked
<1>2. Inv /\ [Next]_vars => Inv'
  <2> SUFFICES ASSUME Inv, [Next]_vars PROVE Inv'
    OBVIOUS
  <2>1. TypeOK' /\ Filed' /\ Channels'
    BY StepTypeOK, StepFiled, StepChannels
  <2>2. Accounts'
    BY DispatcherAccounts, GoroutineAccounts, HandlerAccounts, EnvironmentAccounts DEF Next
  <2>3. Booked'
    BY <2>1, DispatcherBooked, GoroutineBooked, AsteriskBooked, HandlerBooked,
       EnvironmentBooked DEF Next
  <2>. QED
    BY <2>1, <2>2, <2>3
<1>3. Inv => ReleasesBacked
  BY DebtIsPaid
<1>. QED
  BY <1>1, <1>2, <1>3, PTL DEF Spec
====
