# Formal models of robocall

robocall is an outbound dialler for Asterisk. Operators upload tasks (a CSV
file of numbers, dates, limits); a worker expands the files of enabled tasks
into rows of `calls_queue`; a dispatcher turns due rows into calls, as far as
the configured lines allow; AMI events report what becomes of them. The Go
program keeps everything about running calls in maps shared by goroutines.

This directory holds TLA+ models of that core, TLC runs over small instances
of them, and theorems checked by TLAPS for every instance.

## The system

| part | state | operations | hard because |
|---|---|---|---|
| dispatcher, `processCallQueueue` (database.go:512) | its pass over tasks and their ready rows | per task: make counter entries, write back cps, check limits, read ready rows, take lines, `go processCall` | checks once per batch; touches the maps outside the mutex; rows stay ready while it runs again every 20 ms |
| call goroutine, `processCall` (database.go:723) | one row | find the number, pause, add it, take an attempt, hand over through `callChan` | a pause between look-up and add; errors do not stop it |
| originator, `initOAMI` (asterisk.go:383) | the call it is originating | one AMI `Originate` at a time | refused originates undo nothing |
| event loop and handler, `run`, `handleEvents` (asterisk.go:236, 324) | a copy of the entry it is working on | `Newchannel`, `BridgeEnter`: state of the entry; `Hangup`: delete it, release two lines | matches by number; writes copies back; a read error ends the loop for good |
| shared maps (database.go:154-158) | `limitsMap`, `worklimitsMap` (lines in use), `callEntry` (calls online) | add, find, delete, line get, line release | unlocked accesses; lost at a restart |
| limits, `processLimits` (database.go:467) | `limitsMap` | read geos and tasks once a second, publish a new map and fill it | replaced and filled while the dispatcher reads it |
| queue poll, `initAMI` (asterisk.go:277) | `queuesMap`, the table `queues`, an AMI connection | request a summary once a second, read the answer, store it per queue | answers left over, lost connections, a timeout nobody looks at |
| pacing (database.go:522, 604, 726) | none | the period of the dispatcher, the pause of a batch | each goroutine sleeps on its own |
| call window, `isCurrentTimeBetween` (database.go:767) | none | is it open now? | midnight, equal ends, ends that do not parse |
| task expansion, `processTasks` (database.go:374) | a snapshot of ready tasks, an open transaction | expand each file, mark the task done, report it | crash or error half-way; deletion and re-enabling meanwhile |
| task handlers (database.go:287, main.go:444, 479, 492) | rows of `tasks` and `geos` | upload, enable, delete, make a geo | no check of the state they change, nor that the geo of a task exists |
| web pages, users, reports | sessions | forms and SELECTs | not modelled |

They interact through MySQL (`tasks`, `calls_queue`, `dialer_branches`), the
three maps, the channel `callChan`, and Asterisk.

## Modules

| module | what it is |
|---|---|
| `Dialer` | dispatcher, call goroutines, originator, event handler, the maps, and Asterisk's channels as environment |
| `AttemptLedger` | abstract: attempts are paid before calls are placed; `Dialer` implements it |
| `LimitsLoading` | `processLimits` step by step, and the dispatcher's reads of the cps in `limitsMap` |
| `QueuePoll` | the poll of Asterisk's queues: AMI requests, retry and reconnection, what is stored |
| `CallWindow` | `isCurrentTimeBetween` over the times of a day, and the reference it is compared with |
| `CallTiming` | ticker, window, pause and the wait for `initOAMI`, over discrete time; extends `CallWindow` |
| `TaskExpansion` | task handlers and `processTasks` |
| `QueuedFiles` | abstract: files are queued whole, once per enable; `TaskExpansion` implements it |
| `MCDialer`, `MCLimitsLoading`, `MCQueuePoll`, `MCCallTiming`, `MCTaskExpansion` | values for the constants of the runs |
| `DialerProofs`, `DialerBounds`, `DialerLedger`, `DialerCalls` | theorems about `Dialer` |
| `LimitsProofs`, `QueuePollProofs`, `TimingProofs`, `ExpansionProofs` | theorems about the others |

`Dialer` is the composition of the parts that place calls. What it takes from
its surroundings it takes at its most general: limits and free agents change
to any value at any time, the window opens and closes at any time, a pause has
any length. The modules about limits, the poll and timing say what those
surroundings really do.

A definition after a comment "Mutant of" is a plausible fault of the one that
follows it (`LineGetBranchOnly` of `LineGet`); nothing uses it in the
specification. Such definitions exist to show that each checked property
notices a fault.

### Dialer and the code

Variables are named after the state they stand for: `limits` is `limitsMap`,
`known` and `nlines` are the keys and the `NLines` of `worklimitsMap`,
`callEntry` is the map of calls online, by number. `disp` is the dispatcher
(`task`: between tasks, `write`: holding the copy it read at database.go:561,
`check`: at line 577, `calls`: in the loop of line 598). `call[p]` is a
goroutine and then the call it became. `hnd` is the handler and the copy it
took. `stream` holds the AMI events not handled yet, `retries`, `due`,
`active`, `open` what the queries and the window return.

Every access to a shared map is an action of its own, except where merging
changes nothing a step in between could see or disturb:

* the two `LimitsLineGet` and the `go` statement (`Launch`): increments
  commute with every other step except the unlocked write-back, which the same
  goroutine makes, and the goroutine launched has done nothing yet;
* the reads of `HasLine` and `getReadyCalls` (`ReadCalls`): a release between
  them only makes more room, a row changed between them is one the query
  returns as it is then, and a stale batch is reached by the steps that follow;
* `CallsAdd` with state 3 and `CallsDelete` (`DeleteEntry`): nobody reads the
  state, and an add in between is overwritten and deleted in either order;
* `CallsFind` of the queue and the read of `Available` (`MayDial`).

`Reload` changes one key at a time, so a pass may see any mixture of an old
and a new `limitsMap`, which covers the map being filled after it is published
(database.go:499). A geo id of 0 is never dispatched with lines (no geo has
it, its limit reads as 0), so the handler's `GeoID != 0` test always passes.

Calls are dialed as `Local/<number>@...`: Asterisk makes one channel per half,
both named after the number, and both report `Newchannel` and `Hangup`. `Legs`
is the set of halves. The events carry the number only.

`Crash` covers `log.Fatal` on database and AMI errors, panics, and Go's fatal
error for unsynchronised map accesses; compose.yml restarts the program.

The pause of a goroutine runs from its look-up (`FindEntry`) to its add
(`AddEntry`), which nothing but the mutex guards: any event may be read and any
other goroutine may add the same number in between.

`Env` names the faults and changes an instance exercises, so that each run
states what it needs.

### TaskExpansion and the code

`ready` is the column of `tasks` (0 off, 1 ready, 2 done) plus rows that do not
exist yet or any more. The worker's transaction is `cur` and `pos`: nothing it
writes is visible before `Commit`, and the row lock its UPDATE takes makes
enabling and deleting wait for it, so UPDATE, INSERT and COMMIT are one step.
A file is a sequence of record kinds, the only thing the control depends on.
`geos` are the ids of rows of that table: the query joins them
(database.go:398), so a ready task whose geo has no row is not read. Nothing
holds `tasks.geo_id` to such a row, and `MakeGeo` may make it at any time; no
handler deletes one.

`Queue!Spec` maps the detailed state to `QueuedFiles` by identity on the
committed tables: the worker's snapshot, its transaction and the state of the
tasks are what the abstract specification does not have.

### LimitsLoading and the code

`db` holds `nlines` and `cps` of tasks and geos, which operators change
(`Upload`, `EditBranch`, `EditGeo`, `Delete`, a handler each), `limits` the map
`limitsMap` refers to, `work` the cps of `worklimitsMap`. The loader reads
geos, then tasks (`FetchGeos`, `FetchTasks`: an edit may fall between), takes
the mutex (`Lock`), and puts in one task at a time. Its new map is what the
dispatcher reads from the first task on (database.go:498 is inside the loop),
so `Put` replaces `limits` by the geos and that task, and adds to it after.
Without a task `limitsMap` stays as it was. `FetchGeosPart` is a connection
lost while the geos are read: `fetchGeos` does not look at `rows.Err`
(main.go:689-702), `getTasks` does.

The dispatcher calls `LimitsFind` and `LimitsAdd`, which wait for the mutex
(`~Filling`), and reads `limitsMap` four times at database.go:560-563 without
it; each read is a step. `Done` leaves a task. Lines are not followed here
(`Dialer` does), and the cps of a geo's entry is never read by the code. Every
existing task counts as active: the dates and `ready = 2` that
`getActiveTasks` asks for only leave tasks out. `cut` and `clear` are history.

### QueuePoll and the code

`poll` is the goroutine `initAMI`, between two of its waits: the ticker, the
write, `Recv`. `link` is what has become of its connection: `closed` is known
to Asterisk only, `broken` to the program as well. `pending` are the requests
Asterisk has not answered, `wire` what was sent to the program and not read.
Messages keep what the control depends on (`Response: Success` or not, the
event, the queue); an `Error` response has a text, an event has none, which is
why reading an event where a response is due counts as transient
(asterisk.go:196-203). All requests of a connection have one `ActionID`
(`as.uuid`), so the comparison at asterisk.go:157 never fails and is left out.
The first write after Asterisk closed may succeed, the second fails; reading
past what has arrived is EOF, which is not transient.

A queue's numbers are one value, `agents`, counting its changes: equal values
are equal summaries. `table` outlives the process, `queuesMap` does not.
`StoreMap` and `UpdateRow` are the two halves of `UpdateQueueSummary`, and
`StoreFails` is any of its statements failing: `log.Fatal`, and a restart.

### CallTiming and the code

`Advance` lets a tick of time pass, when nothing is due; so whatever the
program does between two sleeps takes no time, and the checks bound the delays
that sleeping, and not the machine, adds. `Pass` is a pass of the dispatcher
over one task; its batch is launched as one, as rows are launched without a
pause in between. `Pause` is the choice at database.go:604-614; the branch's
`worklimitsMap` cps of 0 (20 ms) is a value of `CpsPause` like another. `Wake`
is the part of `processCall` after its sleep. A row has a number of its own,
and a goroutine that finds its number online is left out, as it does nothing
more; how numbers are shared is `Dialer`'s. `Originate` may be refused, which
leaves the row online for good, or open the channels of a call, `Halves` of
them. `channels` counts those Asterisk has not hung up; each hangs up at any
time, before the response is read or long after `retry_time` has passed, and
takes the entry its number has by then. `dials` and `sinceDial` are
history: calls of a row since it was last due, time since the last call.

## Runs

Bounds: `Calls` bounds the goroutines ever launched, `MaxEnables`, `MaxFaults`
and `MaxChanges` the enables, faults and changes of agents. No run disables
deadlock checking.

| run | instance | shows |
|---|---|---|
| `lines` | 2 branches of 1 geo, 2 rows, 1 number, 2 goroutines, both halves hang up; UPDATEs may fail | `LinesCoverClaims`: no interleaving frees a line twice; `OvershootBounded`; `NoOrphanEntry`: every number online has something that takes it offline; `TypeOK` |
| `covered` | 1 row with 1 attempt, 2 lines, 3 goroutines, both halves hang up, cps written back; originate may fail, the event loop may die | `ReleasesBacked`: a line taken stays counted until a Hangup gives it back, and no Hangup gives back two; `LinesCoverClaims` |
| `restart` | progressive task, 1 row, 2 goroutines; agents, task, window come and go; restarts | `AttemptsBacked` (refinement of `AttemptLedger`), `NoOrphanEntry`, `NumbersGoOffline`, `GoroutinesSettle` |
| `limits` | 2 branches, uploaded, edited and deleted, 2 geos, one of them edited; 1 failed or broken-off query | `OverrideIsConfigured`, `EditsReachLimits`, `CpsCatchesUp`, `TypeOK` |
| `queue_poll` | 2 queues, each with 1 change and removable; 2 faults: refused, stray, connection lost, statement failed | `LagBounded`, `BlockedOnlyOnSilence`, `MapMatchesTable`, `AvailableCatchesUp`, `TypeOK` |
| `timing` | day of 8, 7 windows with ends 0, 2, 5 or unparsed; 2 rows with 2 attempts, calls of 2 channels and any length; pauses 3 and 2, a ticker of 1 or 4 | `WindowIsArc`, `DialsBounded`, `LateBounded`, `TypeOK` |
| `expansion` | a good, a refused and a single-column file, 2 enables each, 2 geos made at any time, 2 faults | `WholeFiles`, `OncePerEnable`, `ReadyTasksExpand`, `FilesQueued` (refinement of `QueuedFiles`), `TypeOK` |

Why the instances are enough:

* Line accounting goes wrong between a goroutine that launches, one that holds
  the number and one Hangup, on a branch counter and on a geo counter another
  branch shares. `lines` has two goroutines over one number and two branches,
  with the Hangup of a second half; `covered` has three over one row, for which
  two lines let the goroutines of several passes wait together, with the
  write-back of its cps anywhere between. The overshoot of a branch with one
  row, a limit of one and goroutines launched by several passes has room to
  break.
* `restart` has two goroutines so that a call from before the restart and one
  from after it compete for one row.
* The race in `limits` is between the comparison at one task and a load that
  publishes with another: two branches of two geos give every order of the
  reads and of the map's filling, and an edit of the geo falls between the
  queries of a load.
* Two faults in `queue_poll` give a stray followed by a lost connection, a
  lost connection at the reconnection, or a failed statement after either. With
  two queues a list can be cut short between them, and an answer may be read
  while an older one is left over.
* In `timing` the pauses are longer and shorter than the ticker, one row alone
  is a small batch and two are not, and the day is short enough for windows
  over midnight to open and close within a pause. `retry_time` is 10, so with
  two attempts a call may outlast it and the row be launched again after.
* `expansion` has one file of each behaviour, and the geo of the file that
  stops the worker may be made before or after that of the others.

Five runs show statements of the documentation that the code breaks:

| run | statement | what happens |
|---|---|---|
| `overrun` | README.md:5-7, "configurable limits" | one line, two ready rows: both are dialed (database.go:577, 598) |
| `leak` | database.go:155, "lines actually in use" | a goroutine that finds its number online keeps two lines (database.go:738) |
| `attempts` | upload.html:120, "number of dialling attempts" | two goroutines look up a number before either adds it (database.go:725-728): two calls for one attempt |
| `paced` | upload.html:91, "calls per second (no more than)" | the goroutines of a batch sleep the same pause at the same time and then dial one after the other (database.go:726) |
| `cps` | database.go:154, "limits are read once a second" | a branch at work, whose geo has a cps, is edited: its working cps stays (database.go:560) |

More is visible in the models without a run of its own:

* A refused `Originate` (`"originate"` in `Env`) is logged and nothing else
  (asterisk.go:431): its number stays online, its lines stay taken. It breaks
  `LinesActuallyInUse` with a single goroutine.
* A goroutine may add its number between the Hangups of the two halves of its
  twin's call (asterisk.go:359, database.go:725-728): the second one deletes the
  new entry and releases the lines of the call that is about to be made, which
  is then up and not counted.
* After a restart the counters start at zero while calls are up
  (database.go:155).
* `/task-edit` enables an expanded task again (main.go:483), after which its
  numbers are queued a second time. No statement forbids it; `OncePerEnable`
  counts it as a new enable.

What does hold: `LinesCoverClaims` says that no release ever finds a counter
too low, whatever it releases; the leaks, of skipped goroutines and of refused
originates, are upwards and stay. `OvershootBounded` limits what the batch
adds, however many passes, leaks and edits: less than the rows of the branch
above its limit. `ReleasesBacked` says how far the counters may fall short of
the calls that are up: every line that is not counted any more was given back
by a Hangup of a channel to a number of the branch or geo, one line for one
Hangup, through unlocked write-backs, stale copies, second halves and numbers
several branches share. So the shortfall is at most the Hangups that came for a
second half or for a call of another branch. It ends with a restart. How many
calls are then up beyond the limit the code does not bound, and no property
says that it does.

`DialsBounded` says how far the `attempts` run can go: as many calls as the
pause has ticks, and one; with the code's 200 ms and 20 ms that is eleven. How
long the calls last does not matter to it: a call that outlasts `retry_time`
keeps its row from being launched, and when it hangs up the row is launched
again, in a round of its own.
`LateBounded` counts the calls that may be ahead of one in `callChan`. It needs
a `retry_time` longer than the responses of those calls take, 10 against at
most 8 in the instance, so that no row is in `callChan` for two attempts: with
a `retry_time` so short that a row falls due while its calls wait, both bounds
can be exceeded. `LagBounded` allows what
the code cannot help: an event that arrives where a response is due is taken
for one, the retry leaves an answer behind, and every later poll of that
connection is one poll late; the login asks for no events, which makes it rare.
Nothing bounds the time a poll waits: a silent Asterisk blocks it, whatever
its context says (asterisk.go:210), which is why `AvailableCatchesUp` needs the
fairness below. `CpsCatchesUp` is `[]<>`: a read in the middle of a load can
make the working cps zero, and the next pass that meets no load repairs it.

## Fairness

`LiveSpec` of `Dialer` assumes weak fairness of each goroutine and of the
handler (the Go scheduler runs what is not blocked; senders on a channel and
waiters for a mutex are served in turn), and of each channel coming up and
hanging up (`Originate` is sent with a timeout, calls end). Fairness of a
goroutine includes that Asterisk answers every `Originate`: its context is
ignored (asterisk.go:191), and an answer that never comes would block
`initOAMI`, and every goroutine behind it, for ever. Nothing is assumed
of the dispatcher, of answering, or of operators. `LiveSpec` of `TaskExpansion`
assumes weak fairness of the worker: its ticker fires and its queries return.

`LiveSpec` of `LimitsLoading` assumes weak fairness of the loader and of the
dispatcher (a ticker each, and a mutex whose waiters are served in turn), and
`[]<>ClearPass`: not every pass is met by a load. The dispatcher ticks fifty
times a second and the loader once, so a pass in phase with every load cannot
be what the program does for ever. Operators owe nothing. `LiveSpec` of
`QueuePoll` assumes that the poll goes on (its ticker, the scheduler, MySQL
answering), that Asterisk answers a request on a connection that stays open,
and that Asterisk, when it stopped, is started again.

## Proofs

All theorems are for every value of the constants under the named assumptions
of the modules (finite sets of rows, numbers, goroutines and queues; branch and
geo keys disjoint; task ids distinct; limits at least one and at most
`MaxLines`; times natural, a day not empty).

* `TypeCorrect` (`DialerProofs`): `TypeOK`, with `Filed`: launched goroutines,
  entries and a busy handler have their row, and an entry is filed under the
  number of its row. Without it an event or a write-back would have no number.
* `LinesCovered` (`DialerProofs`): `LinesCoverClaims`. It is not inductive: the
  dispatcher's copy (`disp.copy`) may be written back over releases. `Accounts`
  adds `PassOnTask` (while the dispatcher holds a task its entries exist, so a
  line taken is counted, and its copy covers the branch's claims) to `Covered`.
  The proof follows each claim: from a waiting goroutine to the number it adds
  (`ClaimMovesToNumber`), from the number to the release
  (`ClaimMovesToRelease`), to the counter (`ClaimReleased`); `ClaimSets` and
  the cardinality lemmas do the arithmetic.
* `OvershootIsBounded` (`DialerBounds`): `LinesBounded` adds `PassBounded`: what
  is in use and what the batch may still launch stay below the cap together.
* `AttemptsAreBacked` (`DialerLedger`): if no UPDATE fails, `Dialer` implements
  `AttemptLedger`. `Backed` says that the attempts taken off a row are exactly
  those of the goroutines marked as having paid, that no goroutine is sent
  unpaid, and that at most one call is being originated: so a restart, which
  leaves that call in doubt, is one step of the ledger at most.
* `NoEntryIsOrphaned` (`DialerCalls`), while Asterisk takes every originate and
  the event loop lives ("originate" and "events" not in `Env`), as in the runs
  that check it; a call refused or an event loop that died does leave its number
  online for good. `NoOrphanEntry` is inductive with `Channels`: channels belong
  to calls that were originated, and the number the handler works on is online.
  The proof follows what ends an entry (`Ender`): goroutine, channel, Hangup on
  the stream, handler. Late events, restarts, failed UPDATEs and numbers shared
  by several branches are all covered.
* `ReleasesAreBacked` (`DialerCalls`), without "crash" in `Env`: a restart
  empties the counters. Everything else is covered: shared numbers, second
  halves, refused originates, failed UPDATEs, a dead event loop.
  `ReleasesBacked` is not inductive: a Hangup counts when the channel goes down,
  and gives back its line only when the handler gets there. `Booked` puts the
  steps between on the bill: the Hangups on the stream (`Unread`) and the
  handler from its look-up to its release (`GivingBack`) are paid for in
  advance (`Debt`), and so is what the dispatcher has copied and will write back
  (`disp.copy`). Each lemma `...Booked` follows one step: a launch adds a
  goroutine and a line, a channel that hangs up adds a Hangup to both sides,
  taking it off the stream moves it to the handler, a release takes it off.
* `LimitsTypeCorrect`, `NoPhantomOverride` (`LimitsProofs`): the dispatcher's
  zero for a geo is a configured one. The argument is the order in which a load
  fills its map, and `IInv` spells it out: geos always have a row and so are
  read (`GeosExist`, `GeosRead`); a map that holds anything holds every geo
  (`GeosFirst`); so a dispatcher that compares with a cps above zero, which it
  can only have read of an entry, finds its geo loaded (`CpsIsLoaded`). Only
  geos once read in part (`cut`) break it.
* `PollTypeCorrect`, `MapFollowsTable` (`QueuePollProofs`): `Updating` adds
  that a poll that updates a row has written the same summary to the map.
* `NeverWaitsInVain`, `LagIsBounded` (`QueuePollProofs`): neither is inductive.
  `Framing` says that on an open connection the rest of an answer follows
  wherever the poll reads: what is on the stream is whole (`Framed`), the poll
  is inside an answer exactly when it reads a list, and then its end is there.
  `Lag` counts: requests not answered and messages a poll would take for a
  response are no more than the strays and the one the poll is waiting for.
  `AnswerWhole`, `SendWhole` and `ReadOne` are the lemmas on sequences: an
  answer is whole in any order of its queues, appending keeps the framing,
  reading takes one message off the count.
* `WindowsAreArcs`, `TimingTypeCorrect` (`TimingProofs`): the strict comparisons
  of `isCurrentTimeBetween`, with the case over midnight, are the way round the
  clock; and with `NothingOverdue` time never passes a sleeper or a tick by.
* `DialsAreBounded`, `LatenessIsBounded` (`TimingProofs`), under
  `RetryOutlasts`: `retry_time` is longer than the responses to all launches of
  all rows (one response each, as long as it may take). The condition is
  sufficient, not the weakest, and says nothing of how long calls last; a retry
  of minutes satisfies it for any task a branch can dial in that time. One
  invariant, `Timely`, gives both. The goroutines of a row that sleep are a
  tick apart (`TicksApart`), so one pause holds at most `Launches` of them.
  They, the calls of the row that wait and the calls already dialed are
  together no more (`OneRound`), because a row is launched afresh only when it
  is due, and then none of its calls waits: the responses ahead of a call are
  over before its row falls due (`OverBeforeDue`). That holds of a call that
  joins the queue because all that wait, the one being originated and it are
  launches of their rows (`NoMoreCalls`), and counting them by rows
  (`GroupsCount`) bounds the queue ahead; `InTurn` turns the place in the queue
  into time. `ApartCount`, `NoLarger` and `GroupsCount` are the lemmas that
  count.
* `ExpandedOncePerEnable`, `FilesStayWhole`, `ExpansionTypeCorrect`,
  `ImplementsQueuedFiles` (`ExpansionProofs`): `OncePerEnable` by `Owed` (a task
  ready or in the worker's snapshot has an enable left over), and `WholeFiles`,
  which is inductive; a `Commit` is a `QueueFile` of the abstract specification
  because of both, every other step but `Enable` a stutter.

Every invariant of the runs and both refinements are proved. Only
model-checked is what is out of the prover's reach, the liveness properties
(`NumbersGoOffline`, `GoroutinesSettle`, `ReadyTasksExpand`,
`AvailableCatchesUp`, `EditsReachLimits`, `CpsCatchesUp`): fairness and ENABLED
are beyond it, and so are induction over data and RECURSIVE operators, of which
these modules have none.

## Not modelled, and the plan

Left aside, for good:

* Web pages, sessions, users, reports and CSV export: form handling and
  SELECTs. They hold no state the dialler depends on beyond the columns of
  `tasks` and `geos` modelled here, and render what they read.
* Configuration, identifiers, installation scripts, the dialplan: read once or
  not run by the program.
* In `LimitsLoading`, geos made while it runs (a geo that is not loaded yet
  reads as zero lines, so nothing is dialed for it, but its branches may take
  their own cps for that second) and a restart (`Crash` in `Dialer` empties
  the maps, and `LimitsLoading` starts from empty ones).
* A connection that is half open: to the program it is a silent Asterisk.
* The number of calls placed for a free agent: the code promises none.

What is left to do:

1. `LimitsLoading` composed with the lines of `Dialer`: how long a lowered
   limit may be exceeded while the map is replaced.
2. The safety half of the liveness properties as theorems: what a goroutine, a
   task that is ready or a stale queue waits for is there (that it comes is
   fairness, and stays with TLC).
3. A weaker condition than `RetryOutlasts`: only calls ahead of a row's own
   need to be over.
