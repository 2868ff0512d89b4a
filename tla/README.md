# Verification of dispatchly

dispatchly schedules drivers: a Go server keeps one in-memory schedule, a React
client edits it over generated WebRPC calls, and a `/stream` endpoint pushes
NATS messages to browsers as server-sent events. This directory holds TLA+
models of the parts whose correctness depends on concurrency, order and partial
failure, TLC configurations that check them on small instances, and TLAPS proofs
for instances of any size: about the store, the requests, the calls, the event
stream, the process, the client's timetable and the dispatcher's page. Every
invariant that a passing run checks is also proved. Paths below are relative to the repository.

## 1. Inventory

| Component | State | Operations | Talks to |
|---|---|---|---|
| Store, `internal/data/database.go` | `Schedule` (partition → sort key → task), `actionCh` (buffer of 1000 closures), `quitCh` | `Run`, `Stop`, `CreateTask`, `DeleteTask`, `ReadTask` (no caller), `ReadSchedule` | its callers, by a closure on `actionCh` and a reply channel per call |
| Schedule requests, `internal/data/data.go`, `internal/rpc/rpc.go` | none of their own; one goroutine per request | `Schedule.ByDriver`, `Task.Create`, `Task.Delete`, `Update.Task`, `generateViewSchedule`, `parseHourString` | the store; the WebRPC server above |
| Event stream, `handlers.go`, `stream.go`, `broker.go` | per request: three channels, a subscription, four goroutines | `Stream`, `run`, `connect`, `disconnect`, `Broker.Sub`, `Pub` | NATS client below, browser above |
| Process lifecycle, `cmd/dispatch/dispatch.go`, `nats.go` | servers, signal and error channels | start order, `Server.Run`, `Server.Quit`, graceful shutdown, `db.Stop` | everything |
| WebRPC server and clients (generated), `internal/proto/dispatch.gen.go`, `rpc/dispatch.gen.ts` | per call: a request, its context, a connection | `ServeHTTP`, `serve*`, error codes and HTTP statuses, `doJSONRequest`, `errorFromResponse`, `buildResponse` | schedule requests below, `useRPC` above |
| Conversions, `data.go`, `utils.js` | none | `uniqueDays`, `startHrString`, `createViewSchedule`, `validateTask`, `nextTimeSlot`, `getTaskDuration` | schedule requests, client |
| Browser client, `react-client/src` | the store of `useAppStore.js`, component state, requests in flight | `useRPC`, `useSSE`, `TaskCreator`, `UpdateModal`, `SpanTable`, tabs | WebRPC and `/stream` |
| Routing `app.go`, logger, `web.go` | none | wiring | – |

What is hard about each, and what makes it correct:

* **Store.** Concurrent callers, a bounded queue, two kinds of reply channel
  (buffered: the actor never waits; unbuffered: it does), a stop request that
  competes with queued work. Correct if a method's effect happens at one instant
  between call and return, no answer is lost, doubled or misdirected, the actor
  cannot be left waiting for somebody who is gone, nothing stored is overwritten,
  and every call is answered until the store is stopped.
* **Schedule requests.** `Update.Task` is many store calls with other requests in
  between and no rollback; `ReadSchedule` returns the *live* inner map, which the
  handler walks while the actor writes it; start hours are texts, several texts
  name one hour, and some make the handler panic. Correct if acknowledgements
  account for the tasks, a failed update leaves exactly what it did not delete,
  keys and tasks agree on the hour, and a view is exact for what nobody touched.
* **Event stream.** Two unbuffered rendezvous and two closes across four
  goroutines, three simultaneous `select` cases, a channel whose closer depends on
  who failed. Correct if messages are relayed in order without gaps, no
  subscription survives its request, no channel is closed twice or sent on after
  its close, and every request that ends is torn down completely.
* **Lifecycle.** Signals and listener failures in any order, two goroutines that
  both handle SIGINT, a shutdown timeout with handlers still running, then `db.Stop`,
  `broker.Close` and NATS' `Quit`. Correct if each layer goes only after its users,
  an accepted request is answered or has had its deadline, the process ends, and when
  `run` returns nil it has left nothing behind. A `Ping` leaves a goroutine that uses the
  broker for 50 seconds more and that nobody waits for (section 5).
* **Conversions.** Hours that wrap at midnight, slots in any order that write the
  same hours of the view. Correct if tasks that do not overlap are shown exactly and
  the client's check finds exactly the tasks a new one would overlap.
* **WebRPC.** A client may give up, or its connection break, while the server carries
  on; a panic is answered and raised again into the router's `Recoverer`; an error's code
  becomes a status and, on the other side, an error again. Correct if every request
  that names a method is answered in webrpc's terms, and if what a caller is told is
  true: "ok" of the whole call, a refusal of none of it.
* **Client.** Responses out of order, a conflict list computed earlier than it is
  used, errors that reset the displayed schedule. Correct if the timetable shows the
  selected driver and week once everything is answered, and buttons act on the task
  they are shown with.

`PROJECT.json` lists the hazards at their lines with the properties that cover
them; those without a property say why.

## 2. Modules

| Module | Models | Role |
|---|---|---|
| `StoreTypes` | closures, answers, Go maps | shared vocabulary |
| `TaskStore` | – | abstract specification: an atomic store |
| `Database` | `database.go` | the actor; refines `TaskStore` |
| `DatabaseProofs` | – | invariants and action properties of `Database`, and that it implements `TaskStore`, proved |
| `TaskService` | `data.go`, `rpc.go` | requests; contains an instance of `Database` and takes its actions as its own |
| `TaskServiceProofs` | – | all its invariants, and that its handlers see an atomic store, proved with an instance of `DatabaseProofs` |
| `WebRPC` | `dispatch.gen.go`, `dispatch.gen.ts`, `app.go` | calls from a client's method to the store and back |
| `WebRPCProofs` | – | answers and verdicts, proved |
| `Stream` | `handlers.go`, `stream.go`, `broker.go` | one `/stream` request |
| `StreamProofs` | – | the teardown's and the messages' invariants, proved |
| `Lifecycle` | `dispatch.go`, `nats.go`, signal handling of the embedded server | the process; contains an instance of `Database` |
| `LifecycleProofs` | – | the order of the shutdown, and that the store in the process is `Database`, proved with an instance of `DatabaseProofs` |
| `ScheduleView` | `utils.js` | the client's conversions as operators; `createViewSchedule`'s loop as a function (`ViewOf`) |
| `ScheduleViewProofs` | – | lemmas about them, for `CreateView` and `Dashboard` |
| `CreateView` | `createViewSchedule` | its loop over the slots of a response, in any order, step by step |
| `CreateViewProofs` | – | what the view and the conflict check are worth, proved |
| `Dashboard` | `useRPC.js`, `TaskCreator.js`, `SpanTable.js`, `UpdateModal.js`, `Dispatcher.js` | the dispatcher's page, over `ScheduleView`, and the server it talks to |
| `DashboardProofs` | – | all its invariants, proved |
| `MCDatabase`, `MCTaskService`, `MCWebRPC`, `MCStream`, `MCLifecycle`, `MCCreateView`, `MCDashboard` | – | constants and symmetry for TLC |

### Database

`Schedule`, `actionCh` and the reply channels are variables of those names; a
closure is the record of its method and captured arguments, and the queue holds
its caller's name (a caller has one call at a time, so the name identifies the
closure). `pc` says whether a caller is outside, blocked in `actionCh <- f`, or
waiting for its answer. A closure's execution is one action, `RunAction`: only the
actor reads or writes `Schedule` in it. What the closure sends on *buffered*
channels goes to `reply`; what it sends on *unbuffered* ones is in `sends`, and
`Run` is not back at its select (`AtSelect`) until all of it has been received.
That is where `ReadTask` shows its fault: none of its branches returns, so it
always has more to send than its caller receives. `Stop` is split at its two
blocking points, `RunQuit` closes `q` before `Run` returns.

`TaskStore` is what callers may rely on: entries, the partitions ever written,
and per caller idle/asking/answered. `Database` implements it with `entries`
read off the nested map, `open` as "`Run` is at its select", and a call's commit
point at the execution of its closure.

### TaskService

Each caller of the store is a handler's goroutine: `handler[c]` is its stage, its
request, the hours it still has to delete and its reply, `reader[c]` the progress of
`generateViewSchedule` in it. `Accept` begins a request,
`ParseFails`, `CallDelete`, `CallCreate` and `CallRead` are the steps before a store
call, the `*Answered` actions those after it, and the store's own steps are
`Database`'s actions. Hours are texts with a parse that can fail (`Atoi`), panic
(fewer than two characters) or identify different texts (`HourOf`). A task's
operation and duration are never inspected by this code and are one value,
`work`. An error from the store becomes the reply of its kind (`Refused`). A walk
over the live map takes time (`BeginLoop` … `LoopDays`/`LoopSlots`):
of the keys the actor wrote meanwhile it may see any, as Go's map iteration allows,
and the runtime may also stop the process (`Fatal`). A view may therefore show a
day with no slots at all, when the day's last task goes between the passes; the
property on views claims exactness only for keys nobody wrote. The fields
`gone`, `made` and `disturbed` and the variable `acks` record history for the properties and influence nothing.
`Stop` is not an action here: the process stops after its handlers, or with them.

### WebRPC

A call has a client and a server that work at the same time. `client` is the stage of
`doJSONRequest` or of the browser's `fetch`: in `Do`, reading the response, or done;
`server` is that of the handler: nothing yet, routed to a method, an update between its
two store calls, panicking, done, or a request that will never arrive. `Break` is a
connection that fails in either stage of the client: the request may still arrive
afterwards. `newRequest` does not give the request the caller's context, which only
`doJSONRequest` looks at, so that `Cancel` interrupts nothing: the client learns of it
when `Do` has returned.

`serve...` is a method's handler with the service behind it: media type and
body first (`Undecodable`), then the nil request that the service follows (`NilRequest`),
the hour (`BadHour`), and the store. Each store call is one step, as `Database` is
shown to allow, and an update names one hour, so that it has two. `Write` is an
`http.ResponseWriter`, whose first header counts: the `Recoverer` of the router writes
its 500 to a connection that already has webrpc's error. `HTTPStatusFromErrorCode`
has all codes of the generated code, `ErrorCode` those this service uses. `did` records what
a call did to the store, for the properties.

What the texts of errors say, CORS, the health check and the profiler are left out:
they keep no state that a call depends on; and so is `WithHTTPRequestHeaders`, whose headers
nobody here reads. Nothing in the repository uses the Go client; it is
modelled because it is what the package offers. There is no liveness here: that requests
are answered is `EveryRequestReplied` of `TaskService` and `AcceptedIsAnswered` of
`Lifecycle`, which have the goroutines that it depends on.

### Stream

One request and its goroutines, `pc` saying where each of the four is. Channels are unbuffered, so a send and its receive
are one step; a `close` is a step of its closer. The NATS client is external: it
delivers to one callback at a time, in order, and `Unsubscribe` drops what it has
not handed over yet, but not the message the callback is sending at that moment.
The role is checked in `connect`; a subscription can fail. `Relay`'s closed case
covers the `!open` return of the handler. The client's limit on messages pending for
a slow consumer is not modelled: the property on order speaks of what it accepted.

### Lifecycle

`place` says where main and the parts it starts are: main walks through the start of
NATS, broker, store and listener, then its select, the drain and the deferred stops
in their order. `signal` is the buffered shutdown channel. `Signal` distinguishes the
four signals main asks for, before and after `signal.Notify`; the embedded server is
made with `NoSigs` false and has a handler of its own for two of them, of which
SIGINT exits the process (`trapped`, `Interrupt`, from the vendored `signal.go`).
Handlers are the callers of `Database`, whose actions are taken over as they are; a
request is the number of its store calls, a stream holds its handler until the client
leaves. A `Ping` is answered at once and leaves its goroutine behind, which publishes
`Rounds` times (`rpc.go:43-58`); `Publish` is one time, whose error on a closed connection
is ignored, as in the code, and on which nothing waits (`rounds`; one `Ping` and its
goroutine at a time). `exit` is how the process ended: `run` returning nil, or an error (or
a `log.Fatal`), a signal nobody handled, or the NATS server's `os.Exit(0)`. Only the first is
what `NilMeansClean` speaks of: an interrupted process has status 0 as well, with everything
running, which is finding 4. The configuration is one step that
goes on, prints its help or fails (`Configure`); `Outcome` is what `run` returns at the
end of a shutdown. The embedded server's and the API's inner
workings are external; the server errors case of main's select stops nothing, as in
the code. Not modelled: the debug listener, which nothing waits for or stops, the SIGSTOP
case (it cannot be caught) and `SignalShutdown` (nothing calls it).

### ScheduleView and CreateView

One day of a view is a function from the hours it mentions to durations, 0 standing
for "the task above goes on". `Filled` is the repeated `nextTimeSlot`, `PutSlot` one
turn of the loop, `Conflicts` `validateTask` and `TaskDuration` `getTaskDuration`.
Hours are whole, as the inputs' step of 3600 seconds suggests; minutes are not
modelled. `CreateView` handles the slots of a day in any order, because the server
builds them by walking a Go map; `Views` has what comes of all these orders, for
`Dashboard`, where a response is shown in one step.

### Dashboard

`page` is the driver and week of the form, `schedule` is `driverSchedule` for one day,
`modal` the task being updated and `overlapStartHrPeriods`. `inFlight` is a bag of
requests and responses: `Serve` answers a request, `Receive...` is the rest of the
`useRPC` function that sent it (a write that is answered sends a read of its page, an
error empties the timetable), `Lose` stands for a network or server failure before or
after the request was served. A write that has failed for the browser may also be served
*later*, as `WebRPC`'s `Break` allows: `Lose` puts it into `late`, from where `ServeLate` takes
it at any time, or never. The server is the atomic one that `Database` is shown to
implement, with `data.go`'s loops in one step; the steps between are `TaskService`'s
subject. Hours in the form and the modal can be changed at any time and have no state:
they are chosen when they are used, except that the modal computes its list of
conflicts from the hours it opens with (`ClickEdit`). While the modal is open nothing
else can be reached. Left out: operations, which are only shown; other days of the
week; other browsers; tabs; the event source, which the dispatcher's page has
commented out.

The properties are about careful users, which is what the code asks for without saying
so, except `NothingFalseShown`, which is about any user who waits (`patient`): whatever
is refused or lost, such a user sees the tasks of the page or an empty timetable,
never tasks that are not there, unless a late request has changed the page since it was read
(`overtaken`): the browser is told of no change, and what it shows may then be false until
it reads the page again. `careful` records whether the user has always waited for the answers, has planned
no task until midnight, has updated with the hours the modal opened with, and nothing
was lost. Each of the conditions is needed (section 5).

## 3. Runs

| Run | Question | Instance and why it is enough |
|---|---|---|
| `MCDatabase_store` | does the actor implement the atomic store, with its promise of progress, conserve answers, never overwrite, do nothing after `Stop`? Is every call answered, does `Stop` return, and what can get the actor stuck? | all four methods, 2 callers and a queue of 1, so that one caller blocks in its send while the other is queued or served; 2 keys of a partition, 2 tasks |
| `MCTaskService_writes` | do acknowledgements account for tasks, are failed updates as promised, does every request end? | 2 clients, one day, three texts for two hours, one that does not parse and one too short; updates that move, merge, name a task twice, fail in the middle |
| `MCTaskService_reads` | are untouched tasks shown exactly while others are written? | 2 clients, two days of which one has two hours |
| `MCTaskService_race` | is the memory structure thread safe (FEATURES.md:17)? **Violated**: the live map is walked while it is written | as above |
| `MCWebRPC_calls` | is every request answered in kind, are callers told the truth, do their answers account for the store? | 3 calls for one slot, of every method, each kind of body and path, by both clients and others: two writes and a read or a third write overlap in every way |
| `MCStream_teardown` | order, no orphan subscription, one closer, teardown, and what a handler may leave behind | a known and an unknown role, 3 messages: before, during and after the subscription |
| `MCStream_panic` | is the channel silent once the broker closes it (handlers.go:110)? **Violated**: a message in flight meets the close | same |
| `MCStream_stuck` | does `disconnect` end (stream.go:59)? **Violated** if the client leaves while its connection is failing | same |
| `MCLifecycle_shutdown` | are layers stopped after their users, accepted requests answered, does the process end, and leave nothing behind when `run` returns nil? | 2 handlers, requests of at most one store call, streams or a `Ping` whose goroutine publishes once more, every signal at every point |
| `MCLifecycle_sigint` | do outstanding requests get their deadline (dispatch.go:204)? **Violated** by SIGINT, which the NATS server traps | same |
| `MCCreateView_exact` | is the view exact, and the conflict check? | all orders of all sets of slots of a day of 5 hours: tasks that touch, contain and cross each other, end at midnight, last the whole day |
| `MCDashboard_careful` | do tasks of a page never overlap, is nothing refused, does the settled timetable show the page, and never a task that is not there? | 2 pages, a day of 3 hours, so that a task can lie before, in, across and after another; one request or response at a time, which loses nothing since a patient user has only one, and one late request; after something was lost, or the user was not careful, at most two tasks in all (`FewTasksOnceCareless`) |

Bounds: number of callers, calls, keys, slots and tasks; `ActionCap` (1 for 1000: only full,
not full and empty are told apart); `MaxMessages`; `MaxInFlight`, for late requests too; `Rounds` (1 for 10: whether a goroutine
is there while the broker goes is all that matters); `MaxCalls` of a request in
`Lifecycle` (whether it is before, in or after a call is all that matters there);
`Hours`; the sets of requests. Calls are interchangeable in `MCWebRPC_calls`, and
pages in `MCDashboard_careful`, where TLC uses their symmetry; liveness is checked without
symmetry. Deadlock is checked in `MCTaskService_writes` and `MCDashboard_careful`, whose systems never stop,
and not where it may: after `Stop`, when the process has ended, when a stream has
ended, when all calls have returned, when no slot is left to add.

### Fairness

* Goroutines that can run do (weak fairness of handlers, of the actor's and `Stop`'s
  steps).
* Go serves blocked senders of a channel first come first served, so a caller
  blocked on a full queue gets in if room keeps appearing: strong fairness of `Send`.
* `select` chooses among ready cases at random: a case that is ready again and again
  is eventually taken. Hence strong fairness of `RunAction` and `RunQuit` (a queue that
  never empties does not starve `Stop`), and of the stream handler's error and
  departure cases.
* None for clients: nobody has to call, publish, leave or send a signal, none for
  the failures (`Fatal`, a failing subscription or listener), and none for the goroutines of
  `Ping`: the process ends whether they have finished or not.
* The shutdown deadline need not pass in `Lifecycle`'s fairness, so that
  `AcceptedIsAnswered` does not lean on it; `SignalEndsProcess` states that it passes
  (`WF_vars(Timeout)`) as its premise, since a stream may last for ever without it.

## 4. Proofs

Those about `Database` hold for every set of callers, partitions, keys and tasks and
every capacity `ActionCap > 0`, from `OpAssumption`, `NoCallerAssumption` and
`ActionCapAssumption`; those about `CreateView` for a day of any positive number of
hours, from `HoursAssumption`; those about `Dashboard` for such a day, any set of pages
and any number of messages under way and of late requests, from `HoursAssumption` and `MaxInFlightAssumption`.

* **`TypeCorrect`, `AnswersConserved`** (`DatabaseProofs`). `TypeOK` is not inductive:
  executing the head of the queue needs its `call` to be a closure, not `NoCall`. The
  inductive invariant is `IInv == TypeOK /\ CallsRun /\ OneAnswerPerCall`: a caller has
  a closure exactly when it is inside the store, and each waiting caller is in exactly
  one place (queue, reply buffer, or held by the actor). `IInvHolds` goes action by
  action; lemmas about appending to and removing from a queue without repetitions,
  and about partial maps, carry the data part.
* **`OnlyReadTaskWedgesTheActor`**, an action property, with `Surplus`: an actor that
  sends more than its caller receives is executing a `ReadTask`, none of whose branches
  returns. `ActorIsNotWedged` is its consequence: if callers do not use `ReadTask` (an
  assumption of the theorem: no code in the repository calls it), the actor never waits
  for a caller that has gone.
* **`TasksNeverOverwritten`**, an action property: only `RunAction` writes
  `Schedule`, and each branch keeps partitions and does not replace a found task.
* **`NoEffectAfterStop`** with `StopOrder`: `Stop` is past its first wait only if `Run`
  has left its loop, after which `RunAction` is disabled.
* **`DatabaseImplementsTaskStore`** (`DatabaseProofs`): initial states map to
  initial states and, under `IInv`, each action maps to a step of `TaskStore` or a
  stutter: `Call` to `Ask`, `RunAction` to the method's commit, `Receive` to `Return`,
  `RunQuit` to `Close`, `Send` and the rest to a stutter. All four methods are included;
  the surplus sends of `ReadTask` only ever stop the actor, which an atomic store without
  fairness may also do.

* **`KeysMatch`, `UpdatesAccounted`, `AcksBalance`, `ViewsTrue`** (`TaskServiceProofs`), for any
  number of handlers, any hours and texts, and whatever requests clients make. They
  share the invariant `Core`: the store's `IInv`, which an instance (`DBP`) of
  `DatabaseProofs` keeps because every step of a handler is one of `Database` or none
  (`StepStore`); `Asks`, by which a handler is in the store exactly at the stages that wait for
  it, with the closure its request calls for; and `Kind`, by which the answers under way
  are answers to the closures they are for. Each theorem adds what it needs.
  - `UpdatesAccounted`: at every moment the hours left are the end of the request's list, and
    what is deleted are the keys of its beginning (`Updates`).
  - `AcksBalance`: for each key, acknowledgements plus the creations done but not
    yet acknowledged equal the task that is there plus the deletion that is under way
    (`Balance`). Several creations of one key can wait to be acknowledged, since a delete
    may have come between them, hence the cardinality.
  - `ViewsTrue`: a key outside `disturbed` is in the map now exactly if it was there when
    either of the walks passed (`Slots`, `VisitsUntouched`, `LiveMoves`).
* **`StoreIsDatabase`, `StoreIsAtomic`** (`TaskServiceProofs`): what the handlers do with
  the store is a behaviour of `Database` and, by its refinement, of `TaskStore`. This is what
  `WebRPC` and `Dashboard` take for granted when they model a store call as one step.

* **`TypeCorrect`, `ViewIsExact`** (`CreateViewProofs`). `ViewExact` is inductive together with
  `TypeOK`: `FilledRest` shows that a slot takes its start and exactly the hours after
  it (the clock does not wrap, since slots end by midnight), `PutSlotExact` that one
  more slot that overlaps no other keeps the view exact. Since the slots come in any
  order, the result does not depend on the order of the response.
* **`ChecksAreExact`** follows from it: `MeetIsOverlap` relates the comparison of
  bounds in `twix` to tasks sharing an hour, and an exact view has a non-zero hour for
  each task and no other. `TypeCorrect` is the part
  of the induction about hours and durations (`PutSlotIsView`).
* **`TypeCorrect`, `ShownIsTrue`, `TasksStayApart`, `CarefulIsServed`, `PageIsShown`**
  (`DashboardProofs`), in three layers, each an inductive invariant on top of the one before.
  `ScheduleViewProofs` has the part about timetables: `ViewOfIsExact` (the loop over the
  slots of a response that do not overlap shows exactly them, in whatever order; by
  induction over the loop's index) and `OneView` (so that all orders give one
  view). The library's induction theorems have an operator as parameter; `NatSetInduction`
  states the same of a *set* of numbers and follows from the least element of its
  complement.
  - `Typed`: `TypeOK` is not inductive, since an update takes the hour of the modal,
    which must be one when the modal is open, and the messages under way, a bag, must have
    finitely many copies, each counted by a number (`Counted`); so must the late requests
    (`LateOK`), which are writes. `OutcomeTypes` is what the server may make of a request,
    for both `Serve` and `ServeLate`.
  - `PatientInv`: a user who waits has at most one message under way, and it is about the
    selected page (`Concerns`); a schedule that is about to be shown is what the
    server holds *now*, unless it has been overtaken. When nothing is under way the
    timetable is a view of these tasks or empty, with the same exception: a late request
    either leaves the selected page as it is, or overtakes (`ServeLatePatient`), and the next
    read of the page ends that.
  - `CarefulInv`: tasks do not overlap, and what a careful user has asked for is still right
    when the server gets to it (`Harmless`): a new task fits into the page's tasks, a deleted
    one is there, and those an update names are there and leave room for the new one. It
    holds when the request is sent because `Conflicts` finds what a task would overlap in an
    exact timetable (`ConflictsAreMeetings`), for an update with the list the modal made
    when it opened (`ModalRight`), and until it is served because no other message is under way
    and no request is late.
    That the server's comparison of start hours alone is enough for these users
    follows: nothing is refused, and tasks stay apart.

* **`AlwaysAnsweredInKind`, `VerdictsAreTrue`** (`WebRPCProofs`), for any number of calls,
  slots and requests that a client can send. The invariant `RInv` is `TypeOK` and, per
  call, `Served` (what the connection holds and what was done to the store, by the server's
  stage), `Told` (what the caller was told, by the response) and `Begun` (nothing
  is sent before the call is made). An "ok" comes only from a 200 with data, which
  is written only by a handler that has done all of `Whole`; a refusal's code is only
  written by one that has done nothing, which is why `BadHour` in an update that has
  deleted must answer with an internal error. **`VerdictsBalance`** counts: a slot holds as
  many tasks as were added to it less those removed (`Account`), and these sets of calls lie
  between the acknowledged ones and those with the calls in doubt (`Between`).
* **`NoneOrphaned`, `ClosedByOne`, `OnlyUnbegunLeaks`** (`StreamProofs`), for any role and
  number of messages. `ControlInv` joins `TypeOK` with `Connection` (where the
  goroutines of connect and `Sub` are, by the connection's state) and `Knows` (what
  the handler and the streamer have told each other): the rendezvous on `quit` is
  what lets each conclude where the other is. **`RelayedInOrder`** rests on `MessagesInv`:
  what was relayed, the message in the callback's hand and what is pending are, in
  this order, consecutive numbers.
* **`LayersStopAfterUse`** (`LifecycleProofs`), with `OrderInv`: by where main is, what it has
  stopped already and that the handlers were idle or past their deadline when it began.
* **`StoreIsDatabase`**: every step of `Lifecycle` is one of `Database` or leaves the store
  alone, so that an instance (`DBP`) of `DatabaseProofs`, whose assumptions `StoreAssumption`
  and `StoreMethods` give, supplies its `IInv` here, and the atomic store as well
  (**`StoreIsAtomic`**): shutdown and signals take nothing of it away. **`TypeCorrect`** and **`NilIsClean`**
  use it: with `Ends` (requests come from an open listener, store calls from requests,
  a nil from main's first step or its last) nobody is in the queue when the
  handlers are idle.

Theorems about `TaskService` rest on `StoreAssumption` and `RequestAssumption` (requests
are of the four kinds). Those about `WebRPC` rest on `RequestsAssumption` (generated clients send what they
generate) and `NothingsAssumption`, those about `Stream` on `MaxMessages` being a natural
number, those about `Lifecycle` on `StoreAssumption`, `MaxCallsAssumption` and `RoundsAssumption`.

Only model-checked: liveness and the store's promise of progress
(`ImplementsProgress`), since TLAPS proves no `ENABLED` conditions here. These are
`EveryCallAnswered`, `StopReturns` and `ImplementsProgress` of `Database`,
`EveryRequestReplied` of `TaskService`, `TornDown` and `ErrorEndsRequest` of `Stream`, and
`AcceptedIsAnswered` and `SignalEndsProcess` of `Lifecycle`.

TLC agreed with the inductive invariants, on small instances, before they were
proved; those of `Dashboard` were also checked with two messages under way, where users
need not wait.

## 5. Findings

1. `ReadSchedule` hands out the live map; `generateViewSchedule` iterates it in the
   handler while the actor writes it (`database.go:160`, against FEATURES.md:17).
2. `Sub` closes `outputCh` while the delivery goroutine may be sending on it: a panic
   outside any handler, which ends the process (`broker.go:80`, against
   handlers.go:110-111).
3. A client leaving while its connection fails blocks `disconnect` forever
   (`stream.go:63`, against stream.go:59-61).
4. A SIGINT is handled twice: main drains the API, the embedded NATS server exits the
   process (`nats.go:22`, against dispatch.go:204), with status 0 although nothing has been
   stopped. SIGTERM, SIGHUP and SIGQUIT drain.

Seen while modelling, without a run of their own:

* None of the branches of `ReadTask`'s closure returns, so that after one call the actor
  is left sending to nobody. Nothing in the repository calls it.
* An update to an hour that holds a task it did not list is refused after its deletes
  were made, so that the old tasks are lost (`data.go:157`). `UpdateAccounted` and
  `AcksAddUp` pin down what such an update leaves behind; listing the conflicting
  tasks is the client's duty.
* A new task that ends at 00:00 passes the conflict check whatever it overlaps: the end
  is read as the beginning of the day (`utils.js:17`), though `getTaskDuration` counts it
  as midnight. README.md:51 says "You cannot create a new task unless you delete any
  time conflicting tasks". `ConflictsExact` and `careful` (`end # 0`) leave it out;
  without that conjunct `NoOverlaps` is violated.
* The modal's conflicts are those of the hours it opened with (`UpdateModal.js:108-113`
  depends on `updateModalOpen` alone): with other hours the update leaves overlapping
  tasks, or deletes its tasks and is refused.
* A user who does not wait meets stale timetables: responses of two reads may arrive in
  either order (`useRPC.js:12`), and after an error the timetable is empty and the form
  finds no conflicts.
* A request that is reported as failed may be served afterwards (`useRPC.js:56`). A user who
  then reads the page again is shown a task that the late deletion takes away: the timetable
  is false, with everything answered, until the next read. Without `~overtaken`
  `NothingFalseShown` is violated.
* The goroutine that `Ping` leaves (`rpc.go:43-58`) publishes for 50 seconds after its request
  was answered. `api.Shutdown` does not wait for it, so that the broker is closed and the NATS
  server stopped under it with no deadline passed; its errors are ignored, and the end of the
  process ends it. `StoppedAfterUse` is about the handlers.
* On the error path the stream's handler returns without `disconnect`, and
  `streamer.run` waits on `quitCh` forever. `OnlyUnbegunLeak` shows that it is the only
  return of the handler that leaves the streamer behind, and that the connection was never
  made then. The handler that never returns is finding 3.
* A caller's context does not reach the request it is for (`dispatch.gen.go:686`), so
  that cancelling it interrupts no call, and a call that comes back afterwards is reported
  as failed though it may have been executed.
* `doJSONRequest` closes the body in a deferred function that assigns its error to a
  variable that is not returned (`dispatch.gen.go:720`): the error is lost.
* FEATURES.md:24 says that the server sends 500 for errors; `ReadSchedule` of a driver
  nobody has written answers 404 (`rpc.go`), and what cannot be decoded 400.
* `parseHourString` accepts a sign: a task at "-5" is stored at hour -5 and shown as "0-5:00"
  (`data.go:74`), which does not parse, so that the hour a view shows does not name the
  task to a deletion. The client's time inputs offer no such hour.
* After a shutdown whose deadline passed, `run` returns the error of `Close` only
  (`dispatch.go:217`): "could not stop server gracefully" is not reported when it could not,
  unless closing failed too. `Outcome` has both.

## 6. Not modelled, and what is left

Left out because it keeps no state that a property could be about, or is not the
repository's code: the logger, CORS, health check and profiler, the debug listener,
users and tabs of the client, the insides of the NATS server and client and of `net/http`.

Left out though they could be modelled: the characters of hours' texts
(`startHrString`, `parseHourString`), of which the models keep only whether and to which
hour a text parses.
