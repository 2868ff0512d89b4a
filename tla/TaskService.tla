----------------------------- MODULE TaskService -----------------------------
(***************************************************************************)
(* The requests on the schedule (internal/rpc/rpc.go, internal/data/       *)
(* data.go) over the store of Database: each request is handled by its own *)
(* goroutine, which parses the hours it is given, calls the store once or  *)
(* several times and, to read, walks the map the store hands out while the *)
(* actor goes on working on it.                                            *)
(*                                                                         *)
(* The operation and the duration of a task are never looked at: together  *)
(* they are its "work".                                                    *)
(***************************************************************************)
EXTENDS Integers, Sequences, FiniteSets

CONSTANTS
    Caller,        \* the goroutines that handle requests
    PartitionKey,
    Day,
    HourText,      \* what requests carry as start hours
    NotANumber,    \* those whose first two characters Atoi refuses
    TooShort,      \* those of fewer than two characters
    HourOf,        \* the number the first two characters of the others make
    Work,
    Request,       \* the requests the clients make
    NoRequest,
    ActionCap, NoCaller, NoCall, NoTask

Good == HourText \ (NotANumber \cup TooShort)
Hour == {HourOf[h] : h \in Good}
SortKey == [day : Day, startHour : Hour]
Task == [work : Work, startHour : Hour]

Requests ==
    [rpc : {"CreateTask"}, partitionKey : PartitionKey, day : Day,
     startHour : HourText, work : Work]
    \cup [rpc : {"DeleteTask"}, partitionKey : PartitionKey, day : Day,
          startHour : HourText]
    \cup [rpc : {"UpdateTask"}, partitionKey : PartitionKey, day : Day,
          startHour : Seq(HourText), newStartHour : HourText, work : Work]
    \cup [rpc : {"ReadSchedule"}, partitionKey : PartitionKey]

ASSUME StoreAssumption == NoCaller \notin Caller /\ ActionCap \in Nat \ {0}
ASSUME HourAssumption ==
    /\ NotANumber \cup TooShort \subseteq HourText
    /\ DOMAIN HourOf = Good
ASSUME RequestAssumption == Request \subseteq Requests /\ NoRequest \notin Request

VARIABLES
    Schedule, actionCh, pc, call, reply, serving, sends, run, stop,
    alive,    \* FALSE once the runtime has thrown a fatal error
    handler,  \* what each handler's goroutine is doing
    reader,   \* what generateViewSchedule has done in it
    acks      \* for the properties: creates minus deletes acknowledged

storeVars == <<Schedule, actionCh, pc, call, reply, serving, sends, run, stop>>
vars == <<storeVars, alive, handler, reader, acks>>

DB == INSTANCE Database WITH
        Op <- {"CreateTask", "DeleteTask", "ReadSchedule"}

Handlers == [
    stage : {"idle", "run", "deleting", "creating", "reading", "days", "slots",
             "replied"},
    req   : Request \cup {NoRequest},
    todo  : Seq(HourText),     \* the start hours it still has to delete
    resp  : {"none", "ok", "not a number", "panic", "Task already exists",
             "Task doesnt exists", "Schedule not found"},
    gone  : SUBSET SortKey,    \* for the properties: what it has deleted,
    made  : SUBSET SortKey]    \* and what it has created

Readers == [
    days      : SUBSET Day,            \* uniqueWorkingDays
    view      : DB!PartialMaps(Day, SUBSET SortKey),  \* the days that are done
    walking   : BOOLEAN,               \* a loop over the map is under way
    touched   : SUBSET SortKey,        \* keys the actor wrote during this loop
    disturbed : SUBSET SortKey]        \* for the properties: during any loop

TypeOK ==
    /\ DB!TypeOK
    /\ alive \in BOOLEAN
    /\ handler \in [Caller -> Handlers]
    /\ reader \in [Caller -> Readers]
    /\ acks \in [PartitionKey \X SortKey -> Int]

Idle == [stage |-> "idle", req |-> NoRequest, todo |-> <<>>, resp |-> "none",
         gone |-> {}, made |-> {}]
Unread == [days |-> {}, view |-> [d \in {} |-> {}], walking |-> FALSE,
           touched |-> {}, disturbed |-> {}]

Init ==
    /\ DB!Init
    /\ alive = TRUE
    /\ handler = [c \in Caller |-> Idle]
    /\ reader = [c \in Caller |-> Unread]
    /\ acks = [pk \in PartitionKey \X SortKey |-> 0]

-----------------------------------------------------------------------------
At(c, s) == alive /\ handler[c].stage = s

Go(c, s) == handler' = [handler EXCEPT ![c].stage = s]

Reply(c, r) ==
    handler' = [handler EXCEPT ![c].stage = "replied", ![c].resp = r]

Req(c) == handler[c].req
Todo(c) == handler[c].todo
Writes(c) == Req(c).rpc \in {"CreateTask", "DeleteTask", "UpdateTask"}

\* Mutant of OldHours: an update's loop misses its first hour.
OldHoursButFirst(r) ==
    IF r.rpc = "UpdateTask" THEN Tail(r.startHour)
    ELSE IF r.rpc = "DeleteTask" THEN <<r.startHour>> ELSE <<>>

\* The hours a request deletes, in its order; the hour it creates.
OldHours(r) ==
    IF r.rpc = "UpdateTask" THEN r.startHour
    ELSE IF r.rpc = "DeleteTask" THEN <<r.startHour>> ELSE <<>>
NewHour(r) == IF r.rpc = "UpdateTask" THEN r.newStartHour ELSE r.startHour

\* Mutant of NewTask: an updated task keeps its old hour.
NewTaskAtOldHour(r) ==
    [work |-> r.work,
     startHour |-> HourOf[Head(OldHours(r) \o <<NewHour(r)>>)]]

NewTask(r) == [work |-> r.work, startHour |-> HourOf[NewHour(r)]]

\* Mutant of ParseError: a panic takes the request with it.
ParseErrorOnly(h) == IF h \in NotANumber THEN {"not a number"} ELSE {}

\* How parseHourString fails: Atoi refuses the text, or it is too short to
\* have two characters and the handler panics (and is recovered from).
ParseError(h) ==
    IF h \in NotANumber THEN {"not a number"}
    ELSE IF h \in TooShort THEN {"panic"} ELSE {}

\* The hour the handler parses next.
NextHour(c) == IF Todo(c) # <<>> THEN Head(Todo(c)) ELSE NewHour(Req(c))

\* Mutant of KeyAt: the arguments of NewSortKey are swapped.
KeySwapped(c, h) == [day |-> HourOf[h], startHour |-> Req(c).day]

KeyAt(c, h) == [day |-> Req(c).day, startHour |-> HourOf[h]]

Accept(c, r) ==
    /\ At(c, "idle")
    /\ handler' = [handler EXCEPT
                     ![c] = [Idle EXCEPT !.stage = "run", !.req = r,
                                         !.todo = OldHours(r)]]
    /\ UNCHANGED <<storeVars, alive, reader, acks>>

\* Either way the request ends here, with what it did so far done.
ParseFails(c) ==
    /\ At(c, "run") /\ Writes(c)
    /\ \E e \in ParseError(NextHour(c)) : Reply(c, e)
    /\ UNCHANGED <<storeVars, alive, reader, acks>>

Call(c, f, s) ==
    /\ DB!Call(c, f)
    /\ Go(c, s)
    /\ UNCHANGED <<alive, reader, acks>>

CallDelete(c) ==
    /\ At(c, "run") /\ Writes(c)
    /\ Todo(c) # <<>> /\ NextHour(c) \in Good
    /\ Call(c, [op |-> "DeleteTask", partitionKey |-> Req(c).partitionKey,
                sortKey |-> KeyAt(c, NextHour(c))], "deleting")

CallCreate(c) ==
    /\ At(c, "run") /\ Writes(c)
    /\ Todo(c) = <<>> /\ NextHour(c) \in Good
    /\ Call(c, [op |-> "CreateTask", partitionKey |-> Req(c).partitionKey,
                sortKey |-> KeyAt(c, NextHour(c)), task |-> NewTask(Req(c))],
            "creating")

CallRead(c) ==
    /\ At(c, "run") /\ Req(c).rpc = "ReadSchedule"
    /\ Call(c, [op |-> "ReadSchedule", partitionKey |-> Req(c).partitionKey],
            "reading")

Acked(c, k, n) ==
    acks' = [acks EXCEPT ![<<Req(c).partitionKey, k>>] = @ + n]

\* Mutant of Failed: the error is not looked at.
FailedNever(a) == FALSE

Failed(a) == a.err # "none"

\* The answer to request c carries an error, which is its reply.
Refused(c, a) ==
    /\ Failed(a)
    /\ Reply(c, a.err)
    /\ UNCHANGED acks

\* The store answers a deletion: on to the next hour, or to the end.
DeleteAnswered(c, a) ==
    /\ At(c, "deleting")
    /\ DB!Receive(c, a)
    /\ \/ Refused(c, a)
       \/ /\ ~Failed(a)
          /\ LET k == KeyAt(c, NextHour(c))
                 last == Req(c).rpc = "DeleteTask"
             IN  /\ handler' = [handler EXCEPT
                        ![c].todo = Tail(@),
                        ![c].gone = @ \cup {k},
                        ![c].stage = IF last THEN "replied" ELSE "run",
                        ![c].resp = IF last THEN "ok" ELSE @]
                 /\ Acked(c, k, -1)
    /\ UNCHANGED <<alive, reader>>

CreateAnswered(c, a) ==
    /\ At(c, "creating")
    /\ DB!Receive(c, a)
    /\ \/ Refused(c, a)
       \/ /\ ~Failed(a)
          /\ LET k == KeyAt(c, NewHour(Req(c)))
             IN  /\ handler' = [handler EXCEPT
                        ![c].made = @ \cup {k},
                        ![c].stage = "replied", ![c].resp = "ok"]
                 /\ Acked(c, k, 1)
    /\ UNCHANGED <<alive, reader>>

-----------------------------------------------------------------------------
\* Reading: generateViewSchedule walks the live map, once for the days and
\* once more for each day.

Live(c) == DOMAIN DB!Tasks(Req(c).partitionKey)

\* What a loop over the map may have visited: of the keys that the actor wrote
\* since the loop began any, of the others those that are there.
Visits(c) ==
    {(Live(c) \ reader[c].touched) \cup T : T \in SUBSET reader[c].touched}

ReadAnswered(c, a) ==
    /\ At(c, "reading")
    /\ DB!Receive(c, a)
    /\ \/ ~Failed(a) /\ Go(c, "days")
       \/ Failed(a) /\ Reply(c, "Schedule not found")
    /\ UNCHANGED <<alive, reader, acks>>

DaysLeft(c) == reader[c].days \ DOMAIN reader[c].view

BeginLoop(c) ==
    /\ ~reader[c].walking
    /\ At(c, "days") \/ (At(c, "slots") /\ DaysLeft(c) # {})
    /\ reader' = [reader EXCEPT ![c].walking = TRUE]
    /\ UNCHANGED <<storeVars, alive, handler, acks>>

LoopDays(c) ==
    /\ At(c, "days") /\ reader[c].walking
    /\ \E visited \in Visits(c) :
         reader' = [reader EXCEPT ![c].days = {k.day : k \in visited},
                                  ![c].walking = FALSE, ![c].touched = {}]
    /\ Go(c, "slots")
    /\ UNCHANGED <<storeVars, alive, acks>>

\* Mutant of SlotsOf: the slots of a day are not selected.
SlotsOfAllDays(d, visited) == visited

SlotsOf(d, visited) == {k \in visited : k.day = d}

LoopSlots(c, d) ==
    /\ At(c, "slots") /\ reader[c].walking
    /\ d \in DaysLeft(c)
    /\ \E visited \in Visits(c) :
         reader' = [reader EXCEPT ![c].view = DB!Put(@, d, SlotsOf(d, visited)),
                                  ![c].walking = FALSE, ![c].touched = {}]
    /\ UNCHANGED <<storeVars, alive, handler, acks>>

ViewDone(c) ==
    /\ At(c, "slots")
    /\ ~reader[c].walking /\ DaysLeft(c) = {}
    /\ Reply(c, "ok")
    /\ UNCHANGED <<storeVars, alive, reader, acks>>

\* The response is on its way; the goroutine can take another request.
Finish(c) ==
    /\ At(c, "replied")
    /\ handler' = [handler EXCEPT ![c] = Idle]
    /\ reader' = [reader EXCEPT ![c] = Unread]
    /\ UNCHANGED <<storeVars, alive, acks>>

-----------------------------------------------------------------------------
\* The store's own steps.

SendCall(c) ==
    /\ alive
    /\ DB!Send(c)
    /\ UNCHANGED <<alive, handler, reader, acks>>

\* The loops are over the map itself: a closure that writes it meanwhile may
\* be seen by them or not.
StoreRuns(c) ==
    /\ alive
    /\ DB!RunAction(c)
    /\ LET written(d) == IF /\ Schedule' # Schedule
                            /\ Req(d).partitionKey = call[c].partitionKey
                         THEN {call[c].sortKey} ELSE {}
       IN  reader' = [d \in Caller |->
             IF handler[d].stage \notin {"days", "slots"} THEN reader[d]
             ELSE [reader[d] EXCEPT
                     !.touched = IF reader[d].walking THEN @ \cup written(d) ELSE @,
                     !.disturbed = @ \cup written(d)]]
    /\ UNCHANGED <<alive, handler, acks>>

\* The runtime may notice: "fatal error: concurrent map iteration and map
\* write", which no recover catches.
Fatal ==
    /\ alive /\ \E d \in Caller : reader[d].touched # {}
    /\ alive' = FALSE
    /\ UNCHANGED <<storeVars, handler, reader, acks>>

Handle(c) ==
    \/ ParseFails(c)
    \/ CallDelete(c)
    \/ CallCreate(c)
    \/ CallRead(c)
    \/ BeginLoop(c)
    \/ LoopDays(c)
    \/ \E d \in Day : LoopSlots(c, d)
    \/ ViewDone(c)
    \/ Finish(c)

Answered(c) ==
    \E a \in DB!Answer :
      DeleteAnswered(c, a) \/ CreateAnswered(c, a) \/ ReadAnswered(c, a)

Next ==
    \/ \E c \in Caller :
         \/ \E r \in Request : Accept(c, r)
         \/ Handle(c)
         \/ SendCall(c)
         \/ StoreRuns(c)
         \/ Answered(c)
    \/ Fatal

Spec == Init /\ [][Next]_vars

\* Handlers run, and the store is as fair to them as Database assumes.  No
\* fairness for Accept (clients need not ask) nor for Fatal.
Fairness ==
    \A c \in Caller :
      /\ WF_vars(Handle(c))
      /\ WF_vars(Answered(c))
      /\ SF_vars(SendCall(c))
      /\ SF_vars(StoreRuns(c))

FairSpec == Spec /\ Fairness

-----------------------------------------------------------------------------
\* Properties.

\* A task is stored under the hour it starts at, so that the hour a view shows
\* is the hour a deletion must name.
KeyMatchesTask ==
    \A p \in DOMAIN Schedule : \A k \in DOMAIN Schedule[p] :
      Schedule[p][k].startHour = k.startHour

InFlight(c) == handler[c].stage \notin {"idle", "replied"}

\* The acknowledgements account for the tasks: when nothing is in flight a key
\* holds a task exactly if one more create than deletes was acknowledged for
\* it, and none otherwise.  Two requests never both create, or both delete, the
\* same task, and partly failed updates lose nothing they did not acknowledge.
AcksAddUp ==
    (\A c \in Caller : ~InFlight(c)) =>
      \A p \in PartitionKey, k \in SortKey :
        acks[<<p, k>>] = IF DB!Found(p, k) THEN 1 ELSE 0

KeysOf(r, n) ==
    {[day |-> r.day, startHour |-> HourOf[r.startHour[i]]] : i \in 1..n}

\* An update that succeeds has itself deleted a task under every hour it names
\* and created its own; one that fails has created nothing, and has deleted
\* what a beginning of its list names.
UpdateAccounted ==
    \A c \in Caller :
      (handler[c].stage = "replied" /\ Req(c).rpc = "UpdateTask") =>
        LET r == Req(c)
            n == Len(r.startHour) - Len(Todo(c))
        IN  /\ handler[c].gone = KeysOf(r, n)
            /\ IF handler[c].resp = "ok"
               THEN /\ n = Len(r.startHour)
                    /\ handler[c].made = {KeyAt(c, r.newStartHour)}
               ELSE handler[c].made = {}

\* What a view shows of the keys that nobody wrote while it was made is
\* exactly what the store holds, whatever happens to the other keys.
UntouchedTasksShown ==
    \A c \in Caller : handler[c].stage = "slots" =>
      LET r == reader[c]
      IN  \A k \in SortKey \ r.disturbed :
            /\ k \in Live(c) => k.day \in r.days
            /\ \A d \in DOMAIN r.view :
                 k \in r.view[d] <=> (k.day = d /\ k \in Live(c))

\* Every request that is accepted is replied to, or the process has died.
EveryRequestReplied ==
    \A c \in Caller :
      handler[c].stage = "run" ~> (handler[c].stage = "replied" \/ ~alive)

\* FEATURES.md: the actor "is used to make the memory structure thread safe
\* without the use of locks and mutexes": no goroutine walks a map that the
\* actor is writing.
ThreadSafe == \A c \in Caller : reader[c].walking => reader[c].touched = {}

=============================================================================
