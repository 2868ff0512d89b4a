------------------------------- MODULE Database -------------------------------
(***************************************************************************)
(* The in-memory store as internal/data/database.go builds it: one actor   *)
(* goroutine (Run) takes closures from a buffered channel and executes     *)
(* them one by one; each method sends a closure, then waits for what the   *)
(* closure sends back on channels made for that one call.  CreateTask and  *)
(* ReadSchedule answer on buffered channels; DeleteTask and ReadTask on    *)
(* unbuffered ones, where the actor itself waits for the caller.           *)
(***************************************************************************)
EXTENDS StoreTypes, Integers, Sequences

CONSTANT ActionCap  \* capacity of actionCh (1000 in the code)

ASSUME ActionCapAssumption == ActionCap \in Nat \ {0}

VARIABLES
    Schedule,  \* map[PartitionKey]map[SortKey]Task
    actionCh,  \* the closures in the channel's buffer, named by their callers
    pc,        \* where each caller is: outside, sending its closure, waiting
    call,      \* the closure of each caller
    reply,     \* the buffer of the channels of each caller's call
    serving,   \* the caller whose unbuffered channels the actor sends on
    sends,     \* what the closure that is executing still has to send there
    run,       \* Run: at its select, between close(q) and return, returned
    stop       \* Stop: not called, sending q, waiting for q's close, returned

storeVars == <<Schedule, reply, serving, sends>>
vars == <<Schedule, actionCh, pc, call, reply, serving, sends, run, stop>>

TypeOK ==
    /\ Schedule \in PartialMaps(PartitionKey, PartialMaps(SortKey, Task))
    /\ actionCh \in Seq(Caller) /\ Len(actionCh) <= ActionCap
    /\ pc \in [Caller -> {"idle", "sending", "waiting"}]
    /\ call \in [Caller -> Closure \cup {NoCall}]
    /\ reply \in [Caller -> Seq(Answer)]
    /\ serving \in Caller \cup {NoCaller}
    /\ sends \in Seq(Answer)
    /\ run \in {"select", "closing", "returned"}
    /\ stop \in {"none", "sending", "waiting", "returned"}

Init ==
    /\ Schedule = [p \in {} |-> {}]
    /\ actionCh = <<>>
    /\ pc = [c \in Caller |-> "idle"]
    /\ call = [c \in Caller |-> NoCall]
    /\ reply = [c \in Caller |-> <<>>]
    /\ serving = NoCaller
    /\ sends = <<>>
    /\ run = "select"
    /\ stop = "none"

-----------------------------------------------------------------------------
\* The callers.

\* A method is entered: its channels are made and the send on actionCh begins.
Call(c, f) ==
    /\ pc[c] = "idle"
    /\ pc' = [pc EXCEPT ![c] = "sending"]
    /\ call' = [call EXCEPT ![c] = f]
    /\ UNCHANGED <<storeVars, actionCh, run, stop>>

\* Mutant of Room: a channel without capacity to respect.
RoomAlways == TRUE

Room == Len(actionCh) < ActionCap

\* The closure enters the buffer; a full buffer blocks the caller.
Send(c) ==
    /\ pc[c] = "sending"
    /\ Room
    /\ actionCh' = Append(actionCh, c)
    /\ pc' = [pc EXCEPT ![c] = "waiting"]
    /\ UNCHANGED <<storeVars, call, run, stop>>

Return(c) ==
    /\ pc' = [pc EXCEPT ![c] = "idle"]
    /\ call' = [call EXCEPT ![c] = NoCall]

ReceiveBuffered(c, a) ==
    /\ pc[c] = "waiting"
    /\ reply[c] # <<>>
    /\ a = Head(reply[c])
    /\ reply' = [reply EXCEPT ![c] = <<>>]
    /\ Return(c)
    /\ UNCHANGED <<Schedule, actionCh, serving, sends, run, stop>>

\* The actor and the caller meet; nobody receives on these channels again.
ReceiveDirect(c, a) ==
    /\ pc[c] = "waiting"
    /\ serving = c
    /\ sends # <<>>
    /\ a = Head(sends)
    /\ sends' = Tail(sends)
    /\ serving' = NoCaller
    /\ Return(c)
    /\ UNCHANGED <<Schedule, actionCh, reply, run, stop>>

Receive(c, a) == ReceiveBuffered(c, a) \/ ReceiveDirect(c, a)

-----------------------------------------------------------------------------
\* The actor, and the closures it executes.

AtSelect == run = "select" /\ sends = <<>>

\* Mutant of Buffered: no return after the first send on the channel.
BufferedTwice(c, a) ==
    /\ reply' = [reply EXCEPT ![c] = @ \o <<a, a>>]
    /\ UNCHANGED <<serving, sends>>

Buffered(c, a) ==
    /\ reply' = [reply EXCEPT ![c] = Append(@, a)]
    /\ UNCHANGED <<serving, sends>>

\* Mutant of Direct: no return after the first send on the channel.
DirectAndMore(c, s) ==
    /\ serving' = c
    /\ sends' = s \o <<Err("Task doesnt exists")>>
    /\ UNCHANGED reply

Direct(c, s) ==
    /\ serving' = c
    /\ sends' = s
    /\ UNCHANGED reply

\* dbTaskSortKeyMap, and whether a task is found in it
Tasks(p) == IF p \in DOMAIN Schedule THEN Schedule[p] ELSE [k \in {} |-> NoTask]
Found(p, k) == k \in DOMAIN Tasks(p)

\* Mutant of CreateTask: the task is stored without looking for one.
CreateTaskAnyway(c, p, k, t) ==
    /\ Schedule' = Put(Schedule, p, Put(Tasks(p), k, t))
    /\ Buffered(c, Done)

CreateTask(c, p, k, t) ==
    \/ /\ Found(p, k)
       /\ Buffered(c, Err("Task already exists"))
       /\ UNCHANGED Schedule
    \/ /\ ~Found(p, k)
       /\ Schedule' = Put(Schedule, p, Put(Tasks(p), k, t))
       /\ Buffered(c, Done)

\* Mutant of Deleted: the partition goes with the task.
DeletedPartition(p, k) == Without(Schedule, p)

\* The schedule after delete(d.Schedule[partitionKey], sortKey)
Deleted(p, k) == Put(Schedule, p, Without(Tasks(p), k))

DeleteTask(c, p, k) ==
    \/ /\ Found(p, k)
       /\ Schedule' = Deleted(p, k)
       /\ Direct(c, <<Done>>)
    \/ /\ ~Found(p, k)
       /\ Direct(c, <<Err("Task doesnt exists")>>)
       /\ UNCHANGED Schedule

\* No branch returns: each falls through to the sends of the branches around it.
ReadTask(c, p, k) ==
    LET missing == Err("Task doesnt exists")
    IN  /\ Direct(c,
              (IF Found(p, k) THEN <<Got(Tasks(p)[k])>> ELSE <<>>)
                \o (IF p \in DOMAIN Schedule THEN <<missing>> ELSE <<>>)
                \o <<missing>>)
        /\ UNCHANGED Schedule

\* Mutant of ReadSchedule: nothing is sent when there is no such partition.
ReadScheduleMute(c, p) ==
    /\ \/ p \in DOMAIN Schedule /\ Buffered(c, Done)
       \/ p \notin DOMAIN Schedule /\ UNCHANGED <<reply, serving, sends>>
    /\ UNCHANGED Schedule

ReadSchedule(c, p) ==
    /\ Buffered(c, IF p \in DOMAIN Schedule
                   THEN Done ELSE Err("Schedule doesnt exist"))
    /\ UNCHANGED Schedule

Execute(c, f) ==
    \/ /\ f.op = "CreateTask"
       /\ CreateTask(c, f.partitionKey, f.sortKey, f.task)
    \/ /\ f.op = "DeleteTask"
       /\ DeleteTask(c, f.partitionKey, f.sortKey)
    \/ /\ f.op = "ReadTask"
       /\ ReadTask(c, f.partitionKey, f.sortKey)
    \/ /\ f.op = "ReadSchedule"
       /\ ReadSchedule(c, f.partitionKey)

\* case f := <-d.actionCh
RunAction(c) ==
    /\ AtSelect
    /\ actionCh # <<>>
    /\ c = Head(actionCh)
    /\ actionCh' = Tail(actionCh)
    /\ Execute(c, call[c])
    /\ UNCHANGED <<pc, call, run, stop>>

\* Mutant of RunQuit: q is closed, but the loop goes on.
RunQuitContinues ==
    /\ AtSelect
    /\ stop = "sending"
    /\ stop' = "waiting"
    /\ UNCHANGED <<storeVars, actionCh, pc, call, run>>

\* Mutant of RunQuit: the loop ends without closing q.
RunQuitSilently ==
    /\ AtSelect
    /\ stop = "sending"
    /\ run' = "closing"
    /\ UNCHANGED <<storeVars, actionCh, pc, call, stop>>

\* case q := <-d.quitCh, with its close(q)
RunQuit ==
    /\ AtSelect
    /\ stop = "sending"
    /\ stop' = "waiting"
    /\ run' = "closing"
    /\ UNCHANGED <<storeVars, actionCh, pc, call>>

RunReturn ==
    /\ run = "closing"
    /\ run' = "returned"
    /\ UNCHANGED <<storeVars, actionCh, pc, call, stop>>

-----------------------------------------------------------------------------
\* Stop: called once, when the program shuts down.

StopCall ==
    /\ stop = "none"
    /\ stop' = "sending"
    /\ UNCHANGED <<storeVars, actionCh, pc, call, run>>

StopReturn ==
    /\ stop = "waiting"
    /\ stop' = "returned"
    /\ UNCHANGED <<storeVars, actionCh, pc, call, run>>

-----------------------------------------------------------------------------
Next ==
    \/ \E c \in Caller :
         \/ \E f \in Closure : Call(c, f)
         \/ Send(c)
         \/ \E a \in Answer : Receive(c, a)
         \/ RunAction(c)
    \/ RunQuit
    \/ RunReturn
    \/ StopCall
    \/ StopReturn

Spec == Init /\ [][Next]_vars

\* Blocked senders are served first come first served, and select picks among
\* the ready channels at random: a step that is enabled again and again is
\* taken.  Nothing obliges a caller to call, or the program to stop the store.
Fairness ==
    /\ \A c \in Caller :
         /\ SF_vars(Send(c))
         /\ WF_vars(\E a \in Answer : Receive(c, a))
         /\ SF_vars(RunAction(c))
    /\ SF_vars(RunQuit)
    /\ WF_vars(RunReturn)
    /\ WF_vars(StopReturn)

FairSpec == Spec /\ Fairness

-----------------------------------------------------------------------------
\* Properties.

Queued(c) == \E i \in DOMAIN actionCh : actionCh[i] = c
OnceQueued ==
    \A i, j \in DOMAIN actionCh : actionCh[i] = actionCh[j] => i = j

\* A call that is past its send on actionCh is in exactly one place: its
\* closure in the queue, its answer in a buffer, or the actor holding its
\* answer; other callers are in none.  Neither a closure nor an answer is
\* lost, duplicated or left for the caller's next call.
OneAnswerPerCall ==
    /\ OnceQueued
    /\ \A c \in Caller :
         IF pc[c] = "waiting"
         THEN \/ Queued(c) /\ reply[c] = <<>> /\ serving # c
              \/ ~Queued(c) /\ Len(reply[c]) = 1 /\ serving # c
              \/ ~Queued(c) /\ reply[c] = <<>> /\ serving = c /\ sends # <<>>
         ELSE ~Queued(c) /\ reply[c] = <<>> /\ serving # c

\* The actor sends on channels nobody will receive from: it is stuck for good.
Wedged == sends # <<>> /\ serving = NoCaller

\* Of the methods only ReadTask, none of whose branches returns, can leave the
\* actor waiting for a caller that has gone: whoever it was sending to before.
OnlyReadTaskWedges ==
    [][~Wedged /\ Wedged' =>
         serving \in Caller /\ call[serving].op = "ReadTask"]_vars

\* A stored task is replaced only by way of a deletion, whatever the callers
\* ask for concurrently, and a partition's map, once made, is never dropped.
NeverOverwrites ==
    [][\A p \in DOMAIN Schedule :
         /\ p \in DOMAIN Schedule'
         /\ \A k \in DOMAIN Schedule[p] \cap DOMAIN Schedule'[p] :
              Schedule'[p][k] = Schedule[p][k]]_vars

\* Once Stop has returned the tasks do not change any more.
NothingAfterStop == [][stop = "returned" => Schedule' = Schedule]_vars

\* Every call returns, or the store has been stopped, or ReadTask has wedged
\* the actor.
EveryCallAnswered ==
    \A c \in Caller :
      pc[c] # "idle" ~> (pc[c] = "idle" \/ run # "select" \/ Wedged)

\* Stop returns, however busy the callers keep the actor, unless it is wedged.
StopReturns == stop = "sending" ~> (stop = "returned" \/ Wedged)

-----------------------------------------------------------------------------
\* Database implements TaskStore: a closure takes effect, and its call is
\* answered, when the actor executes it.

HasAnswer(c) == reply[c] # <<>> \/ serving = c

Entries ==
    {e \in PartitionKey \X SortKey \X Task :
       Found(e[1], e[2]) /\ Tasks(e[1])[e[2]] = e[3]}

Status(c) ==
    IF pc[c] = "idle" THEN "idle"
    ELSE IF HasAnswer(c) THEN "answered" ELSE "asking"

Asked(c) == IF Status(c) = "asking" THEN call[c] ELSE NoCall

Answered(c) ==
    IF reply[c] # <<>> THEN Head(reply[c])
    ELSE IF serving = c THEN Head(sends) ELSE Done

Store == INSTANCE TaskStore WITH
    entries <- Entries,
    known <- DOMAIN Schedule,
    open <- run = "select",
    status <- [c \in Caller |-> Status(c)],
    asked <- [c \in Caller |-> Asked(c)],
    answer <- [c \in Caller |-> Answered(c)]

\* Whatever callers can observe of the actor, the abstract store could have
\* done: the closures take effect atomically, each between its call and return.
ImplementsStore == Store!Spec

\* The actor also keeps the abstract store's promise of progress, as long as
\* it is not wedged: while the store is open every call is answered, and every
\* answer is taken.
ImplementsProgress == []~Wedged => Store!Liveness

=============================================================================
