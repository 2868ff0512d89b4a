-------------------------- MODULE TaskServiceProofs --------------------------
(***************************************************************************)
(* Theorems about TaskService, for every set of handlers, hours, texts and *)
(* requests.  What is proved of Database holds of the store here, since    *)
(* the handlers use it as Database says.                                   *)
(***************************************************************************)
EXTENDS TaskService, SequenceTheorems, FiniteSetTheorems, TLAPS

DBP == INSTANCE DatabaseProofs WITH
         Op <- {"CreateTask", "DeleteTask", "ReadSchedule"}

-----------------------------------------------------------------------------
\* The inductive invariant.

Types ==
    /\ alive \in BOOLEAN
    /\ handler \in [Caller -> Handlers]
    /\ reader \in [Caller -> Readers]
    /\ acks \in [PartitionKey \X SortKey -> Int]

\* The stages in which a handler waits for the store.
Calling == {"deleting", "creating", "reading"}

\* What a handler asks of the store.
DeleteClosure(c) ==
    [op |-> "DeleteTask", partitionKey |-> Req(c).partitionKey,
     sortKey |-> KeyAt(c, NextHour(c))]
CreateClosure(c) ==
    [op |-> "CreateTask", partitionKey |-> Req(c).partitionKey,
     sortKey |-> KeyAt(c, NextHour(c)), task |-> NewTask(Req(c))]
ReadClosure(c) == [op |-> "ReadSchedule", partitionKey |-> Req(c).partitionKey]

\* A handler is in the store exactly when its stage says so, and there with the
\* closure of its stage.
Asks(c) ==
    /\ handler[c].stage # "idle" => Req(c) \in Request
    /\ pc[c] # "idle" <=> handler[c].stage \in Calling
    /\ handler[c].stage \in {"run", "deleting"} /\ Req(c).rpc = "DeleteTask"
         => Todo(c) # <<>>
    /\ handler[c].stage = "deleting" =>
         /\ Writes(c) /\ Todo(c) # <<>> /\ NextHour(c) \in Good
         /\ call[c] = DeleteClosure(c)
    /\ handler[c].stage = "creating" =>
         /\ Writes(c) /\ Todo(c) = <<>> /\ NextHour(c) \in Good
         /\ call[c] = CreateClosure(c)
    /\ handler[c].stage = "reading" => call[c] = ReadClosure(c)

\* The answers that are under way are those of the closures they answer.
Kind(c) ==
    /\ reply[c] # <<>> =>
         \/ call[c].op = "ReadSchedule"
         \/ /\ call[c].op = "CreateTask"
            /\ Head(reply[c]) \in {DB!Done, DB!Err("Task already exists")}
    /\ serving = c =>
         /\ call[c].op = "DeleteTask"
         /\ Head(sends) \in {DB!Done, DB!Err("Task doesnt exists")}

Core == DBP!IInv /\ Types /\ \A c \in Caller : Asks(c) /\ Kind(c)

-----------------------------------------------------------------------------
\* The store.

LEMMA StoreMethods == {"CreateTask", "DeleteTask", "ReadSchedule"} \subseteq DBP!Methods
BY DEF DBP!Methods

\* What the store's invariant says, in the terms of the model.
LEMMA StoreFacts ==
    ASSUME DBP!IInv
    PROVE  /\ DB!TypeOK
           /\ \A c \in Caller : pc[c] # "idle" => call[c] \in DB!Closure
           /\ \A c \in Caller : DB!Queued(c) =>
                pc[c] = "waiting" /\ reply[c] = <<>> /\ serving # c
           /\ \A c \in Caller : reply[c] # <<>> =>
                pc[c] = "waiting" /\ serving # c /\ Len(reply[c]) = 1
           /\ \A c \in Caller : serving = c =>
                pc[c] = "waiting" /\ reply[c] = <<>> /\ sends # <<>>
           /\ DB!AtSelect => serving = NoCaller
<1>1. DBP!TypeOK /\ DBP!CallsRun /\ DBP!OneAnswerPerCall
  BY DEF DBP!IInv
<1>2. DB!Closure = DBP!Closure
  BY DEF DB!Closure, DBP!Closure
<1>3. DB!TypeOK
  BY <1>1 DEF DB!TypeOK, DBP!TypeOK, DB!PartialMaps, DBP!PartialMaps, DB!Closure,
     DBP!Closure, DB!Answer, DBP!Answer, DB!Error, DBP!Error
<1>4. \A c \in Caller : pc[c] # "idle" => call[c] \in DB!Closure
  BY <1>1, <1>2 DEF DBP!CallsRun
<1>5. \A c \in Caller : DB!Queued(c) <=> DBP!Queued(c)
  BY DEF DB!Queued, DBP!Queued
<1>6. ASSUME NEW c \in Caller
      PROVE  /\ DB!Queued(c) => pc[c] = "waiting" /\ reply[c] = <<>> /\ serving # c
             /\ reply[c] # <<>> => pc[c] = "waiting" /\ serving # c /\ Len(reply[c]) = 1
             /\ serving = c => pc[c] = "waiting" /\ reply[c] = <<>> /\ sends # <<>>
  BY <1>1, <1>5 DEF DBP!OneAnswerPerCall
<1>7. DB!AtSelect => serving = NoCaller
  BY <1>3, <1>6 DEF DB!AtSelect, DB!TypeOK
<1> QED
  BY <1>3, <1>4, <1>6, <1>7

\* The two instances have the same steps.
LEMMA SameNext == [DB!Next]_(DB!vars) => [DBP!Next]_(DBP!vars)
BY DEF DB!Next, DBP!Next, DB!vars, DBP!vars, DB!storeVars, DBP!storeVars,
   DB!Call, DBP!Call, DB!Closure, DBP!Closure, DB!Answer, DBP!Answer, DB!Error,
   DBP!Error, DB!Send, DBP!Send, DB!Room, DBP!Room, DB!Receive, DBP!Receive,
   DB!ReceiveBuffered, DBP!ReceiveBuffered, DB!ReceiveDirect, DBP!ReceiveDirect,
   DB!Return, DBP!Return, DB!RunAction, DBP!RunAction, DB!AtSelect, DBP!AtSelect,
   DB!Execute, DBP!Execute, DB!CreateTask, DBP!CreateTask, DB!DeleteTask,
   DBP!DeleteTask, DB!ReadTask, DBP!ReadTask, DB!ReadSchedule, DBP!ReadSchedule,
   DB!Buffered, DBP!Buffered, DB!Direct, DBP!Direct, DB!Found, DBP!Found, DB!Tasks,
   DBP!Tasks, DB!Put, DBP!Put, DB!Without, DBP!Without, DB!Deleted, DBP!Deleted,
   DB!Done, DBP!Done, DB!Err, DBP!Err, DB!Got, DBP!Got, DB!RunQuit, DBP!RunQuit,
   DB!RunReturn, DBP!RunReturn, DB!StopCall, DBP!StopCall, DB!StopReturn,
   DBP!StopReturn

\* Steps of the store keep its invariant.
LEMMA StoreInductive == DBP!IInv /\ [DB!Next]_(DB!vars) => DBP!IInv'
BY SameNext, DBP!NextIInv, StoreAssumption, StoreMethods

-----------------------------------------------------------------------------
\* Requests and the closures they lead to.

LEMMA RequestParts ==
    ASSUME NEW r \in Request
    PROVE  /\ r.rpc \in {"CreateTask", "DeleteTask", "UpdateTask", "ReadSchedule"}
           /\ r.partitionKey \in PartitionKey
           /\ r.rpc # "ReadSchedule" => r.day \in Day
           /\ r.rpc \in {"CreateTask", "UpdateTask"} => r.work \in Work
           /\ r.rpc \in {"CreateTask", "UpdateTask"} => NewHour(r) \in HourText
           /\ OldHours(r) \in Seq(HourText)
           /\ r.rpc = "UpdateTask" => r.startHour \in Seq(HourText)
<1>1. r \in Requests
  BY RequestAssumption
<1>2. \A h \in HourText : <<h>> \in Seq(HourText)
  OBVIOUS
<1>3. <<>> \in Seq(HourText)
  OBVIOUS
<1> QED
  BY <1>1, <1>2, <1>3 DEF Requests, NewHour, OldHours

LEMMA GoodHours ==
    ASSUME NEW h \in Good, NEW c \in Caller, Req(c) \in Request, Req(c).rpc # "ReadSchedule"
    PROVE  KeyAt(c, h) \in SortKey
BY RequestParts DEF KeyAt, SortKey, Hour

LEMMA DeleteCalls ==
    ASSUME NEW c \in Caller, Req(c) \in Request, Writes(c), NextHour(c) \in Good
    PROVE  DeleteClosure(c) \in DB!Closure
<1>1. KeyAt(c, NextHour(c)) \in SortKey
  BY GoodHours DEF Writes
<1> QED
  BY <1>1, RequestParts DEF DeleteClosure, DB!Closure

LEMMA CreateCalls ==
    ASSUME NEW c \in Caller, Req(c) \in Request, Writes(c), NextHour(c) \in Good,
           Req(c).rpc # "DeleteTask", Todo(c) = <<>>
    PROVE  CreateClosure(c) \in DB!Closure
<1>1. KeyAt(c, NextHour(c)) \in SortKey
  BY GoodHours DEF Writes
<1>2. NewTask(Req(c)) \in Task
  BY RequestParts DEF NewTask, NextHour, Task, Hour, Writes
<1> QED
  BY <1>1, <1>2, RequestParts DEF CreateClosure, DB!Closure

LEMMA ReadCalls ==
    ASSUME NEW c \in Caller, Req(c) \in Request
    PROVE  ReadClosure(c) \in DB!Closure
BY RequestParts DEF ReadClosure, DB!Closure

LEMMA StepStore == Core /\ [Next]_vars => [DB!Next]_(DB!vars)
<1> SUFFICES ASSUME Core, [Next]_vars PROVE [DB!Next]_(DB!vars)
  OBVIOUS
<1> USE DEF DB!vars
<1>1. CASE UNCHANGED storeVars
  BY <1>1 DEF storeVars
<1>2. ASSUME NEW c \in Caller, CallDelete(c) PROVE [DB!Next]_(DB!vars)
  <2>1. DeleteClosure(c) \in DB!Closure
    BY <1>2, DeleteCalls DEF Core, Asks, CallDelete, At
  <2> QED
    BY <1>2, <2>1 DEF CallDelete, Call, DeleteClosure, DB!Next
<1>3. ASSUME NEW c \in Caller, CallCreate(c) PROVE [DB!Next]_(DB!vars)
  <2>1. CreateClosure(c) \in DB!Closure
    BY <1>3, CreateCalls DEF Core, Asks, CallCreate, At
  <2> QED
    BY <1>3, <2>1 DEF CallCreate, Call, CreateClosure, DB!Next
<1>4. ASSUME NEW c \in Caller, CallRead(c) PROVE [DB!Next]_(DB!vars)
  <2>1. ReadClosure(c) \in DB!Closure
    BY <1>4, ReadCalls DEF Core, Asks, CallRead, At
  <2> QED
    BY <1>4, <2>1 DEF CallRead, Call, ReadClosure, DB!Next
<1>5. ASSUME NEW c \in Caller, SendCall(c) \/ StoreRuns(c) PROVE [DB!Next]_(DB!vars)
  BY <1>5 DEF SendCall, StoreRuns, DB!Next
<1>6. ASSUME NEW c \in Caller, Answered(c) PROVE [DB!Next]_(DB!vars)
  BY <1>6 DEF Answered, DeleteAnswered, CreateAnswered, ReadAnswered, DB!Next
<1>7. ASSUME NEW c \in Caller, NEW r \in Request, Accept(c, r)
      PROVE  UNCHANGED storeVars
  BY <1>7 DEF Accept
<1>8. ASSUME NEW c \in Caller,
             ParseFails(c) \/ BeginLoop(c) \/ LoopDays(c) \/ ViewDone(c) \/ Finish(c)
      PROVE  UNCHANGED storeVars
  BY <1>8 DEF ParseFails, BeginLoop, LoopDays, ViewDone, Finish
<1>9. ASSUME NEW c \in Caller, NEW d \in Day, LoopSlots(c, d) PROVE UNCHANGED storeVars
  BY <1>9 DEF LoopSlots
<1>10. CASE Fatal
  BY <1>1, <1>10 DEF Fatal
<1>11. CASE UNCHANGED vars
  BY <1>1, <1>11 DEF vars
<1> QED
  BY <1>1, <1>2, <1>3, <1>4, <1>5, <1>6, <1>7, <1>8, <1>9, <1>10, <1>11 DEF Next, Handle

-----------------------------------------------------------------------------
\* What the actor does with one closure.

Created(c) ==
    /\ call[c].op = "CreateTask" /\ ~DB!Found(call[c].partitionKey, call[c].sortKey)
    /\ Schedule' = DB!Put(Schedule, call[c].partitionKey,
                     DB!Put(DB!Tasks(call[c].partitionKey), call[c].sortKey, call[c].task))
    /\ reply' = [reply EXCEPT ![c] = <<DB!Done>>]
    /\ UNCHANGED <<serving, sends>>

Deleted(c) ==
    /\ call[c].op = "DeleteTask" /\ DB!Found(call[c].partitionKey, call[c].sortKey)
    /\ Schedule' = DB!Put(Schedule, call[c].partitionKey,
                     DB!Without(DB!Tasks(call[c].partitionKey), call[c].sortKey))
    /\ serving' = c /\ sends' = <<DB!Done>>
    /\ UNCHANGED reply

NotCreated(c) ==
    /\ call[c].op = "CreateTask"
    /\ reply' = [reply EXCEPT ![c] = <<DB!Err("Task already exists")>>]
    /\ UNCHANGED <<Schedule, serving, sends>>

NotDeleted(c) ==
    /\ call[c].op = "DeleteTask"
    /\ serving' = c /\ sends' = <<DB!Err("Task doesnt exists")>>
    /\ UNCHANGED <<Schedule, reply>>

Listed(c) ==
    /\ call[c].op = "ReadSchedule"
    /\ \E a \in DB!Answer : reply' = [reply EXCEPT ![c] = <<a>>]
    /\ UNCHANGED <<Schedule, serving, sends>>

LEMMA RunActionFacts ==
    ASSUME DBP!IInv, NEW c \in Caller, DB!RunAction(c)
    PROVE  /\ call[c] \in DB!Closure /\ pc[c] = "waiting"
           /\ reply[c] = <<>> /\ serving = NoCaller
           /\ UNCHANGED <<pc, call>>
           /\ \/ Created(c) \/ Deleted(c) \/ NotCreated(c) \/ NotDeleted(c) \/ Listed(c)
<1>1. DB!TypeOK /\ serving = NoCaller /\ UNCHANGED <<pc, call>>
  BY StoreFacts DEF DB!RunAction
<1>2. DB!Queued(c)
  <2>1. actionCh \in Seq(Caller) /\ actionCh # <<>> /\ c = Head(actionCh)
    BY <1>1 DEF DB!RunAction, DB!TypeOK
  <2>2. 1 \in DOMAIN actionCh /\ actionCh[1] = c
    BY <2>1
  <2> QED
    BY <2>2 DEF DB!Queued
<1>3. pc[c] = "waiting" /\ reply[c] = <<>> /\ call[c] \in DB!Closure
  BY <1>2, StoreFacts
<1>4. \A a : Append(reply[c], a) = <<a>>
  BY <1>3
<1>5. call[c].op \in {"CreateTask", "DeleteTask", "ReadSchedule"}
  BY <1>3 DEF DB!Closure
<1>6. DB!Execute(c, call[c])
  BY DEF DB!RunAction
<1>a. ASSUME NEW a, DB!Buffered(c, a)
      PROVE  reply' = [reply EXCEPT ![c] = <<a>>] /\ UNCHANGED <<serving, sends>>
  BY <1>4, <1>a DEF DB!Buffered
<1>7. ASSUME call[c].op = "CreateTask"
      PROVE  Created(c) \/ Deleted(c) \/ NotCreated(c) \/ NotDeleted(c) \/ Listed(c)
  <2>1. DB!CreateTask(c, call[c].partitionKey, call[c].sortKey, call[c].task)
    BY <1>6, <1>7 DEF DB!Execute
  <2> QED
    BY <1>7, <1>a, <2>1 DEF DB!CreateTask, Created, NotCreated
<1>8. ASSUME call[c].op = "DeleteTask"
      PROVE  Created(c) \/ Deleted(c) \/ NotCreated(c) \/ NotDeleted(c) \/ Listed(c)
  <2>1. DB!DeleteTask(c, call[c].partitionKey, call[c].sortKey)
    BY <1>6, <1>8 DEF DB!Execute
  <2> QED
    BY <1>8, <2>1 DEF DB!DeleteTask, DB!Direct, DB!Deleted, Deleted, NotDeleted
<1>9. ASSUME call[c].op = "ReadSchedule"
      PROVE  Created(c) \/ Deleted(c) \/ NotCreated(c) \/ NotDeleted(c) \/ Listed(c)
  <2>1. DB!Done \in DB!Answer /\ DB!Err("Schedule doesnt exist") \in DB!Answer
    BY DEF DB!Done, DB!Err, DB!Answer, DB!Error
  <2>2. DB!ReadSchedule(c, call[c].partitionKey)
    BY <1>6, <1>9 DEF DB!Execute
  <2> QED
    BY <1>9, <1>a, <2>1, <2>2 DEF DB!ReadSchedule, Listed
<1> QED
  BY <1>1, <1>3, <1>5, <1>7, <1>8, <1>9

\* What a caller receives, and what is left of it.
LEMMA ReceiveFacts ==
    ASSUME DBP!IInv, NEW c \in Caller, NEW a, DB!Receive(c, a)
    PROVE  /\ pc' = [pc EXCEPT ![c] = "idle"]
           /\ call' = [call EXCEPT ![c] = NoCall]
           /\ UNCHANGED Schedule
           /\ pc[c] = "waiting" /\ call[c] \in DB!Closure
           /\ \/ /\ reply[c] # <<>> /\ a = Head(reply[c]) /\ serving # c
                 /\ reply' = [reply EXCEPT ![c] = <<>>]
                 /\ UNCHANGED <<serving, sends>>
              \/ /\ serving = c /\ a = Head(sends) /\ reply[c] = <<>>
                 /\ serving' = NoCaller
                 /\ UNCHANGED reply
BY StoreFacts DEF DB!Receive, DB!ReceiveBuffered, DB!ReceiveDirect, DB!Return

LEMMA CallFacts ==
    ASSUME DBP!IInv, NEW c \in Caller, NEW f, DB!Call(c, f)
    PROVE  /\ pc' = [pc EXCEPT ![c] = "sending"]
           /\ call' = [call EXCEPT ![c] = f]
           /\ UNCHANGED <<Schedule, reply, serving, sends>>
           /\ pc[c] = "idle" /\ reply[c] = <<>> /\ serving # c
BY StoreFacts DEF DB!Call, DB!storeVars

LEMMA KindInductive ==
    ASSUME DBP!IInv, \A c \in Caller : Kind(c), [DB!Next]_(DB!vars)
    PROVE  \A c \in Caller : Kind(c)'
<1> SUFFICES ASSUME NEW d \in Caller PROVE Kind(d)'
  OBVIOUS
<1>0. DB!TypeOK /\ Kind(d)
  BY StoreFacts
<1>1. ASSUME NEW c \in Caller, NEW f \in DB!Closure, DB!Call(c, f) PROVE Kind(d)'
  <2>1. /\ call' = [call EXCEPT ![c] = f]
        /\ UNCHANGED <<reply, serving, sends>>
        /\ reply[c] = <<>> /\ serving # c
    BY <1>1, CallFacts
  <2> QED
    BY <1>0, <2>1 DEF Kind, DB!TypeOK
<1>2. ASSUME NEW c \in Caller, DB!Send(c) PROVE Kind(d)'
  BY <1>0, <1>2 DEF Kind, DB!Send, DB!storeVars
<1>3. ASSUME NEW c \in Caller, NEW a \in DB!Answer, DB!Receive(c, a) PROVE Kind(d)'
  <2>1. CASE d = c
    BY <1>0, <1>3, <2>1, ReceiveFacts, StoreAssumption DEF Kind, DB!TypeOK
  <2>2. CASE d # c
    BY <1>0, <1>3, <2>2, ReceiveFacts, StoreAssumption DEF Kind, DB!TypeOK
  <2> QED
    BY <2>1, <2>2
<1>4. ASSUME NEW c \in Caller, DB!RunAction(c) PROVE Kind(d)'
  <2>0. /\ reply[c] = <<>> /\ serving = NoCaller /\ call' = call
        /\ reply \in [Caller -> Seq(DB!Answer)]
    BY <1>0, <1>4, RunActionFacts DEF DB!TypeOK
  <2>1. \A a : Head(<<a>>) = a
    OBVIOUS
  <2>2. CASE d # c
    <3>1. reply'[d] = reply[d] /\ serving' # d
      BY <1>4, <2>0, <2>2, RunActionFacts, StoreAssumption
         DEF Created, Deleted, NotCreated, NotDeleted, Listed
    <3> QED
      BY <1>0, <2>0, <3>1 DEF Kind
  <2>3. CASE d = c
    <3> USE <2>0, <2>1, <2>3, StoreAssumption DEF Kind
    <3>1. CASE Created(c)
      BY <3>1 DEF Created
    <3>2. CASE Deleted(c)
      BY <3>2 DEF Deleted
    <3>3. CASE NotCreated(c)
      BY <3>3 DEF NotCreated
    <3>4. CASE NotDeleted(c)
      BY <3>4 DEF NotDeleted
    <3>5. CASE Listed(c)
      BY <3>5 DEF Listed
    <3> QED
      BY <1>4, <3>1, <3>2, <3>3, <3>4, <3>5, RunActionFacts
  <2> QED
    BY <2>2, <2>3
<1>5. CASE DB!RunQuit \/ DB!RunReturn \/ DB!StopCall \/ DB!StopReturn \/ UNCHANGED DB!vars
  BY <1>0, <1>5 DEF Kind, DB!RunQuit, DB!RunReturn, DB!StopCall, DB!StopReturn, DB!vars,
     DB!storeVars
<1> QED
  BY <1>1, <1>2, <1>3, <1>4, <1>5 DEF DB!Next

-----------------------------------------------------------------------------
\* The handlers.

Stages == {"idle", "run", "deleting", "creating", "reading", "days", "slots", "replied"}
Replies == {"none", "ok", "not a number", "panic", "Task already exists",
            "Task doesnt exists", "Schedule not found"}

\* Of handler c at most the stage and the reply change, of the others nothing.
Moves(c, s, r) ==
    /\ handler' \in [Caller -> Handlers]
    /\ handler'[c].stage = s /\ handler'[c].resp = r
    /\ handler'[c].req = handler[c].req /\ handler'[c].todo = handler[c].todo
    /\ handler'[c].gone = handler[c].gone /\ handler'[c].made = handler[c].made
    /\ \A d \in Caller : d # c => handler'[d] = handler[d]

LEMMA GoMoves ==
    ASSUME Types, NEW c \in Caller, NEW s \in Stages, Go(c, s)
    PROVE  Moves(c, s, handler[c].resp)
<1>1. handler[c] \in Handlers /\ handler \in [Caller -> Handlers]
  BY DEF Types
<1>2. handler' = [handler EXCEPT ![c] = [handler[c] EXCEPT !.stage = s]]
  BY DEF Go
<1>3. [handler[c] EXCEPT !.stage = s] \in Handlers
  BY <1>1 DEF Handlers, Stages
<1> QED
  BY <1>1, <1>2, <1>3 DEF Moves, Handlers

LEMMA ReplyMoves ==
    ASSUME Types, NEW c \in Caller, NEW r \in Replies, Reply(c, r)
    PROVE  Moves(c, "replied", r)
<1>1. handler[c] \in Handlers /\ handler \in [Caller -> Handlers]
  BY DEF Types
<1>2. handler' = [handler EXCEPT ![c] = [handler[c] EXCEPT !.stage = "replied", !.resp = r]]
  BY DEF Reply
<1>3. [handler[c] EXCEPT !.stage = "replied", !.resp = r] \in Handlers
  BY <1>1 DEF Handlers, Replies
<1> QED
  BY <1>1, <1>2, <1>3 DEF Moves, Handlers

\* A handler to which nothing happens goes on asking what it asked.
LEMMA SameAsks ==
    ASSUME NEW d \in Caller, Asks(d), handler'[d] = handler[d], call'[d] = call[d],
           pc'[d] = "idle" <=> pc[d] = "idle"
    PROVE  Asks(d)'
BY DEF Asks, Req, Todo, Writes, DeleteClosure, CreateClosure, ReadClosure, NextHour,
   NewHour, NewTask, KeyAt

LEMMA OtherAsks ==
    ASSUME Core, NEW c \in Caller, Asks(c)',
           \A d \in Caller : d # c =>
             handler'[d] = handler[d] /\ call'[d] = call[d] /\ pc'[d] = pc[d]
    PROVE  \A d \in Caller : Asks(d)'
BY SameAsks DEF Core

\* A handler that leaves the store, or was not there, and has been replied to.
LEMMA RepliedAsks ==
    ASSUME NEW c \in Caller, Asks(c), handler[c].stage # "idle", pc'[c] = "idle",
           handler'[c].stage \in {"replied", "days", "slots"},
           handler'[c].req = handler[c].req
    PROVE  Asks(c)'
BY DEF Asks, Req, Calling

LEMMA AcceptAsks ==
    ASSUME Core, NEW c \in Caller, NEW r \in Request, Accept(c, r)
    PROVE  handler' \in [Caller -> Handlers] /\ \A d \in Caller : Asks(d)'
<1> DEFINE h == [Idle EXCEPT !.stage = "run", !.req = r, !.todo = OldHours(r)]
<1>1. handler \in [Caller -> Handlers] /\ handler[c].stage = "idle" /\ UNCHANGED storeVars
  BY DEF Core, Types, Accept, At
<1>2. /\ h.stage = "run" /\ h.req = r /\ h.todo = OldHours(r)
      /\ h.resp = "none" /\ h.gone = {} /\ h.made = {}
  BY DEF Idle
<1>3. h \in Handlers
  BY RequestParts DEF Idle, Handlers
<1>4. handler' = [handler EXCEPT ![c] = h]
  BY DEF Accept
<1> HIDE DEF h
<1>5. handler' \in [Caller -> Handlers] /\ handler'[c] = h
      /\ \A d \in Caller : d # c => handler'[d] = handler[d]
  BY <1>1, <1>3, <1>4
<1>6. pc[c] = "idle"
  BY <1>1 DEF Core, Asks, Calling
<1>7. r.rpc = "DeleteTask" => OldHours(r) # <<>>
  BY DEF OldHours
<1>8. Asks(c)'
  BY <1>1, <1>2, <1>5, <1>6, <1>7 DEF Asks, Calling, Req, Todo, storeVars
<1> QED
  BY <1>1, <1>5, <1>8, OtherAsks DEF storeVars

\* A handler enters the store.
LEMMA EntersAsks ==
    ASSUME Core, NEW c \in Caller, NEW f, NEW s \in Calling, DB!Call(c, f), Go(c, s),
           Writes(c) \/ s = "reading", Req(c) \in Request,
           s = "deleting" => Todo(c) # <<>> /\ NextHour(c) \in Good /\ f = DeleteClosure(c),
           s = "creating" => Todo(c) = <<>> /\ NextHour(c) \in Good /\ f = CreateClosure(c),
           s = "reading" => f = ReadClosure(c)
    PROVE  handler' \in [Caller -> Handlers] /\ \A d \in Caller : Asks(d)'
<1>1. Moves(c, s, handler[c].resp)
  BY GoMoves DEF Core, Calling, Stages
<1>2. /\ pc' = [pc EXCEPT ![c] = "sending"]
      /\ call' = [call EXCEPT ![c] = f]
      /\ DB!TypeOK
  BY CallFacts, StoreFacts DEF Core
<1>3. /\ pc'[c] = "sending" /\ call'[c] = f
      /\ \A d \in Caller : d # c => call'[d] = call[d] /\ pc'[d] = pc[d]
  BY <1>2 DEF DB!TypeOK
<1>4. /\ Req(c)' = Req(c) /\ Todo(c)' = Todo(c) /\ (Writes(c)' <=> Writes(c))
      /\ NextHour(c)' = NextHour(c)
      /\ DeleteClosure(c)' = DeleteClosure(c) /\ CreateClosure(c)' = CreateClosure(c)
      /\ ReadClosure(c)' = ReadClosure(c)
  BY <1>1 DEF Moves, Req, Todo, Writes, NextHour, DeleteClosure, CreateClosure,
     ReadClosure, KeyAt, NewTask, NewHour
<1>5. Asks(c)'
  BY <1>1, <1>3, <1>4 DEF Asks, Moves, Calling
<1> QED
  BY <1>1, <1>3, <1>5, OtherAsks DEF Moves

LEMMA CallAsks ==
    ASSUME Core, NEW c \in Caller, CallDelete(c) \/ CallCreate(c) \/ CallRead(c)
    PROVE  handler' \in [Caller -> Handlers] /\ \A d \in Caller : Asks(d)'
<1>0. handler[c].stage = "run" /\ Req(c) \in Request
  BY DEF CallDelete, CallCreate, CallRead, At, Core, Asks
<1>1. CASE CallDelete(c)
  BY <1>0, <1>1, EntersAsks DEF CallDelete, Call, DeleteClosure, Calling
<1>2. CASE CallCreate(c)
  BY <1>0, <1>2, EntersAsks DEF CallCreate, Call, CreateClosure, Calling
<1>3. CASE CallRead(c)
  BY <1>0, <1>3, EntersAsks DEF CallRead, Call, ReadClosure, Calling
<1> QED
  BY <1>1, <1>2, <1>3

LEMMA ParseFailsAsks ==
    ASSUME Core, NEW c \in Caller, ParseFails(c)
    PROVE  handler' \in [Caller -> Handlers] /\ \A d \in Caller : Asks(d)'
<1>1. PICK e \in ParseError(NextHour(c)) : Reply(c, e)
  BY DEF ParseFails
<1>2. e \in Replies
  BY DEF ParseError, Replies
<1>3. Moves(c, "replied", e)
  BY <1>1, <1>2, ReplyMoves DEF Core
<1>4. handler[c].stage = "run" /\ pc[c] = "idle" /\ UNCHANGED <<pc, call>>
  BY DEF ParseFails, At, Core, Asks, Calling, storeVars
<1>5. Asks(c)'
  BY <1>3, <1>4, RepliedAsks DEF Moves, Core
<1> QED
  BY <1>3, <1>4, <1>5, OtherAsks DEF Moves

-----------------------------------------------------------------------------
\* The store's answers.

LEMMA DeleteAnswerFacts ==
    ASSUME Core, NEW c \in Caller, NEW a, handler[c].stage = "deleting", DB!Receive(c, a)
    PROVE  /\ serving = c /\ a = Head(sends) /\ serving' = NoCaller
           /\ UNCHANGED <<reply, Schedule>>
           /\ a \in {DB!Done, DB!Err("Task doesnt exists")}
           /\ Req(c) \in Request /\ Writes(c) /\ Todo(c) # <<>> /\ NextHour(c) \in Good
           /\ call[c] = DeleteClosure(c)
<1>1. /\ Req(c) \in Request /\ Writes(c) /\ Todo(c) # <<>> /\ NextHour(c) \in Good
      /\ call[c] = DeleteClosure(c) /\ Kind(c) /\ DBP!IInv
  BY DEF Core, Asks
<1>2. call[c].op = "DeleteTask"
  BY <1>1 DEF DeleteClosure
<1> QED
  BY <1>1, <1>2, ReceiveFacts DEF Kind

LEMMA CreateAnswerFacts ==
    ASSUME Core, NEW c \in Caller, NEW a, handler[c].stage = "creating", DB!Receive(c, a)
    PROVE  /\ reply[c] # <<>> /\ a = Head(reply[c]) /\ reply' = [reply EXCEPT ![c] = <<>>]
           /\ UNCHANGED <<serving, sends, Schedule>>
           /\ a \in {DB!Done, DB!Err("Task already exists")}
           /\ Req(c) \in Request /\ Writes(c) /\ Todo(c) = <<>> /\ NextHour(c) \in Good
           /\ call[c] = CreateClosure(c)
<1>1. /\ Req(c) \in Request /\ Writes(c) /\ Todo(c) = <<>> /\ NextHour(c) \in Good
      /\ call[c] = CreateClosure(c) /\ Kind(c) /\ DBP!IInv
  BY DEF Core, Asks
<1>2. call[c].op = "CreateTask"
  BY <1>1 DEF CreateClosure
<1> QED
  BY <1>1, <1>2, ReceiveFacts DEF Kind

\* Only an error fails, and its text is a reply.
LEMMA Failures ==
    /\ ~Failed(DB!Done)
    /\ Failed(DB!Err("Task already exists")) /\ Failed(DB!Err("Task doesnt exists"))
    /\ DB!Err("Task already exists").err \in Replies \ {"ok", "none"}
    /\ DB!Err("Task doesnt exists").err \in Replies \ {"ok", "none"}
BY DEF Failed, DB!Done, DB!Err, Replies

\* A handler leaves the store.
LEMMA LeavesAsks ==
    ASSUME Core, NEW c \in Caller, NEW a, DB!Receive(c, a), handler[c].stage # "idle",
           handler'[c].req = handler[c].req,
           \/ handler'[c].stage \in {"replied", "days", "slots"}
           \/ handler'[c].stage = "run" /\ Req(c).rpc # "DeleteTask",
           \A d \in Caller : d # c => handler'[d] = handler[d]
    PROVE  \A d \in Caller : Asks(d)'
<1>1. DB!TypeOK /\ pc' = [pc EXCEPT ![c] = "idle"] /\ call' = [call EXCEPT ![c] = NoCall]
  BY ReceiveFacts, StoreFacts DEF Core
<1>2. /\ pc'[c] = "idle"
      /\ \A d \in Caller : d # c => call'[d] = call[d] /\ pc'[d] = pc[d]
  BY <1>1 DEF DB!TypeOK
<1>3. Asks(c) /\ Req(c) \in Request
  BY DEF Core, Asks
<1>4. Asks(c)'
  BY <1>2, <1>3 DEF Asks, Calling, Req
<1> QED
  BY <1>2, <1>4, OtherAsks

\* The handler once a task has been deleted for it, or created.
HandlerDeleted(c) ==
    [handler[c] EXCEPT
       !.todo = Tail(@), !.gone = @ \cup {KeyAt(c, NextHour(c))},
       !.stage = IF Req(c).rpc = "DeleteTask" THEN "replied" ELSE "run",
       !.resp = IF Req(c).rpc = "DeleteTask" THEN "ok" ELSE @]
HandlerCreated(c) ==
    [handler[c] EXCEPT
       !.made = @ \cup {KeyAt(c, NextHour(c))}, !.stage = "replied", !.resp = "ok"]

LEMMA DeleteAnsweredIs ==
    ASSUME Core, NEW c \in Caller, NEW a, DeleteAnswered(c, a)
    PROVE  \/ /\ a = DB!Err("Task doesnt exists")
              /\ Moves(c, "replied", "Task doesnt exists")
              /\ UNCHANGED acks
           \/ /\ a = DB!Done
              /\ handler' = [handler EXCEPT ![c] = HandlerDeleted(c)]
              /\ HandlerDeleted(c) \in Handlers
              /\ KeyAt(c, NextHour(c)) \in SortKey
              /\ Acked(c, KeyAt(c, NextHour(c)), -1)
<1>1. handler[c].stage = "deleting" /\ DB!Receive(c, a)
  BY DEF DeleteAnswered, At
<1>2. /\ a \in {DB!Done, DB!Err("Task doesnt exists")}
      /\ Req(c) \in Request /\ Writes(c) /\ Todo(c) # <<>> /\ NextHour(c) \in Good
  BY <1>1, DeleteAnswerFacts
<1>3. CASE a = DB!Err("Task doesnt exists")
  <2>1. Reply(c, "Task doesnt exists") /\ UNCHANGED acks
    BY <1>3, Failures DEF DeleteAnswered, Refused, DB!Err
  <2> QED
    BY <1>3, <2>1, ReplyMoves DEF Core, Replies
<1>4. CASE a = DB!Done
  <2>1. /\ handler' = [handler EXCEPT ![c] = HandlerDeleted(c)]
        /\ Acked(c, KeyAt(c, NextHour(c)), -1)
    BY <1>4, Failures DEF DeleteAnswered, Refused, HandlerDeleted
  <2>2. KeyAt(c, NextHour(c)) \in SortKey
    BY <1>2, GoodHours DEF Writes
  <2>3. Tail(handler[c].todo) \in Seq(HourText) /\ handler[c] \in Handlers
    <3>1. handler[c] \in Handlers
      BY DEF Core, Types
    <3>2. handler[c].todo \in Seq(HourText) /\ handler[c].todo # <<>>
      BY <1>2, <3>1 DEF Handlers, Todo
    <3> QED
      BY <3>1, <3>2, HeadTailProperties
  <2>4. HandlerDeleted(c) \in Handlers
    BY <2>2, <2>3 DEF HandlerDeleted, Handlers
  <2> QED
    BY <1>4, <2>1, <2>2, <2>4
<1> QED
  BY <1>2, <1>3, <1>4

LEMMA CreateAnsweredIs ==
    ASSUME Core, NEW c \in Caller, NEW a, CreateAnswered(c, a)
    PROVE  \/ /\ a = DB!Err("Task already exists")
              /\ Moves(c, "replied", "Task already exists")
              /\ UNCHANGED acks
           \/ /\ a = DB!Done
              /\ handler' = [handler EXCEPT ![c] = HandlerCreated(c)]
              /\ HandlerCreated(c) \in Handlers
              /\ KeyAt(c, NextHour(c)) \in SortKey
              /\ Acked(c, KeyAt(c, NextHour(c)), 1)
<1>1. handler[c].stage = "creating" /\ DB!Receive(c, a)
  BY DEF CreateAnswered, At
<1>2. /\ a \in {DB!Done, DB!Err("Task already exists")}
      /\ Req(c) \in Request /\ Writes(c) /\ Todo(c) = <<>> /\ NextHour(c) \in Good
  BY <1>1, CreateAnswerFacts
<1>3. CASE a = DB!Err("Task already exists")
  <2>1. Reply(c, "Task already exists") /\ UNCHANGED acks
    BY <1>3, Failures DEF CreateAnswered, Refused, DB!Err
  <2> QED
    BY <1>3, <2>1, ReplyMoves DEF Core, Replies
<1>4. CASE a = DB!Done
  <2>0. NextHour(c) = NewHour(Req(c))
    BY <1>2 DEF NextHour
  <2>1. /\ handler' = [handler EXCEPT ![c] = HandlerCreated(c)]
        /\ Acked(c, KeyAt(c, NextHour(c)), 1)
    BY <1>4, <2>0, Failures DEF CreateAnswered, Refused, HandlerCreated
  <2>2. KeyAt(c, NextHour(c)) \in SortKey
    BY <1>2, GoodHours DEF Writes
  <2>3. handler[c] \in Handlers
    BY DEF Core, Types
  <2>4. HandlerCreated(c) \in Handlers
    BY <2>2, <2>3 DEF HandlerCreated, Handlers
  <2> QED
    BY <1>4, <2>1, <2>2, <2>4
<1> QED
  BY <1>2, <1>3, <1>4

LEMMA AnsweredAsks ==
    ASSUME Core, NEW c \in Caller, NEW a,
           DeleteAnswered(c, a) \/ CreateAnswered(c, a) \/ ReadAnswered(c, a)
    PROVE  handler' \in [Caller -> Handlers] /\ \A d \in Caller : Asks(d)'
<1>0. /\ DB!Receive(c, a) /\ handler[c].stage # "idle"
      /\ handler \in [Caller -> Handlers] /\ handler[c] \in Handlers
  BY DEF DeleteAnswered, CreateAnswered, ReadAnswered, At, Core, Types
<1>1. ASSUME NEW s \in {"replied", "days"}, NEW r, Moves(c, s, r)
      PROVE  handler' \in [Caller -> Handlers] /\ \A d \in Caller : Asks(d)'
  BY <1>0, <1>1, LeavesAsks DEF Moves
<1>2. CASE DeleteAnswered(c, a)
  <2>1. CASE handler' = [handler EXCEPT ![c] = HandlerDeleted(c)]
             /\ HandlerDeleted(c) \in Handlers
    <3>1. /\ handler' \in [Caller -> Handlers]
          /\ handler'[c] = HandlerDeleted(c)
          /\ \A d \in Caller : d # c => handler'[d] = handler[d]
      BY <1>0, <2>1
    <3>2. /\ HandlerDeleted(c).req = handler[c].req
          /\ HandlerDeleted(c).stage =
               IF Req(c).rpc = "DeleteTask" THEN "replied" ELSE "run"
      BY <1>0 DEF HandlerDeleted, Handlers
    <3> QED
      BY <1>0, <3>1, <3>2, LeavesAsks
  <2> QED
    BY <1>1, <1>2, <2>1, DeleteAnsweredIs
<1>3. CASE CreateAnswered(c, a)
  <2>1. CASE handler' = [handler EXCEPT ![c] = HandlerCreated(c)]
             /\ HandlerCreated(c) \in Handlers
    <3>1. /\ handler' \in [Caller -> Handlers]
          /\ handler'[c] = HandlerCreated(c)
          /\ \A d \in Caller : d # c => handler'[d] = handler[d]
      BY <1>0, <2>1
    <3>2. HandlerCreated(c).req = handler[c].req /\ HandlerCreated(c).stage = "replied"
      BY <1>0 DEF HandlerCreated, Handlers
    <3> QED
      BY <1>0, <3>1, <3>2, LeavesAsks
  <2> QED
    BY <1>1, <1>3, <2>1, CreateAnsweredIs
<1>4. CASE ReadAnswered(c, a)
  <2>1. Go(c, "days") \/ Reply(c, "Schedule not found")
    BY <1>4 DEF ReadAnswered
  <2> QED
    BY <1>1, <2>1, GoMoves, ReplyMoves DEF Core, Stages, Replies
<1> QED
  BY <1>2, <1>3, <1>4

-----------------------------------------------------------------------------
\* The types of the readers, and the handlers' in all steps.

LEMMA LiveKeys ==
    ASSUME DBP!IInv, NEW c \in Caller
    PROVE  Live(c) \subseteq SortKey
<1>1. Schedule \in DB!PartialMaps(PartitionKey, DB!PartialMaps(SortKey, Task))
  BY StoreFacts DEF DB!TypeOK
<1>2. CASE Req(c).partitionKey \in DOMAIN Schedule
  <2>1. Schedule[Req(c).partitionKey] \in DB!PartialMaps(SortKey, Task)
    BY <1>1, <1>2 DEF DB!PartialMaps
  <2> QED
    BY <1>2, <2>1 DEF Live, DB!Tasks, DB!PartialMaps
<1>3. CASE Req(c).partitionKey \notin DOMAIN Schedule
  BY <1>3 DEF Live, DB!Tasks
<1> QED
  BY <1>2, <1>3

\* Of reader c only some parts change, of the others nothing.
LEMMA ReaderTypes ==
    ASSUME Types, NEW c \in Caller, NEW r \in Readers, reader' = [reader EXCEPT ![c] = r]
    PROVE  reader' \in [Caller -> Readers]
BY DEF Types

LEMMA UnreadTyped == Unread \in Readers
<1>1. [d \in {} |-> {}] \in DB!PartialMaps(Day, SUBSET SortKey)
  <2>1. {} \in SUBSET Day /\ [d \in {} |-> {}] \in [{} -> SUBSET SortKey]
    OBVIOUS
  <2> QED
    BY <2>1 DEF DB!PartialMaps
<1> QED
  BY <1>1 DEF Unread, Readers

LEMMA LoopTypes ==
    ASSUME Core, NEW c \in Caller,
           BeginLoop(c) \/ LoopDays(c) \/ \E d \in Day : LoopSlots(c, d)
    PROVE  reader' \in [Caller -> Readers]
<1>0. reader[c] \in Readers /\ Live(c) \subseteq SortKey /\ Types
  BY LiveKeys DEF Core, Types
<1>1. CASE BeginLoop(c)
  <2>1. reader' = [reader EXCEPT ![c] = [reader[c] EXCEPT !.walking = TRUE]]
    BY <1>1 DEF BeginLoop
  <2>2. [reader[c] EXCEPT !.walking = TRUE] \in Readers
    BY <1>0 DEF Readers
  <2> QED
    BY <1>0, <2>1, <2>2, ReaderTypes
<1>2. ASSUME NEW v \in Visits(c) PROVE v \subseteq SortKey
  BY <1>0, <1>2 DEF Visits, Readers
<1>3. CASE LoopDays(c)
  <2>1. PICK v \in Visits(c) :
          reader' = [reader EXCEPT ![c].days = {k.day : k \in v},
                                   ![c].walking = FALSE, ![c].touched = {}]
    BY <1>3 DEF LoopDays
  <2>2. reader' = [reader EXCEPT ![c] = [reader[c] EXCEPT !.days = {k.day : k \in v},
                                           !.walking = FALSE, !.touched = {}]]
    BY <2>1
  <2>3. {k.day : k \in v} \subseteq Day
    BY <1>2 DEF SortKey
  <2>4. [reader[c] EXCEPT !.days = {k.day : k \in v}, !.walking = FALSE, !.touched = {}]
          \in Readers
    BY <1>0, <2>3 DEF Readers
  <2> QED
    BY <1>0, <2>2, <2>4, ReaderTypes
<1>4. ASSUME NEW d \in Day, LoopSlots(c, d) PROVE reader' \in [Caller -> Readers]
  <2>1. PICK v \in Visits(c) :
          reader' = [reader EXCEPT ![c].view = DB!Put(@, d, SlotsOf(d, v)),
                                   ![c].walking = FALSE, ![c].touched = {}]
    BY <1>4 DEF LoopSlots
  <2> DEFINE w == DB!Put(reader[c].view, d, SlotsOf(d, v))
  <2>2. reader' = [reader EXCEPT ![c] = [reader[c] EXCEPT !.view = w,
                                           !.walking = FALSE, !.touched = {}]]
    BY <2>1
  <2>3. w \in DB!PartialMaps(Day, SUBSET SortKey)
    <3>1. SlotsOf(d, v) \in SUBSET SortKey
      BY <1>2 DEF SlotsOf
    <3>2. reader[c].view \in DB!PartialMaps(Day, SUBSET SortKey)
      BY <1>0 DEF Readers
    <3>3. PICK D \in SUBSET Day : reader[c].view \in [D -> SUBSET SortKey]
      BY <3>2 DEF DB!PartialMaps
    <3>4. w \in [D \cup {d} -> SUBSET SortKey] /\ D \cup {d} \in SUBSET Day
      BY <3>1, <3>3 DEF DB!Put
    <3> QED
      BY <3>4 DEF DB!PartialMaps
  <2> HIDE DEF w
  <2>4. [reader[c] EXCEPT !.view = w, !.walking = FALSE, !.touched = {}] \in Readers
    BY <1>0, <2>3 DEF Readers
  <2> QED
    BY <1>0, <2>2, <2>4, ReaderTypes
<1> QED
  BY <1>1, <1>3, <1>4

\* The key that a closure writes, if it writes.
Written(c, p) ==
    IF Schedule' # Schedule /\ p = call[c].partitionKey THEN {call[c].sortKey} ELSE {}

LEMMA WrittenKeys ==
    ASSUME DBP!IInv, NEW c \in Caller, DB!RunAction(c), NEW p
    PROVE  Written(c, p) \subseteq SortKey
<1>1. call[c] \in DB!Closure
  BY RunActionFacts
<1>2. CASE call[c].op # "ReadSchedule"
  BY <1>1, <1>2 DEF DB!Closure, Written
<1>3. CASE call[c].op = "ReadSchedule"
  BY <1>3, RunActionFacts
     DEF Written, Created, Deleted, NotCreated, NotDeleted, Listed
<1> QED
  BY <1>2, <1>3

\* The walks notice what the actor writes.
LEMMA StoreRunsIs ==
    ASSUME NEW c \in Caller, StoreRuns(c)
    PROVE  reader' = [d \in Caller |->
             IF handler[d].stage \notin {"days", "slots"} THEN reader[d]
             ELSE [reader[d] EXCEPT
                     !.touched = IF reader[d].walking
                                 THEN @ \cup Written(c, Req(d).partitionKey) ELSE @,
                     !.disturbed = @ \cup Written(c, Req(d).partitionKey)]]
BY DEF StoreRuns, Written

LEMMA StoreRunsTypes ==
    ASSUME Core, NEW c \in Caller, StoreRuns(c)
    PROVE  reader' \in [Caller -> Readers]
<1>1. reader \in [Caller -> Readers] /\ DBP!IInv /\ DB!RunAction(c)
  BY DEF Core, Types, StoreRuns
<1>2. ASSUME NEW d \in Caller
      PROVE  [reader[d] EXCEPT
                !.touched = IF reader[d].walking
                            THEN @ \cup Written(c, Req(d).partitionKey) ELSE @,
                !.disturbed = @ \cup Written(c, Req(d).partitionKey)] \in Readers
  <2>1. Written(c, Req(d).partitionKey) \subseteq SortKey /\ reader[d] \in Readers
    BY <1>1, WrittenKeys
  <2> QED
    BY <2>1 DEF Readers
<1> QED
  BY <1>1, <1>2, StoreRunsIs

LEMMA InitCore == Init => Core
<1> SUFFICES ASSUME Init PROVE Core
  OBVIOUS
<1>1. DBP!IInv
  <2>1. DBP!Init
    BY DEF Init, DB!Init, DBP!Init
  <2> QED
    BY <2>1, DBP!InitIInv, StoreAssumption, StoreMethods
<1>2. Types
  <2>1. Idle \in Handlers
    BY DEF Idle, Handlers
  <2> QED
    BY <2>1, UnreadTyped DEF Init, Types
<1>3. ASSUME NEW c \in Caller PROVE Asks(c) /\ Kind(c)
  BY StoreAssumption DEF Init, DB!Init, Asks, Kind, Idle, Calling
<1> QED
  BY <1>1, <1>2, <1>3 DEF Core

LEMMA StepHandlers ==
    ASSUME Core, [Next]_vars
    PROVE  handler' \in [Caller -> Handlers] /\ \A d \in Caller : Asks(d)'
<1> DEFINE Goal == handler' \in [Caller -> Handlers] /\ \A d \in Caller : Asks(d)'
<1>0. handler \in [Caller -> Handlers] /\ DBP!IInv /\ DB!TypeOK
  BY StoreFacts DEF Core, Types
<1>1. ASSUME UNCHANGED <<handler, call>>,
             \A d \in Caller : pc'[d] = "idle" <=> pc[d] = "idle"
      PROVE  Goal
  BY <1>0, <1>1, SameAsks DEF Core
<1>2. ASSUME NEW c \in Caller, SendCall(c) PROVE Goal
  BY <1>0, <1>1, <1>2 DEF SendCall, DB!Send, DB!TypeOK
<1>3. ASSUME NEW c \in Caller, StoreRuns(c) PROVE Goal
  BY <1>0, <1>1, <1>3, RunActionFacts DEF StoreRuns
<1>4. ASSUME NEW c \in Caller, BeginLoop(c) \/ \E d \in Day : LoopSlots(c, d) PROVE Goal
  BY <1>1, <1>4 DEF BeginLoop, LoopSlots, storeVars
<1>5. ASSUME NEW c \in Caller, LoopDays(c) \/ ViewDone(c) PROVE Goal
  <2>1. \E s \in {"slots", "replied"} : \E r : Moves(c, s, r)
    BY <1>5, GoMoves, ReplyMoves DEF LoopDays, ViewDone, Core, Stages, Replies
  <2>2. UNCHANGED <<pc, call>> /\ handler[c].stage \in {"days", "slots"} /\ pc[c] = "idle"
    BY <1>5 DEF LoopDays, ViewDone, storeVars, At, Core, Asks, Calling
  <2>3. Asks(c)'
    BY <2>1, <2>2, RepliedAsks DEF Moves, Core
  <2> QED
    BY <2>1, <2>2, <2>3, OtherAsks DEF Moves
<1>6. ASSUME NEW c \in Caller, Finish(c) PROVE Goal
  <2>1. Idle \in Handlers /\ Idle.stage = "idle"
    BY DEF Idle, Handlers
  <2>2. /\ handler' \in [Caller -> Handlers] /\ handler'[c].stage = "idle"
        /\ \A d \in Caller : d # c => handler'[d] = handler[d]
    BY <1>0, <1>6, <2>1 DEF Finish
  <2>3. UNCHANGED <<pc, call>> /\ pc[c] = "idle"
    BY <1>6 DEF Finish, storeVars, At, Core, Asks, Calling
  <2>4. Asks(c)'
    BY <2>2, <2>3 DEF Asks, Calling
  <2> QED
    BY <2>2, <2>3, <2>4, OtherAsks
<1>7. CASE Fatal \/ UNCHANGED vars
  BY <1>1, <1>7 DEF Fatal, vars, storeVars
<1> QED
  BY <1>2, <1>3, <1>4, <1>5, <1>6, <1>7, AcceptAsks, ParseFailsAsks, CallAsks, AnsweredAsks
     DEF Next, Handle, Answered

\* Only answers move the acknowledgements.
LEMMA AcksMoves ==
    ASSUME [Next]_vars
    PROVE  \/ UNCHANGED acks
           \/ \E c \in Caller, a \in DB!Answer : DeleteAnswered(c, a) \/ CreateAnswered(c, a)
<1>1. ASSUME NEW c \in Caller, NEW r \in Request, Accept(c, r) PROVE UNCHANGED acks
  BY <1>1 DEF Accept
<1>2. ASSUME NEW c \in Caller, ParseFails(c) \/ CallDelete(c) \/ CallCreate(c) \/ CallRead(c)
      PROVE  UNCHANGED acks
  BY <1>2 DEF ParseFails, CallDelete, CallCreate, CallRead, Call
<1>3. ASSUME NEW c \in Caller,
             \/ BeginLoop(c) \/ LoopDays(c) \/ \E d \in Day : LoopSlots(c, d)
             \/ ViewDone(c) \/ Finish(c)
      PROVE  UNCHANGED acks
  BY <1>3 DEF BeginLoop, LoopDays, LoopSlots, ViewDone, Finish
<1>4. ASSUME NEW c \in Caller, SendCall(c) \/ StoreRuns(c) PROVE UNCHANGED acks
  BY <1>4 DEF SendCall, StoreRuns
<1>5. ASSUME NEW c \in Caller, NEW a \in DB!Answer, ReadAnswered(c, a) PROVE UNCHANGED acks
  BY <1>5 DEF ReadAnswered
<1>6. CASE Fatal \/ UNCHANGED vars
  BY <1>6 DEF Fatal, vars
<1> QED
  BY <1>1, <1>2, <1>3, <1>4, <1>5, <1>6 DEF Next, Handle, Answered

LEMMA StepTypes == ASSUME Core, [Next]_vars PROVE Types'
<1>0. Types
  BY DEF Core
<1>1. handler' \in [Caller -> Handlers]
  BY StepHandlers
<1>2. alive' \in BOOLEAN /\ reader' \in [Caller -> Readers]
  <2>1. ASSUME NEW c \in Caller,
               BeginLoop(c) \/ LoopDays(c) \/ \E d \in Day : LoopSlots(c, d)
        PROVE  alive' \in BOOLEAN /\ reader' \in [Caller -> Readers]
    BY <1>0, <2>1, LoopTypes DEF Types, BeginLoop, LoopDays, LoopSlots
  <2>2. ASSUME NEW c \in Caller, StoreRuns(c)
        PROVE  alive' \in BOOLEAN /\ reader' \in [Caller -> Readers]
    BY <1>0, <2>2, StoreRunsTypes DEF Types, StoreRuns
  <2>3. ASSUME NEW c \in Caller, Finish(c)
        PROVE  alive' \in BOOLEAN /\ reader' \in [Caller -> Readers]
    BY <1>0, <2>3, UnreadTyped, ReaderTypes DEF Types, Finish
  <2>4. CASE Fatal
    BY <1>0, <2>4 DEF Types, Fatal
  <2>5. CASE UNCHANGED <<alive, reader>>
    BY <1>0, <2>5 DEF Types
  <2>6. ASSUME NEW c \in Caller, NEW r \in Request, Accept(c, r)
        PROVE  UNCHANGED <<alive, reader>>
    BY <2>6 DEF Accept
  <2>7. ASSUME NEW c \in Caller,
               \/ ParseFails(c) \/ CallDelete(c) \/ CallCreate(c) \/ CallRead(c)
               \/ ViewDone(c) \/ SendCall(c)
        PROVE  UNCHANGED <<alive, reader>>
    BY <2>7 DEF ParseFails, CallDelete, CallCreate, CallRead, Call, ViewDone, SendCall
  <2>8. ASSUME NEW c \in Caller, Answered(c) PROVE UNCHANGED <<alive, reader>>
    BY <2>8 DEF Answered, DeleteAnswered, CreateAnswered, ReadAnswered
  <2>9. CASE UNCHANGED vars
    BY <2>5, <2>9 DEF vars
  <2> QED
    BY <2>1, <2>2, <2>3, <2>4, <2>5, <2>6, <2>7, <2>8, <2>9 DEF Next, Handle
<1>3. acks' \in [PartitionKey \X SortKey -> Int]
  <2>1. ASSUME NEW c \in Caller, NEW k, NEW n \in Int, Acked(c, k, n)
        PROVE  acks' \in [PartitionKey \X SortKey -> Int]
    <3> DEFINE D == PartitionKey \X SortKey
               x == <<Req(c).partitionKey, k>>
    <3>1. acks \in [D -> Int] /\ acks' = [acks EXCEPT ![x] = acks[x] + n]
      BY <1>0, <2>1 DEF Types, Acked
    <3> HIDE DEF D, x
    <3>2. x \in D => acks[x] + n \in Int
      BY <2>1, <3>1
    <3>3. acks' \in [D -> Int]
      BY <3>1, <3>2
    <3> QED
      BY <3>3 DEF D
  <2>2. CASE UNCHANGED acks
    BY <1>0, <2>2 DEF Types
  <2>3. ASSUME NEW c \in Caller, NEW a, DeleteAnswered(c, a)
        PROVE  acks' \in [PartitionKey \X SortKey -> Int]
    <3>1. UNCHANGED acks \/ Acked(c, KeyAt(c, NextHour(c)), -1)
      BY <2>3, DeleteAnsweredIs
    <3>2. -1 \in Int
      OBVIOUS
    <3> QED
      BY <2>1, <2>2, <3>1, <3>2
  <2>4. ASSUME NEW c \in Caller, NEW a, CreateAnswered(c, a)
        PROVE  acks' \in [PartitionKey \X SortKey -> Int]
    <3>1. UNCHANGED acks \/ Acked(c, KeyAt(c, NextHour(c)), 1)
      BY <2>4, CreateAnsweredIs
    <3>2. 1 \in Int
      OBVIOUS
    <3> QED
      BY <2>1, <2>2, <3>1, <3>2
  <2> QED
    BY <2>2, <2>3, <2>4, AcksMoves
<1> QED
  BY <1>1, <1>2, <1>3 DEF Types

LEMMA StepCore == Core /\ [Next]_vars => Core'
<1> SUFFICES ASSUME Core, [Next]_vars PROVE Core'
  OBVIOUS
<1>1. DBP!IInv' /\ \A c \in Caller : Kind(c)'
  BY StepStore, StoreInductive, KindInductive DEF Core
<1> QED
  BY <1>1, StepTypes, StepHandlers DEF Core

THEOREM CoreHolds == Spec => []Core
BY InitCore, StepCore, PTL DEF Spec

\* The handlers and the actor together behave as Database says, so that what holds
\* of Database holds here.
THEOREM StoreIsDatabase == Spec => DB!Spec
<1>1. Init => DB!Init
  BY DEF Init
<1> QED
  BY <1>1, StepStore, CoreHolds, PTL DEF Spec, DB!Spec

\* To the handlers the store is atomic: each of their calls takes effect at one
\* instant between its begin and its return, whatever the other requests do.
THEOREM StoreIsAtomic == Spec => DBP!ImplementsStore
<1>1. Init => DBP!IInv /\ DBP!Store!Init
  <2>1. Init => DBP!Init
    BY DEF Init, DB!Init, DBP!Init
  <2> QED
    BY <2>1, DBP!InitIInv, DBP!InitRefines, StoreAssumption, StoreMethods
<1>2. Core /\ [Next]_vars => [DBP!Store!Next]_(DBP!Store!vars)
  <2>1. Core /\ [Next]_vars => DBP!IInv /\ [DBP!Next]_(DBP!vars)
    BY StepStore, SameNext DEF Core
  <2> QED
    BY <2>1, DBP!NextRefines, StoreAssumption, StoreMethods
<1> QED
  BY <1>1, <1>2, CoreHolds, PTL DEF Spec, DBP!ImplementsStore, DBP!Store!Spec

\* Every variable stays of its type: a reply is one the service has, an answer of
\* the store is one to its call, a view has the days and keys there are.
THEOREM TypeCorrect == Spec => []TypeOK
<1>1. Core => TypeOK
  BY StoreFacts DEF Core, Types, TypeOK
<1> QED
  BY <1>1, CoreHolds, PTL

-----------------------------------------------------------------------------
\* What the schedule holds after a closure has run.

LEMMA CreatedHolds ==
    ASSUME NEW c \in Caller, Created(c), NEW p, NEW k
    PROVE  /\ p \in DOMAIN Schedule' <=>
                p \in DOMAIN Schedule \/ p = call[c].partitionKey
           /\ DB!Found(p, k)' <=>
                \/ DB!Found(p, k)
                \/ p = call[c].partitionKey /\ k = call[c].sortKey
           /\ DB!Found(p, k)' =>
                Schedule'[p][k] = IF p = call[c].partitionKey /\ k = call[c].sortKey
                                  THEN call[c].task ELSE Schedule[p][k]
<1> DEFINE q == call[c].partitionKey
           j == call[c].sortKey
           t == call[c].task
           m == DB!Put(DB!Tasks(q), j, t)
<1>1. /\ DOMAIN m = DOMAIN DB!Tasks(q) \cup {j} /\ m[j] = t
      /\ \A i \in DOMAIN DB!Tasks(q) : i # j => m[i] = DB!Tasks(q)[i]
  BY DEF DB!Put
<1>2. Schedule' = DB!Put(Schedule, q, m)
  BY DEF Created
<1> HIDE DEF m, q, j, t
<1>3. /\ DOMAIN Schedule' = DOMAIN Schedule \cup {q} /\ Schedule'[q] = m
      /\ \A x \in DOMAIN Schedule : x # q => Schedule'[x] = Schedule[x]
  BY <1>2 DEF DB!Put
<1>4. DB!Tasks(p)' = IF p = q THEN m ELSE DB!Tasks(p)
  BY <1>3 DEF DB!Tasks
<1>5. DB!Found(p, k)' <=> DB!Found(p, k) \/ (p = q /\ k = j)
  BY <1>1, <1>4 DEF DB!Found
<1>6. ASSUME DB!Found(p, k)'
      PROVE  Schedule'[p][k] = IF p = q /\ k = j THEN t ELSE Schedule[p][k]
  <2>1. CASE p # q
    BY <1>3, <1>5, <1>6, <2>1 DEF DB!Found, DB!Tasks
  <2>2. CASE p = q /\ k # j
    BY <1>1, <1>3, <1>5, <1>6, <2>2 DEF DB!Found, DB!Tasks
  <2>3. CASE p = q /\ k = j
    BY <1>1, <1>3, <2>3
  <2> QED
    BY <2>1, <2>2, <2>3
<1> QED
  BY <1>3, <1>5, <1>6 DEF q, j, t

LEMMA DeletedHolds ==
    ASSUME NEW c \in Caller, Deleted(c), NEW p, NEW k
    PROVE  /\ DB!Found(p, k)' <=>
                /\ DB!Found(p, k)
                /\ ~(p = call[c].partitionKey /\ k = call[c].sortKey)
           /\ DB!Found(p, k)' => Schedule'[p][k] = Schedule[p][k]
<1> DEFINE q == call[c].partitionKey
           j == call[c].sortKey
           m == DB!Without(DB!Tasks(q), j)
<1>0. q \in DOMAIN Schedule
  BY DEF Deleted, DB!Found, DB!Tasks
<1>1. /\ DOMAIN m = DOMAIN DB!Tasks(q) \ {j}
      /\ \A i \in DOMAIN m : m[i] = DB!Tasks(q)[i]
  BY DEF DB!Without
<1>2. Schedule' = DB!Put(Schedule, q, m)
  BY DEF Deleted
<1> HIDE DEF m, q, j
<1>3. /\ DOMAIN Schedule' = DOMAIN Schedule \cup {q} /\ Schedule'[q] = m
      /\ \A x \in DOMAIN Schedule : x # q => Schedule'[x] = Schedule[x]
  BY <1>2 DEF DB!Put
<1>4. DB!Tasks(p)' = IF p = q THEN m ELSE DB!Tasks(p)
  BY <1>3 DEF DB!Tasks
<1>5. DB!Found(p, k)' <=> DB!Found(p, k) /\ ~(p = q /\ k = j)
  BY <1>1, <1>4 DEF DB!Found
<1>6. ASSUME DB!Found(p, k)' PROVE Schedule'[p][k] = Schedule[p][k]
  BY <1>0, <1>1, <1>3, <1>4, <1>5, <1>6 DEF DB!Found, DB!Tasks
<1> QED
  BY <1>5, <1>6 DEF q, j

\* Only the store's closures change the schedule.
LEMMA ScheduleMoves ==
    ASSUME Core, [Next]_vars
    PROVE  \/ UNCHANGED Schedule
           \/ \E c \in Caller : StoreRuns(c)
<1>1. CASE UNCHANGED storeVars
  BY <1>1 DEF storeVars
<1>2. ASSUME NEW c \in Caller, CallDelete(c) \/ CallCreate(c) \/ CallRead(c)
      PROVE  UNCHANGED Schedule
  BY <1>2 DEF CallDelete, CallCreate, CallRead, Call, DB!Call, DB!storeVars
<1>3. ASSUME NEW c \in Caller, SendCall(c) PROVE UNCHANGED Schedule
  BY <1>3 DEF SendCall, DB!Send, DB!storeVars
<1>4. ASSUME NEW c \in Caller, Answered(c) PROVE UNCHANGED Schedule
  BY <1>4, ReceiveFacts DEF Core, Answered, DeleteAnswered, CreateAnswered, ReadAnswered
<1>5. ASSUME NEW c \in Caller, NEW r \in Request, Accept(c, r) PROVE UNCHANGED storeVars
  BY <1>5 DEF Accept
<1>6. ASSUME NEW c \in Caller,
             \/ ParseFails(c) \/ BeginLoop(c) \/ LoopDays(c)
             \/ \E d \in Day : LoopSlots(c, d)
             \/ ViewDone(c) \/ Finish(c)
      PROVE  UNCHANGED storeVars
  BY <1>6 DEF ParseFails, BeginLoop, LoopDays, LoopSlots, ViewDone, Finish
<1>7. CASE Fatal \/ UNCHANGED vars
  BY <1>1, <1>7 DEF Fatal, vars
<1> QED
  BY <1>1, <1>2, <1>3, <1>4, <1>5, <1>6, <1>7 DEF Next, Handle

\* A closure that creates a task is a handler's, with the task of its request.
LEMMA AskedCreate ==
    ASSUME Core, NEW c \in Caller, pc[c] # "idle", call[c].op = "CreateTask"
    PROVE  call[c].task.startHour = call[c].sortKey.startHour
<1>1. Asks(c) /\ handler[c].stage \in Calling
  BY DEF Core, Asks
<1>2. handler[c].stage = "creating"
  BY <1>1 DEF Asks, Calling, DeleteClosure, ReadClosure
<1> QED
  BY <1>1, <1>2 DEF Asks, CreateClosure, NextHour, KeyAt, NewTask

LEMMA StepKeyMatchesTask == Core /\ KeyMatchesTask /\ [Next]_vars => KeyMatchesTask'
<1> SUFFICES ASSUME Core, KeyMatchesTask, [Next]_vars,
                    NEW p \in DOMAIN Schedule', NEW k \in DOMAIN Schedule'[p]
             PROVE  Schedule'[p][k].startHour = k.startHour
  BY DEF KeyMatchesTask
<1>1. CASE UNCHANGED Schedule
  BY <1>1 DEF KeyMatchesTask
<1>2. ASSUME NEW c \in Caller, StoreRuns(c) PROVE Schedule'[p][k].startHour = k.startHour
  <2>1. DB!RunAction(c) /\ DBP!IInv
    BY <1>2 DEF StoreRuns, Core
  <2>2. DB!Found(p, k)'
    BY DEF DB!Found, DB!Tasks
  <2>3. ASSUME DB!Found(p, k) PROVE Schedule[p][k].startHour = k.startHour
    BY <2>3 DEF KeyMatchesTask, DB!Found, DB!Tasks
  <2>4. CASE Created(c)
    <3>1. call[c].task.startHour = call[c].sortKey.startHour
      BY <2>1, <2>4, AskedCreate, RunActionFacts DEF Created
    <3> QED
      BY <2>2, <2>3, <2>4, <3>1, CreatedHolds
  <2>5. CASE Deleted(c)
    BY <2>2, <2>3, <2>5, DeletedHolds
  <2> QED
    BY <1>1, <2>1, <2>4, <2>5, RunActionFacts DEF NotCreated, NotDeleted, Listed
<1> QED
  BY <1>1, <1>2, ScheduleMoves

\* Every task is stored under the hour it starts at, whatever the requests.
THEOREM KeysMatch == Spec => []KeyMatchesTask
<1>1. Init => KeyMatchesTask
  BY DEF Init, DB!Init, KeyMatchesTask
<1> QED
  BY <1>1, StepKeyMatchesTask, CoreHolds, PTL DEF Spec

-----------------------------------------------------------------------------
\* Updates: what a handler has deleted and created is what it has done of its
\* list so far, at every moment and not only when it has replied.

\* The keys of the hours that an update has still not deleted, and of those it
\* has: the list is worked off from its front.
Updates(c) ==
    (handler[c].stage # "idle" /\ Req(c).rpc = "UpdateTask") =>
      LET r == Req(c)
          n == Len(r.startHour) - Len(Todo(c))
      IN  /\ handler[c].stage \notin {"reading", "days", "slots"}
          /\ n \in 0..Len(r.startHour)
          /\ \A i \in 1..Len(Todo(c)) : Todo(c)[i] = r.startHour[n + i]
          /\ handler[c].gone = KeysOf(r, n)
          /\ IF handler[c].resp = "ok"
             THEN n = Len(r.startHour) /\ handler[c].made = {KeyAt(c, r.newStartHour)}
             ELSE handler[c].made = {}
          /\ handler[c].stage # "replied" => handler[c].resp = "none"

\* What can happen to one handler.
Accepts(c, r) ==
    handler'[c] = [Idle EXCEPT !.stage = "run", !.req = r, !.todo = OldHours(r)]
Fails(c) ==
    /\ handler[c].stage \in {"run", "deleting", "creating", "reading"}
    /\ \E r \in Replies \ {"ok", "none"} : Moves(c, "replied", r)
Enters(c) ==
    /\ handler[c].stage = "run"
    /\ \/ \E s \in {"deleting", "creating"} : Moves(c, s, handler[c].resp)
       \/ Req(c).rpc = "ReadSchedule" /\ Moves(c, "reading", handler[c].resp)
Reads(c) ==
    /\ handler[c].stage \in {"reading", "days", "slots"}
    /\ \E s \in {"days", "slots", "replied"} : \E r : Moves(c, s, r)
Deletes(c) ==
    /\ handler[c].stage = "deleting" /\ Todo(c) # <<>>
    /\ handler'[c] = HandlerDeleted(c)
Creates(c) ==
    /\ handler[c].stage = "creating" /\ Todo(c) = <<>>
    /\ NextHour(c) = NewHour(Req(c))
    /\ handler'[c] = HandlerCreated(c)

\* Of the handlers only c can have changed, and that as said.
Acts(c) ==
    /\ \/ \E r \in Request : Accepts(c, r)
       \/ Fails(c) \/ Enters(c) \/ Reads(c) \/ Deletes(c) \/ Creates(c)
       \/ handler'[c] = Idle
    /\ \A d \in Caller : d # c => handler'[d] = handler[d]

LEMMA AnsweredActs ==
    ASSUME Core, NEW c \in Caller, NEW a,
           DeleteAnswered(c, a) \/ CreateAnswered(c, a) \/ ReadAnswered(c, a)
    PROVE  Acts(c)
<1>0. /\ DB!Receive(c, a) /\ Types
      /\ handler \in [Caller -> Handlers] /\ handler[c] \in Handlers
  BY DEF DeleteAnswered, CreateAnswered, ReadAnswered, Core, Types
<1>1. CASE DeleteAnswered(c, a)
  <2>1. handler[c].stage = "deleting" /\ Todo(c) # <<>>
    BY <1>0, <1>1, DeleteAnswerFacts DEF DeleteAnswered, At
  <2>2. CASE Moves(c, "replied", "Task doesnt exists")
    BY <2>1, <2>2 DEF Acts, Fails, Replies, Moves
  <2>3. CASE handler' = [handler EXCEPT ![c] = HandlerDeleted(c)]
    BY <1>0, <2>1, <2>3 DEF Acts, Deletes
  <2> QED
    BY <1>1, <2>2, <2>3, DeleteAnsweredIs
<1>2. CASE CreateAnswered(c, a)
  <2>1. handler[c].stage = "creating" /\ Todo(c) = <<>> /\ NextHour(c) = NewHour(Req(c))
    BY <1>0, <1>2, CreateAnswerFacts DEF CreateAnswered, At, NextHour
  <2>2. CASE Moves(c, "replied", "Task already exists")
    BY <2>1, <2>2 DEF Acts, Fails, Replies, Moves
  <2>3. CASE handler' = [handler EXCEPT ![c] = HandlerCreated(c)]
    BY <1>0, <2>1, <2>3 DEF Acts, Creates
  <2> QED
    BY <1>2, <2>2, <2>3, CreateAnsweredIs
<1>3. CASE ReadAnswered(c, a)
  <2>1. handler[c].stage = "reading" /\ (Go(c, "days") \/ Reply(c, "Schedule not found"))
    BY <1>3 DEF ReadAnswered, At
  <2>2. Moves(c, "days", handler[c].resp) \/ Moves(c, "replied", "Schedule not found")
    BY <1>0, <2>1, GoMoves, ReplyMoves DEF Stages, Replies
  <2>3. \E s \in {"days", "slots", "replied"} : \E r : Moves(c, s, r)
    BY <2>2
  <2> QED
    BY <2>1, <2>2, <2>3 DEF Acts, Reads, Moves
<1> QED
  BY <1>1, <1>2, <1>3

LEMMA HandlerActs ==
    ASSUME Core, [Next]_vars
    PROVE  UNCHANGED handler \/ \E c \in Caller : Acts(c)
<1>0. Types /\ handler \in [Caller -> Handlers]
  BY DEF Core, Types
<1>1. ASSUME NEW c \in Caller, NEW r \in Request, Accept(c, r) PROVE Acts(c)
  BY <1>0, <1>1 DEF Accept, Acts, Accepts
<1>2. ASSUME NEW c \in Caller, ParseFails(c) PROVE Acts(c)
  <2>1. PICK e \in ParseError(NextHour(c)) : Reply(c, e)
    BY <1>2 DEF ParseFails
  <2>2. e \in Replies \ {"ok", "none"}
    BY DEF ParseError, Replies
  <2> QED
    BY <1>0, <1>2, <2>1, <2>2, ReplyMoves DEF ParseFails, At, Acts, Fails, Moves
<1>3. ASSUME NEW c \in Caller, CallDelete(c) \/ CallCreate(c) \/ CallRead(c) PROVE Acts(c)
  <2>1. /\ handler[c].stage = "run"
        /\ \/ Go(c, "deleting") \/ Go(c, "creating")
           \/ Req(c).rpc = "ReadSchedule" /\ Go(c, "reading")
    BY <1>3 DEF CallDelete, CallCreate, CallRead, Call, At
  <2> QED
    BY <1>0, <2>1, GoMoves DEF Acts, Enters, Moves, Stages
<1>4. ASSUME NEW c \in Caller, LoopDays(c) \/ ViewDone(c) PROVE Acts(c)
  <2>1. handler[c].stage \in {"days", "slots"} /\ (Go(c, "slots") \/ Reply(c, "ok"))
    BY <1>4 DEF LoopDays, ViewDone, At
  <2>2. \E s \in {"days", "slots", "replied"} : \E r : Moves(c, s, r)
    BY <1>0, <2>1, GoMoves, ReplyMoves DEF Stages, Replies
  <2> QED
    BY <2>1, <2>2 DEF Acts, Reads, Moves
<1>5. ASSUME NEW c \in Caller, Finish(c) PROVE Acts(c)
  BY <1>0, <1>5 DEF Finish, Acts
<1>6. ASSUME NEW c \in Caller, Answered(c) PROVE Acts(c)
  BY <1>6, AnsweredActs DEF Answered
<1>7. ASSUME NEW c \in Caller,
             \/ BeginLoop(c) \/ \E d \in Day : LoopSlots(c, d)
             \/ SendCall(c) \/ StoreRuns(c)
      PROVE  UNCHANGED handler
  BY <1>7 DEF BeginLoop, LoopSlots, SendCall, StoreRuns
<1>8. CASE Fatal \/ UNCHANGED vars
  BY <1>8 DEF Fatal, vars
<1> QED
  BY <1>1, <1>2, <1>3, <1>4, <1>5, <1>6, <1>7, <1>8 DEF Next, Handle

LEMMA KeysGrow ==
    ASSUME NEW r, NEW n \in Nat
    PROVE  /\ KeysOf(r, 0) = {}
           /\ KeysOf(r, n + 1) =
                KeysOf(r, n) \cup {[day |-> r.day, startHour |-> HourOf[r.startHour[n + 1]]]}
<1>1. 1..(n + 1) = 1..n \cup {n + 1} /\ 1..0 = {}
  OBVIOUS
<1> QED
  BY <1>1 DEF KeysOf

\* A handler that does not move on in its list keeps its account.
LEMMA SameUpdates ==
    ASSUME NEW c \in Caller, Updates(c), handler[c].stage # "idle",
           handler'[c].req = handler[c].req, handler'[c].todo = handler[c].todo,
           handler'[c].gone = handler[c].gone, handler'[c].made = handler[c].made,
           Req(c).rpc = "UpdateTask" =>
             /\ handler[c].stage # "replied"
             /\ \/ /\ handler'[c].stage \in {"run", "deleting", "creating"}
                   /\ handler'[c].resp = handler[c].resp
                \/ handler'[c].stage = "replied" /\ handler'[c].resp # "ok"
    PROVE  Updates(c)'
<1> SUFFICES ASSUME Req(c).rpc = "UpdateTask" PROVE Updates(c)'
  BY DEF Updates, Req
<1>1. Req(c)' = Req(c) /\ Todo(c)' = Todo(c)
  BY DEF Req, Todo
<1>2. handler[c].made = {} /\ handler[c].resp = "none"
  BY DEF Updates
<1> QED
  BY <1>1, <1>2 DEF Updates, KeysOf

LEMMA UpdatesInductive ==
    ASSUME Core, \A c \in Caller : Updates(c), [Next]_vars
    PROVE  \A d \in Caller : Updates(d)'
<1> SUFFICES ASSUME NEW d \in Caller PROVE Updates(d)'
  OBVIOUS
<1>0. Updates(d) /\ handler[d] \in Handlers
      /\ (handler[d].stage # "idle" => Req(d) \in Request)
  BY DEF Core, Types, Asks
<1>1. CASE handler'[d] = handler[d]
  <2>1. Req(d)' = Req(d) /\ Todo(d)' = Todo(d)
    BY <1>1 DEF Req, Todo
  <2> QED
    BY <1>0, <1>1, <2>1 DEF Updates, KeyAt
<1>2. ASSUME NEW r \in Request, Accepts(d, r) PROVE Updates(d)'
  <2>1. /\ handler'[d].stage = "run" /\ Req(d)' = r /\ Todo(d)' = OldHours(r)
        /\ handler'[d].resp = "none" /\ handler'[d].gone = {} /\ handler'[d].made = {}
    BY <1>2 DEF Accepts, Idle, Req, Todo
  <2>2. ASSUME r.rpc = "UpdateTask"
        PROVE  OldHours(r) = r.startHour /\ r.startHour \in Seq(HourText)
    BY <2>2, RequestParts DEF OldHours
  <2>3. KeysOf(r, 0) = {}
    BY KeysGrow
  <2> QED
    BY <2>1, <2>2, <2>3 DEF Updates
<1>3. CASE Fails(d) \/ Enters(d)
  BY <1>0, <1>3, SameUpdates DEF Fails, Enters, Moves
<1>4. CASE Reads(d)
  <2>1. Req(d).rpc # "UpdateTask"
    BY <1>0, <1>4 DEF Reads, Updates
  <2> QED
    BY <1>4, <2>1 DEF Reads, Moves, Updates, Req
<1>5. CASE Deletes(d)
  <2> SUFFICES ASSUME Req(d).rpc = "UpdateTask" PROVE Updates(d)'
    BY <1>0, <1>5 DEF Deletes, HandlerDeleted, Handlers, Updates, Req
  <2> DEFINE r == Req(d)
             n == Len(r.startHour) - Len(Todo(d))
  <2>1. /\ Req(d)' = r /\ Todo(d)' = Tail(Todo(d)) /\ handler'[d].stage = "run"
        /\ handler'[d].resp = handler[d].resp /\ handler'[d].made = handler[d].made
        /\ handler'[d].gone = handler[d].gone \cup {KeyAt(d, NextHour(d))}
    BY <1>0, <1>5 DEF Deletes, HandlerDeleted, Handlers, Req, Todo
  <2>2. /\ r.startHour \in Seq(HourText) /\ Todo(d) \in Seq(HourText) /\ Todo(d) # <<>>
        /\ n \in 0..Len(r.startHour)
        /\ \A i \in 1..Len(Todo(d)) : Todo(d)[i] = r.startHour[n + i]
        /\ handler[d].gone = KeysOf(r, n)
        /\ handler[d].resp = "none" /\ handler[d].made = {}
    BY <1>0, <1>5, RequestParts DEF Deletes, Updates, Handlers, Todo
  <2>3. NextHour(d) = r.startHour[n + 1]
    BY <2>2 DEF NextHour
  <2>4. /\ Len(Tail(Todo(d))) = Len(Todo(d)) - 1
        /\ \A i \in 1..Len(Tail(Todo(d))) : Tail(Todo(d))[i] = Todo(d)[i + 1]
    BY <2>2
  <2>5. Len(r.startHour) - Len(Todo(d)') = n + 1 /\ n + 1 \in 0..Len(r.startHour)
    BY <2>1, <2>2, <2>4
  <2>6. handler'[d].gone = KeysOf(r, n + 1)
    BY <2>1, <2>2, <2>3, KeysGrow DEF KeyAt
  <2>7. \A i \in 1..Len(Todo(d)') : Todo(d)'[i] = r.startHour[n + 1 + i]
    BY <2>1, <2>2, <2>4
  <2> QED
    BY <2>1, <2>2, <2>5, <2>6, <2>7 DEF Updates
<1>6. CASE Creates(d)
  <2> SUFFICES ASSUME Req(d).rpc = "UpdateTask" PROVE Updates(d)'
    BY <1>0, <1>6 DEF Creates, HandlerCreated, Handlers, Updates, Req
  <2>1. /\ Req(d)' = Req(d) /\ Todo(d)' = Todo(d) /\ handler'[d].stage = "replied"
        /\ handler'[d].resp = "ok" /\ handler'[d].gone = handler[d].gone
        /\ handler'[d].made = handler[d].made \cup {KeyAt(d, NextHour(d))}
    BY <1>0, <1>6 DEF Creates, HandlerCreated, Handlers, Req, Todo
  <2>2. Todo(d) = <<>> /\ handler[d].made = {} /\ NextHour(d) = Req(d).newStartHour
    BY <1>0, <1>6 DEF Creates, Updates, NewHour
  <2>3. Len(Todo(d)) = 0
    BY <2>2
  <2>4. Req(d).startHour \in Seq(HourText)
    BY <1>0, <1>6, RequestParts DEF Creates
  <2> QED
    BY <1>0, <1>6, <2>1, <2>2, <2>3, <2>4 DEF Creates, Updates, KeyAt, KeysOf
<1>7. CASE handler'[d] = Idle
  BY <1>7 DEF Updates, Idle
<1> QED
  BY <1>1, <1>2, <1>3, <1>4, <1>5, <1>6, <1>7, HandlerActs DEF Acts

\* Whatever happens at the same time, an update that succeeds has itself
\* deleted a task under every hour it names and created its own; one that fails
\* has created nothing, and deleted what a beginning of its list names.
THEOREM UpdatesAccounted == Spec => []UpdateAccounted
<1> DEFINE I == \A c \in Caller : Updates(c)
<1>1. Init => I
  BY DEF Init, Idle, Updates
<1>2. Core /\ I /\ [Next]_vars => I'
  BY UpdatesInductive
<1>3. Core /\ I => UpdateAccounted
  BY DEF Updates, UpdateAccounted
<1> HIDE DEF I
<1> QED
  BY <1>1, <1>2, <1>3, CoreHolds, PTL DEF Spec

-----------------------------------------------------------------------------
\* Acknowledgements: the tasks that are there, less the creates and more the
\* deletes that the store has done and no handler knows of yet.

Names(c, p, k) == call[c].partitionKey = p /\ call[c].sortKey = k

\* The handlers whose creation of a task at p, k is done and not acknowledged.
Creating(p, k) ==
    {c \in Caller : /\ reply[c] # <<>> /\ Head(reply[c]) = DB!Done
                    /\ call[c].op = "CreateTask" /\ Names(c, p, k)}

\* The same of a deletion: there can be only one.
Deleting(p, k) == serving # NoCaller /\ Head(sends) = DB!Done /\ Names(serving, p, k)

Num(b) == IF b THEN 1 ELSE 0

Balanced(p, k) ==
    /\ IsFiniteSet(Creating(p, k))
    /\ acks[<<p, k>>] + Cardinality(Creating(p, k)) =
         Num(DB!Found(p, k)) + Num(Deleting(p, k))

Balance == \A p \in PartitionKey, k \in SortKey : Balanced(p, k)

LEMMA AckedAt ==
    ASSUME Types, NEW c \in Caller, NEW j, NEW n \in Int, Acked(c, j, n),
           NEW p \in PartitionKey, NEW k \in SortKey
    PROVE  acks'[<<p, k>>] =
             acks[<<p, k>>] + IF p = Req(c).partitionKey /\ k = j THEN n ELSE 0
<1>1. <<p, k>> \in PartitionKey \X SortKey /\ acks \in [PartitionKey \X SortKey -> Int]
  BY DEF Types
<1>2. <<p, k>> = <<Req(c).partitionKey, j>> <=> p = Req(c).partitionKey /\ k = j
  OBVIOUS
<1>3. acks[<<p, k>>] \in Int
  BY <1>1
<1> QED
  BY <1>1, <1>2, <1>3 DEF Acked

\* The store's side: a creation or a deletion is done, or nothing is.
LEMMA RunBalance ==
    ASSUME Core, NEW c \in Caller, StoreRuns(c), NEW p \in PartitionKey, NEW k \in SortKey,
           Balanced(p, k)
    PROVE  Balanced(p, k)'
<1>1. /\ DB!RunAction(c) /\ DBP!IInv /\ Types /\ acks' = acks /\ DB!TypeOK
      /\ reply \in [Caller -> Seq(DB!Answer)]
  BY StoreFacts DEF StoreRuns, Core, DB!TypeOK
<1>2. /\ reply[c] = <<>> /\ serving = NoCaller /\ call' = call
      /\ c \notin Creating(p, k) /\ ~Deleting(p, k)
  BY <1>1, RunActionFacts DEF Creating, Deleting
<1>3. acks[<<p, k>>] \in Int
  BY <1>1 DEF Types
<1>4. \A a : <<a>> # <<>> /\ Head(<<a>>) = a
  OBVIOUS
<1>5. DB!Done # DB!Err("Task already exists") /\ DB!Done # DB!Err("Task doesnt exists")
  BY DEF DB!Done, DB!Err
<1>6. CASE Created(c)
  <2>1. serving' = NoCaller /\ reply' = [reply EXCEPT ![c] = <<DB!Done>>]
    BY <1>2, <1>6 DEF Created
  <2>2. ~Deleting(p, k)'
    BY <2>1 DEF Deleting
  <2>3. CASE Names(c, p, k)
    <3>1. Creating(p, k)' = Creating(p, k) \cup {c}
      BY <1>1, <1>2, <1>4, <1>6, <2>1, <2>3 DEF Creating, Names, Created
    <3>2. ~DB!Found(p, k) /\ DB!Found(p, k)'
      BY <1>6, <2>3, CreatedHolds DEF Created, Names
    <3>3. /\ IsFiniteSet(Creating(p, k)')
          /\ Cardinality(Creating(p, k)') = Cardinality(Creating(p, k)) + 1
      BY <1>2, <3>1, FS_AddElement DEF Balanced
    <3> QED
      BY <1>1, <1>2, <1>3, <2>2, <3>2, <3>3, FS_CardinalityType DEF Balanced, Num
  <2>4. CASE ~Names(c, p, k)
    <3>1. Creating(p, k)' = Creating(p, k)
      BY <1>1, <1>2, <2>1, <2>4 DEF Creating, Names
    <3>2. DB!Found(p, k)' <=> DB!Found(p, k)
      BY <1>6, <2>4, CreatedHolds DEF Names
    <3> QED
      BY <1>1, <1>2, <2>2, <3>1, <3>2 DEF Balanced, Num
  <2> QED
    BY <2>3, <2>4
<1>7. CASE Deleted(c)
  <2>1. Creating(p, k)' = Creating(p, k)
    BY <1>2, <1>7 DEF Creating, Names, Deleted
  <2>2. Deleting(p, k)' <=> Names(c, p, k)
    BY <1>2, <1>4, <1>7, StoreAssumption DEF Deleting, Names, Deleted
  <2>3. CASE Names(c, p, k)
    <3>1. DB!Found(p, k) /\ ~DB!Found(p, k)'
      BY <1>7, <2>3, DeletedHolds DEF Names, Deleted
    <3> QED
      BY <1>1, <1>2, <2>1, <2>2, <2>3, <3>1 DEF Balanced, Num
  <2>4. CASE ~Names(c, p, k)
    <3>1. DB!Found(p, k)' <=> DB!Found(p, k)
      BY <1>7, <2>4, DeletedHolds DEF Names
    <3> QED
      BY <1>1, <1>2, <2>1, <2>2, <2>4, <3>1 DEF Balanced, Num
  <2> QED
    BY <2>3, <2>4
<1>8. CASE NotCreated(c) \/ NotDeleted(c) \/ Listed(c)
  <2>1. Creating(p, k)' = Creating(p, k)
    BY <1>1, <1>2, <1>4, <1>5, <1>8 DEF Creating, Names, NotCreated, NotDeleted, Listed
  <2>2. ~Deleting(p, k)'
    BY <1>2, <1>4, <1>5, <1>8 DEF Deleting, NotCreated, NotDeleted, Listed
  <2>3. DB!Found(p, k)' <=> DB!Found(p, k)
    BY <1>8 DEF NotCreated, NotDeleted, Listed, DB!Found, DB!Tasks
  <2> QED
    BY <1>1, <1>2, <2>1, <2>2, <2>3 DEF Balanced, Num
<1> QED
  BY <1>1, <1>6, <1>7, <1>8, RunActionFacts

\* The handlers' side: a creation or a deletion is acknowledged.
LEMMA AnsweredBalance ==
    ASSUME Core, NEW c \in Caller, NEW a,
           DeleteAnswered(c, a) \/ CreateAnswered(c, a) \/ ReadAnswered(c, a),
           NEW p \in PartitionKey, NEW k \in SortKey, Balanced(p, k)
    PROVE  Balanced(p, k)'
<1>1. /\ DB!Receive(c, a) /\ DBP!IInv /\ DB!TypeOK /\ Types
      /\ reply \in [Caller -> Seq(DB!Answer)] /\ call' = [call EXCEPT ![c] = NoCall]
      /\ serving \in Caller \cup {NoCaller} /\ Schedule' = Schedule
  BY StoreFacts, ReceiveFacts
     DEF Core, DB!TypeOK, DeleteAnswered, CreateAnswered, ReadAnswered
<1>2. /\ \A d \in Caller : d # c => call'[d] = call[d]
      /\ DB!Found(p, k)' <=> DB!Found(p, k)
      /\ acks[<<p, k>>] \in Int
  BY <1>1 DEF DB!Found, DB!Tasks, DB!TypeOK, Types
<1>3. DB!Done # DB!Err("Task already exists") /\ DB!Done # DB!Err("Task doesnt exists")
  BY DEF DB!Done, DB!Err
<1>4. CASE DeleteAnswered(c, a)
  <2>1. /\ serving = c /\ a = Head(sends) /\ serving' = NoCaller /\ UNCHANGED reply
        /\ call[c] = DeleteClosure(c) /\ reply[c] = <<>>
    BY <1>1, <1>4, DeleteAnswerFacts, StoreFacts DEF DeleteAnswered, At
  <2>2. Creating(p, k)' = Creating(p, k)
    BY <1>1, <1>2, <2>1 DEF Creating, Names
  <2>3. ~Deleting(p, k)'
    BY <2>1 DEF Deleting
  <2>4. Deleting(p, k) <=> a = DB!Done /\ Names(c, p, k)
    BY <2>1, StoreAssumption DEF Deleting
  <2>5. CASE a = DB!Err("Task doesnt exists") /\ UNCHANGED acks
    BY <1>2, <1>3, <2>2, <2>3, <2>4, <2>5 DEF Balanced, Num
  <2>6. CASE a = DB!Done /\ Acked(c, KeyAt(c, NextHour(c)), -1)
    <3>1. Names(c, p, k) <=> p = Req(c).partitionKey /\ k = KeyAt(c, NextHour(c))
      BY <2>1 DEF Names, DeleteClosure
    <3>2. -1 \in Int
      OBVIOUS
    <3>3. acks'[<<p, k>>] = acks[<<p, k>>] + IF Names(c, p, k) THEN -1 ELSE 0
      BY <1>1, <2>6, <3>1, <3>2, AckedAt
    <3> QED
      BY <1>2, <2>2, <2>3, <2>4, <2>6, <3>3, FS_CardinalityType DEF Balanced, Num
  <2> QED
    BY <1>4, <2>5, <2>6, DeleteAnsweredIs
<1>5. CASE CreateAnswered(c, a)
  <2>1. /\ reply[c] # <<>> /\ a = Head(reply[c]) /\ reply' = [reply EXCEPT ![c] = <<>>]
        /\ UNCHANGED <<serving, sends>> /\ call[c] = CreateClosure(c) /\ serving # c
    BY <1>1, <1>5, CreateAnswerFacts, StoreFacts DEF CreateAnswered, At
  <2>2. Creating(p, k)' = Creating(p, k) \ {c}
    BY <1>1, <1>2, <2>1 DEF Creating, Names
  <2>3. Deleting(p, k)' <=> Deleting(p, k)
    BY <1>1, <1>2, <2>1 DEF Deleting, Names
  <2>4. c \in Creating(p, k) <=> a = DB!Done /\ Names(c, p, k)
    BY <2>1 DEF Creating, CreateClosure
  <2>5. /\ IsFiniteSet(Creating(p, k)')
        /\ Cardinality(Creating(p, k)') =
             Cardinality(Creating(p, k)) - IF c \in Creating(p, k) THEN 1 ELSE 0
    BY <2>2, FS_RemoveElement, FS_CardinalityType DEF Balanced
  <2>6. CASE a = DB!Err("Task already exists") /\ UNCHANGED acks
    <3>1. Creating(p, k)' = Creating(p, k)
      BY <1>3, <2>2, <2>4, <2>6
    <3> QED
      BY <1>2, <2>3, <2>6, <3>1 DEF Balanced, Num
  <2>7. CASE a = DB!Done /\ Acked(c, KeyAt(c, NextHour(c)), 1)
    <3>1. Names(c, p, k) <=> p = Req(c).partitionKey /\ k = KeyAt(c, NextHour(c))
      BY <2>1 DEF Names, CreateClosure
    <3>2. acks'[<<p, k>>] = acks[<<p, k>>] + IF Names(c, p, k) THEN 1 ELSE 0
      BY <1>1, <2>7, <3>1, AckedAt
    <3> QED
      BY <1>2, <2>3, <2>4, <2>5, <2>7, <3>2, FS_CardinalityType DEF Balanced, Num
  <2> QED
    BY <1>5, <2>6, <2>7, CreateAnsweredIs
<1>6. CASE ReadAnswered(c, a)
  <2>1. call[c] = ReadClosure(c) /\ Kind(c) /\ acks' = acks
    BY <1>6 DEF ReadAnswered, At, Core, Asks
  <2>2. call[c].op = "ReadSchedule"
    BY <2>1 DEF ReadClosure
  <2>3. /\ reply' = [reply EXCEPT ![c] = <<>>] /\ UNCHANGED <<serving, sends>>
        /\ serving # c
    BY <1>1, <2>1, <2>2, ReceiveFacts DEF Kind
  <2>4. Creating(p, k)' = Creating(p, k) /\ (Deleting(p, k)' <=> Deleting(p, k))
    BY <1>1, <1>2, <2>2, <2>3 DEF Creating, Deleting, Names
  <2> QED
    BY <1>2, <2>1, <2>4 DEF Balanced, Num
<1> QED
  BY <1>4, <1>5, <1>6

LEMMA StepBalance == Core /\ Balance /\ [Next]_vars => Balance'
<1> SUFFICES ASSUME Core, [Next]_vars,
                    NEW p \in PartitionKey, NEW k \in SortKey, Balanced(p, k)
             PROVE  Balanced(p, k)'
  BY DEF Balance
<1>1. ASSUME UNCHANGED <<Schedule, call, reply, serving, sends, acks>> PROVE Balanced(p, k)'
  BY <1>1 DEF Balanced, Creating, Deleting, Names, DB!Found, DB!Tasks
<1>2. CASE UNCHANGED storeVars /\ UNCHANGED acks
  BY <1>1, <1>2 DEF storeVars
<1>3. ASSUME NEW c \in Caller, CallDelete(c) \/ CallCreate(c) \/ CallRead(c)
      PROVE  Balanced(p, k)'
  <2>1. PICK f : DB!Call(c, f) /\ acks' = acks
    BY <1>3 DEF CallDelete, CallCreate, CallRead, Call
  <2>2. /\ call' = [call EXCEPT ![c] = f] /\ reply[c] = <<>> /\ serving # c
        /\ UNCHANGED <<Schedule, reply, serving, sends>> /\ DB!TypeOK
    BY <2>1, CallFacts, StoreFacts DEF Core
  <2>3. Creating(p, k)' = Creating(p, k) /\ (Deleting(p, k)' <=> Deleting(p, k))
    BY <2>2 DEF Creating, Deleting, Names, DB!TypeOK
  <2> QED
    BY <2>1, <2>2, <2>3 DEF Balanced, Num, DB!Found, DB!Tasks
<1>4. ASSUME NEW c \in Caller, SendCall(c) PROVE Balanced(p, k)'
  BY <1>1, <1>4 DEF SendCall, DB!Send, DB!storeVars
<1>5. ASSUME NEW c \in Caller, NEW r \in Request, Accept(c, r) PROVE Balanced(p, k)'
  BY <1>2, <1>5 DEF Accept
<1>6. ASSUME NEW c \in Caller,
             \/ ParseFails(c) \/ BeginLoop(c) \/ LoopDays(c)
             \/ \E d \in Day : LoopSlots(c, d)
             \/ ViewDone(c) \/ Finish(c)
      PROVE  Balanced(p, k)'
  BY <1>2, <1>6 DEF ParseFails, BeginLoop, LoopDays, LoopSlots, ViewDone, Finish
<1>7. CASE Fatal \/ UNCHANGED vars
  BY <1>2, <1>7 DEF Fatal, vars
<1> QED
  BY <1>3, <1>4, <1>5, <1>6, <1>7, RunBalance, AnsweredBalance DEF Next, Handle, Answered

\* When nothing is in flight, a key holds a task exactly if one more create
\* than deletes was acknowledged for it, and none otherwise.
THEOREM AcksBalance == Spec => []AcksAddUp
<1>1. Init => Balance
  <2> SUFFICES ASSUME Init, NEW p \in PartitionKey, NEW k \in SortKey PROVE Balanced(p, k)
    BY DEF Balance
  <2>1. Creating(p, k) = {} /\ ~Deleting(p, k)
    BY DEF Init, DB!Init, Creating, Deleting
  <2>2. ~DB!Found(p, k) /\ acks[<<p, k>>] = 0
    BY DEF Init, DB!Init, DB!Found, DB!Tasks
  <2> QED
    BY <2>1, <2>2, FS_EmptySet DEF Balanced, Num
<1>2. Core /\ Balance => AcksAddUp
  <2> SUFFICES ASSUME Core, Balance, \A c \in Caller : ~InFlight(c),
                      NEW p \in PartitionKey, NEW k \in SortKey
               PROVE  acks[<<p, k>>] = IF DB!Found(p, k) THEN 1 ELSE 0
    BY DEF AcksAddUp
  <2>1. \A c \in Caller : pc[c] = "idle"
    BY DEF Core, Asks, InFlight, Calling
  <2>2. DBP!IInv /\ DB!TypeOK /\ acks[<<p, k>>] \in Int
    BY StoreFacts DEF Core, Types
  <2>3. \A c \in Caller : reply[c] = <<>> /\ serving # c
    BY <2>1, <2>2, StoreFacts
  <2>4. serving = NoCaller
    BY <2>2, <2>3 DEF DB!TypeOK
  <2>5. Creating(p, k) = {} /\ ~Deleting(p, k)
    BY <2>3, <2>4 DEF Creating, Deleting
  <2>6. Balanced(p, k)
    BY DEF Balance
  <2> QED
    BY <2>2, <2>5, <2>6, FS_EmptySet DEF Balanced, Num
<1> QED
  BY <1>1, <1>2, StepBalance, CoreHolds, PTL DEF Spec

-----------------------------------------------------------------------------
\* Reading: what the walks have seen of the tasks that nobody wrote meanwhile.

\* Keys written during this loop were written during some loop, and no day is
\* done before the days are known.
Reading(c) ==
    /\ reader[c].touched \subseteq reader[c].disturbed
    /\ handler[c].stage \notin {"slots", "replied"} => DOMAIN reader[c].view = {}

\* What the view of c, made of days r.days, shows of one key.
Shows(c, k) ==
    /\ k \in Live(c) => k.day \in reader[c].days
    /\ \A d \in DOMAIN reader[c].view :
         k \in reader[c].view[d] <=> (k.day = d /\ k \in Live(c))

Slots(c) ==
    handler[c].stage = "slots" =>
      \A k \in SortKey \ reader[c].disturbed : Shows(c, k)

LEMMA VisitsUntouched ==
    ASSUME NEW c \in Caller, Reading(c), NEW v \in Visits(c),
           NEW k, k \notin reader[c].disturbed
    PROVE  k \in v <=> k \in Live(c)
BY DEF Visits, Reading

LEMMA SameReading ==
    ASSUME NEW d \in Caller, Reading(d), Slots(d), reader'[d] = reader[d],
           handler'[d].stage = "slots" => handler'[d].req = handler[d].req,
           \/ handler'[d].stage = handler[d].stage
           \/ /\ handler'[d].stage # "slots"
              /\ handler'[d].stage = "replied" \/ handler[d].stage \notin {"slots", "replied"},
           UNCHANGED Schedule
    PROVE  Reading(d)' /\ Slots(d)'
<1>1. handler'[d].stage = "slots" => Live(d)' = Live(d)
  BY DEF Live, DB!Tasks, Req
<1>2. Reading(d)'
  BY DEF Reading
<1>3. Slots(d)'
  BY <1>1 DEF Slots, Shows
<1> QED
  BY <1>2, <1>3

LEMMA LoopReading ==
    ASSUME Core, NEW c \in Caller, Reading(c), Slots(c),
           BeginLoop(c) \/ LoopDays(c) \/ \E d \in Day : LoopSlots(c, d)
    PROVE  Reading(c)' /\ Slots(c)'
<1>0. /\ reader[c] \in Readers /\ reader \in [Caller -> Readers] /\ Types
      /\ handler[c] \in Handlers
  BY DEF Core, Types
<1>1. Live(c)' = Live(c) /\ Req(c)' = Req(c)
  <2>1. UNCHANGED Schedule
    BY DEF BeginLoop, LoopDays, LoopSlots, storeVars
  <2>2. Req(c)' = Req(c)
    BY <1>0, GoMoves DEF BeginLoop, LoopDays, LoopSlots, Req, Moves, Stages
  <2> QED
    BY <2>1, <2>2 DEF Live, DB!Tasks
<1>2. CASE BeginLoop(c)
  <2>1. /\ handler' = handler /\ reader'[c].touched = reader[c].touched
        /\ reader'[c].disturbed = reader[c].disturbed /\ reader'[c].days = reader[c].days
        /\ reader'[c].view = reader[c].view
    BY <1>0, <1>2 DEF BeginLoop, Readers
  <2> QED
    BY <1>1, <2>1 DEF Reading, Slots, Shows
<1>3. CASE LoopDays(c)
  <2>1. PICK v \in Visits(c) :
          reader' = [reader EXCEPT ![c].days = {k.day : k \in v},
                                   ![c].walking = FALSE, ![c].touched = {}]
    BY <1>3 DEF LoopDays
  <2>2. /\ reader'[c].touched = {} /\ reader'[c].disturbed = reader[c].disturbed
        /\ reader'[c].days = {k.day : k \in v} /\ reader'[c].view = reader[c].view
    BY <1>0, <2>1 DEF Readers
  <2>3. handler[c].stage = "days" /\ DOMAIN reader[c].view = {}
    BY <1>3 DEF LoopDays, At, Reading
  <2>4. ASSUME NEW k \in SortKey, k \notin reader[c].disturbed PROVE Shows(c, k)'
    <3>1. k \in v <=> k \in Live(c)
      BY <2>4, VisitsUntouched
    <3> QED
      BY <1>1, <2>2, <2>3, <3>1 DEF Shows
  <2> QED
    BY <2>2, <2>3, <2>4 DEF Reading, Slots
<1>4. ASSUME NEW d \in Day, LoopSlots(c, d) PROVE Reading(c)' /\ Slots(c)'
  <2>1. PICK v \in Visits(c) :
          reader' = [reader EXCEPT ![c].view = DB!Put(@, d, SlotsOf(d, v)),
                                   ![c].walking = FALSE, ![c].touched = {}]
    BY <1>4 DEF LoopSlots
  <2>2. /\ reader'[c].touched = {} /\ reader'[c].disturbed = reader[c].disturbed
        /\ reader'[c].days = reader[c].days
        /\ reader'[c].view = DB!Put(reader[c].view, d, SlotsOf(d, v))
    BY <1>0, <2>1 DEF Readers
  <2>3. handler[c].stage = "slots" /\ handler' = handler
    BY <1>4 DEF LoopSlots, At
  <2>4. ASSUME NEW k \in SortKey, k \notin reader[c].disturbed PROVE Shows(c, k)'
    <3>1. k \in v <=> k \in Live(c)
      BY <2>4, VisitsUntouched
    <3>2. Shows(c, k)
      BY <2>3, <2>4 DEF Slots
    <3>3. k \in SlotsOf(d, v) <=> k.day = d /\ k \in Live(c)
      BY <3>1 DEF SlotsOf
    <3> QED
      BY <1>1, <2>2, <3>2, <3>3 DEF Shows, DB!Put
  <2> QED
    BY <2>2, <2>3, <2>4 DEF Reading, Slots
<1> QED
  BY <1>2, <1>3, <1>4

\* The actor changes what a reader sees only at the key that it writes.
LEMMA LiveMoves ==
    ASSUME Core, NEW c \in Caller, StoreRuns(c), NEW d \in Caller,
           NEW k, k \notin Written(c, Req(d).partitionKey)
    PROVE  k \in Live(d)' <=> k \in Live(d)
<1>1. DB!RunAction(c) /\ DBP!IInv /\ Req(d)' = Req(d)
  BY DEF StoreRuns, Core, Req
<1>2. CASE UNCHANGED Schedule
  BY <1>1, <1>2 DEF Live, DB!Tasks
<1>3. CASE Schedule' # Schedule
  <2>1. Created(c) \/ Deleted(c)
    BY <1>1, <1>3, RunActionFacts DEF NotCreated, NotDeleted, Listed
  <2>2. PICK p : p = Req(d).partitionKey
    OBVIOUS
  <2>3. ~(p = call[c].partitionKey /\ k = call[c].sortKey)
    BY <1>3, <2>2 DEF Written
  <2>4. DB!Found(p, k)' <=> DB!Found(p, k)
    BY <2>1, <2>3, CreatedHolds, DeletedHolds
  <2>5. (k \in Live(d) <=> DB!Found(p, k)) /\ (k \in Live(d)' <=> DB!Found(p, k)')
    BY <1>1, <2>2 DEF Live, DB!Found, DB!Tasks
  <2> QED
    BY <2>4, <2>5
<1> QED
  BY <1>2, <1>3

LEMMA RunReading ==
    ASSUME Core, NEW c \in Caller, StoreRuns(c), NEW d \in Caller, Reading(d), Slots(d)
    PROVE  Reading(d)' /\ Slots(d)'
<1> DEFINE W == Written(c, Req(d).partitionKey)
<1>0. reader[d] \in Readers /\ handler' = handler /\ Req(d)' = Req(d)
  BY DEF Core, Types, StoreRuns, Req
<1>1. CASE handler[d].stage \notin {"days", "slots"}
  <2>1. reader'[d] = reader[d]
    BY <1>1, StoreRunsIs
  <2> QED
    BY <1>0, <1>1, <2>1 DEF Reading, Slots
<1>2. CASE handler[d].stage \in {"days", "slots"}
  <2>1. reader'[d] = [reader[d] EXCEPT
                        !.touched = IF reader[d].walking THEN @ \cup W ELSE @,
                        !.disturbed = @ \cup W]
    BY <1>2, StoreRunsIs
  <2> HIDE DEF W
  <2>2. /\ reader'[d].disturbed = reader[d].disturbed \cup W
        /\ reader'[d].touched \subseteq reader[d].touched \cup W
        /\ reader'[d].days = reader[d].days /\ reader'[d].view = reader[d].view
    BY <1>0, <2>1 DEF Readers
  <2>3. ASSUME NEW k \in SortKey \ reader'[d].disturbed, Shows(d, k) PROVE Shows(d, k)'
    <3>1. k \in Live(d)' <=> k \in Live(d)
      BY <2>2, <2>3, LiveMoves DEF W
    <3> QED
      BY <2>2, <2>3, <3>1 DEF Shows
  <2>4. Reading(d)'
    BY <1>0, <2>2 DEF Reading
  <2>5. Slots(d)'
    BY <1>0, <2>2, <2>3 DEF Slots
  <2> QED
    BY <2>4, <2>5
<1> QED
  BY <1>1, <1>2

LEMMA StepReading ==
    ASSUME Core, [Next]_vars, \A c \in Caller : Reading(c) /\ Slots(c)
    PROVE  \A d \in Caller : Reading(d)' /\ Slots(d)'
<1> SUFFICES ASSUME NEW d \in Caller PROVE Reading(d)' /\ Slots(d)'
  OBVIOUS
<1>0. /\ Types /\ reader \in [Caller -> Readers] /\ handler \in [Caller -> Handlers]
      /\ Reading(d) /\ Slots(d)
  BY DEF Core, Types
<1>1. ASSUME NEW c \in Caller, StoreRuns(c) PROVE Reading(d)' /\ Slots(d)'
  BY <1>1, RunReading
<1>2. ASSUME NEW c \in Caller,
             BeginLoop(c) \/ LoopDays(c) \/ \E e \in Day : LoopSlots(c, e)
      PROVE  Reading(d)' /\ Slots(d)'
  <2>1. CASE d = c
    BY <1>2, <2>1, LoopReading
  <2>2. CASE d # c
    <3>1. reader'[d] = reader[d] /\ handler'[d] = handler[d] /\ UNCHANGED Schedule
      BY <1>0, <1>2, <2>2, GoMoves
         DEF BeginLoop, LoopDays, LoopSlots, storeVars, Moves, Stages
    <3> QED
      BY <1>0, <3>1, SameReading
  <2> QED
    BY <2>1, <2>2
<1>3. ASSUME NEW c \in Caller, Finish(c) PROVE Reading(d)' /\ Slots(d)'
  <2>1. CASE d = c
    <3>1. reader'[d] = Unread /\ handler'[d].stage = "idle"
      BY <1>0, <1>3, <2>1 DEF Finish, Idle
    <3>2. DOMAIN Unread.view = {} /\ Unread.touched = {}
      BY DEF Unread
    <3> QED
      BY <3>1, <3>2 DEF Reading, Slots
  <2>2. CASE d # c
    <3>1. reader'[d] = reader[d] /\ handler'[d] = handler[d] /\ UNCHANGED Schedule
      BY <1>0, <1>3, <2>2 DEF Finish, storeVars
    <3> QED
      BY <1>0, <3>1, SameReading
  <2> QED
    BY <2>1, <2>2
<1>4. ASSUME NEW c \in Caller, UNCHANGED <<reader, Schedule>>,
             handler'[c].stage # "slots",
             handler'[c].stage = "replied" \/ handler[c].stage \notin {"slots", "replied"},
             \A e \in Caller : e # c => handler'[e] = handler[e]
      PROVE  Reading(d)' /\ Slots(d)'
  BY <1>0, <1>4, SameReading
<1>5. ASSUME NEW c \in Caller, NEW r \in Request, Accept(c, r) PROVE Reading(d)' /\ Slots(d)'
  <2>1. handler[c].stage = "idle" /\ handler'[c].stage = "run"
    BY <1>0, <1>5 DEF Accept, At, Idle
  <2> QED
    BY <1>0, <1>4, <1>5, <2>1 DEF Accept, storeVars
<1>6. ASSUME NEW c \in Caller, ParseFails(c) \/ ViewDone(c) PROVE Reading(d)' /\ Slots(d)'
  <2>1. \E r \in Replies : Reply(c, r)
    BY <1>6 DEF ParseFails, ViewDone, ParseError, Replies
  <2>2. \E r : Moves(c, "replied", r)
    BY <1>0, <2>1, ReplyMoves
  <2> QED
    BY <1>4, <1>6, <2>2 DEF ParseFails, ViewDone, Moves, storeVars
<1>7. ASSUME NEW c \in Caller, CallDelete(c) \/ CallCreate(c) \/ CallRead(c)
      PROVE  Reading(d)' /\ Slots(d)'
  <2>1. /\ handler[c].stage = "run" /\ UNCHANGED reader
        /\ \E s \in Calling : Go(c, s)
        /\ \E f : DB!Call(c, f)
    BY <1>7 DEF CallDelete, CallCreate, CallRead, Call, At, Calling
  <2>2. \E s \in Calling : Moves(c, s, handler[c].resp)
    BY <1>0, <2>1, GoMoves DEF Calling, Stages
  <2>3. UNCHANGED Schedule
    BY <2>1 DEF DB!Call, DB!storeVars
  <2> QED
    BY <1>4, <2>1, <2>2, <2>3 DEF Moves, Calling
<1>8. ASSUME NEW c \in Caller, NEW a,
             DeleteAnswered(c, a) \/ CreateAnswered(c, a) \/ ReadAnswered(c, a)
      PROVE  Reading(d)' /\ Slots(d)'
  <2>1. UNCHANGED <<reader, Schedule>>
    BY <1>8, ReceiveFacts DEF Core, DeleteAnswered, CreateAnswered, ReadAnswered
  <2>2. CASE ReadAnswered(c, a)
    <3>1. handler[c].stage = "reading" /\ (Go(c, "days") \/ Reply(c, "Schedule not found"))
      BY <2>2 DEF ReadAnswered, At
    <3>2. Moves(c, "days", handler[c].resp) \/ Moves(c, "replied", "Schedule not found")
      BY <1>0, <3>1, GoMoves, ReplyMoves DEF Stages, Replies
    <3> QED
      BY <1>4, <2>1, <3>1, <3>2 DEF Moves
  <2>3. CASE DeleteAnswered(c, a) \/ CreateAnswered(c, a)
    <3>1. handler[c].stage \in {"deleting", "creating"} /\ Acts(c) /\ handler[c] \in Handlers
      BY <1>0, <2>3, AnsweredActs DEF DeleteAnswered, CreateAnswered, At
    <3>2. handler'[c].stage # "slots"
      <4>1. CASE \E r \in Request : Accepts(c, r)
        BY <4>1 DEF Accepts, Idle
      <4>2. CASE Fails(c) \/ Enters(c) \/ Reads(c)
        BY <3>1, <4>2 DEF Fails, Enters, Reads, Moves
      <4>3. CASE Deletes(c) \/ Creates(c)
        BY <3>1, <4>3 DEF Deletes, Creates, HandlerDeleted, HandlerCreated, Handlers
      <4>4. CASE handler'[c] = Idle
        BY <4>4 DEF Idle
      <4> QED
        BY <3>1, <4>1, <4>2, <4>3, <4>4 DEF Acts
    <3>3. \A e \in Caller : e # c => handler'[e] = handler[e]
      BY <3>1 DEF Acts
    <3> QED
      BY <1>4, <2>1, <3>1, <3>2, <3>3
  <2> QED
    BY <1>8, <2>2, <2>3
<1>9. ASSUME UNCHANGED <<Schedule, handler, reader>> PROVE Reading(d)' /\ Slots(d)'
  BY <1>0, <1>9, SameReading
<1>10. ASSUME NEW c \in Caller, SendCall(c) PROVE Reading(d)' /\ Slots(d)'
  BY <1>9, <1>10 DEF SendCall, DB!Send, DB!storeVars
<1>11. CASE Fatal \/ UNCHANGED vars
  BY <1>9, <1>11 DEF Fatal, vars, storeVars
<1> QED
  BY <1>1, <1>2, <1>3, <1>5, <1>6, <1>7, <1>8, <1>10, <1>11 DEF Next, Handle, Answered

\* What a view shows of the keys that nobody wrote while it was made is
\* exactly what the store holds, whatever happens to the other keys.
THEOREM ViewsTrue == Spec => []UntouchedTasksShown
<1> DEFINE I == \A c \in Caller : Reading(c) /\ Slots(c)
<1>1. Init => I
  <2>1. DOMAIN Unread.view = {} /\ Unread.touched = {}
    BY DEF Unread
  <2> QED
    BY <2>1 DEF Init, Idle, Reading, Slots
<1>2. Core /\ I /\ [Next]_vars => I'
  BY StepReading
<1>3. I => UntouchedTasksShown
  BY DEF Slots, Shows, UntouchedTasksShown
<1> HIDE DEF I
<1> QED
  BY <1>1, <1>2, <1>3, CoreHolds, PTL DEF Spec

=============================================================================
