--------------------------- MODULE LifecycleProofs ---------------------------
(***************************************************************************)
(* Theorems about Lifecycle, for every set of handlers, every store and    *)
(* every number of calls that a request makes.  What is proved of Database *)
(* holds of the store in the process, as it is used as Database says.      *)
(***************************************************************************)
EXTENDS Lifecycle, TLAPS

Working == {"idle", "request", "stream", "ping"}

\* Main is past the drain of the API, the store's stop, the broker's close.
Drain == {"stopping", "stopCalled", "close", "quit", "quitting"}
StopBegun == {"stopCalled", "close", "quit", "quitting"}
StopDone == {"close", "quit", "quitting"}
BrokerDone == {"quit", "quitting"}

\* What main has brought about, by where it is.
Order ==
    /\ place.main \in Drain => timedOut \/ \A c \in Caller : handler[c] = "idle"
    /\ place.main \notin StopBegun => stop = "none"
    /\ stop \in {"waiting", "returned"} => run # "select"
    /\ place.main \in StopDone => run # "select"
    /\ place.broker = "closed" <=> place.main \in BrokerDone
    /\ place.nats \in {"quit", "down"} => place.main = "quitting"

OrderInv == place \in Places /\ handler \in [Caller -> Working] /\ Order

LEMMA InitOrder == Init => OrderInv
<1> SUFFICES ASSUME Init PROVE OrderInv
  OBVIOUS
<1>1. handler \in [Caller -> Working]
  BY DEF Init, Working
<1>2. stop = "none"
  BY DEF Init, DB!Init
<1> QED
  BY <1>1, <1>2 DEF Init, OrderInv, Order, Places, Drain, StopBegun, StopDone, BrokerDone

\* Steps of the store leave main alone; they end Run only after Stop was called.
LEMMA StoreSteps ==
    ASSUME OrderInv,
           UNCHANGED <<place, timedOut, handler>>,
           \/ UNCHANGED <<stop, run>>
           \/ DB!RunQuit
           \/ DB!RunReturn
    PROVE  OrderInv'
<1>1. CASE UNCHANGED <<stop, run>>
  BY <1>1 DEF OrderInv, Order
<1>2. CASE DB!RunQuit
  BY <1>2 DEF DB!RunQuit, OrderInv, Order
<1>3. CASE DB!RunReturn
  BY <1>3 DEF DB!RunReturn, OrderInv, Order
<1> QED
  BY <1>1, <1>2, <1>3

\* Main's own steps, and the listener's.
LEMMA MainSteps ==
    ASSUME OrderInv, Main \/ Listen \/ ListenFails \/ ServerError \/ TakeSignal \/ Timeout
    PROVE  OrderInv'
<1> USE DEF OrderInv, Order, Places, At, Exit, Drain, StopBegun, StopDone, BrokerDone,
            storeVars, sigVars, workVars
<1>1. CASE Configure
  BY <1>1 DEF Configure
<1>2. CASE StartNats
  BY <1>2 DEF StartNats
<1>3. CASE NatsReady
  BY <1>3 DEF NatsReady
<1>4. CASE NatsStarted
  BY <1>4 DEF NatsStarted
<1>5. CASE StartBroker
  BY <1>5 DEF StartBroker
<1>6. CASE Serve
  BY <1>6 DEF Serve
<1>7. CASE Listen
  BY <1>7 DEF Listen
<1>8. CASE ListenFails
  BY <1>8 DEF ListenFails, ListenerEnds
<1>9. CASE ServerError
  BY <1>9 DEF ServerError
<1>10. CASE TakeSignal
  BY <1>10 DEF TakeSignal
<1>11. CASE Drained
  BY <1>11 DEF Drained
<1>12. CASE Timeout
  BY <1>12 DEF Timeout
<1>13. CASE StopStore
  BY <1>13 DEF StopStore, DB!StopCall, DB!storeVars
<1>14. CASE StoreStopped
  BY <1>14 DEF StoreStopped, DB!StopReturn, DB!storeVars
<1>15. CASE CloseBroker
  BY <1>15 DEF CloseBroker
<1>16. CASE QuitNats
  BY <1>16 DEF QuitNats
<1>17. CASE NatsQuits
  BY <1>17 DEF NatsQuits
<1>18. CASE NatsDown
  BY <1>18 DEF NatsDown
<1> QED
  BY <1>1, <1>2, <1>3, <1>4, <1>5, <1>6, <1>7, <1>8, <1>9, <1>10, <1>11, <1>12,
     <1>13, <1>14, <1>15, <1>16, <1>17, <1>18 DEF Main

\* The handlers: nothing is accepted once main is past its select.
LEMMA HandlerSteps ==
    ASSUME OrderInv, NEW c \in Caller, Accept(c) \/ Handle(c) \/ EndStream(c)
    PROVE  OrderInv'
<1> USE DEF OrderInv, Order, storeVars, sigVars, workVars
<1>1. CASE Accept(c)
  <2>1. place.main \notin Drain
    BY <1>1 DEF Accept, ShuttingDown, Drain
  <2>2. handler' \in [Caller -> Working]
    BY <1>1 DEF Accept, Working
  <2> QED
    BY <1>1, <2>1, <2>2 DEF Accept
<1>2. CASE Respond(c)
  <2>1. handler' = [handler EXCEPT ![c] = "idle"]
    BY <1>2 DEF Respond
  <2>2. handler' \in [Caller -> Working]
    BY <2>1 DEF Working
  <2>3. (\A d \in Caller : handler[d] = "idle") => \A d \in Caller : handler'[d] = "idle"
    BY <2>1
  <2> QED
    BY <1>2, <2>2, <2>3 DEF Respond
<1>3. CASE \E f \in DB!Closure : CallStore(c, f)
  <2> PICK f \in DB!Closure : CallStore(c, f)
    BY <1>3
  <2>1. UNCHANGED <<place, timedOut, handler, stop, run>>
    BY DEF CallStore, DB!Call
  <2> QED
    BY <2>1
<1>4. CASE EndStream(c) \/ Ping(c)
  <2>1. handler' = [handler EXCEPT ![c] = "idle"]
    BY <1>4 DEF EndStream, Ping
  <2>2. handler' \in [Caller -> Working]
    BY <2>1 DEF Working
  <2>3. (\A d \in Caller : handler[d] = "idle") => \A d \in Caller : handler'[d] = "idle"
    BY <2>1
  <2> QED
    BY <1>4, <2>2, <2>3 DEF EndStream, Ping
<1> QED
  BY <1>1, <1>2, <1>3, <1>4 DEF Handle

LEMMA StepOrder == OrderInv /\ [Next]_vars => OrderInv'
<1> SUFFICES ASSUME OrderInv, [Next]_vars PROVE OrderInv'
  OBVIOUS
<1> USE DEF storeVars, sigVars, workVars
<1>1. CASE Main \/ Listen \/ ListenFails \/ ServerError \/ TakeSignal \/ Timeout
  BY <1>1, MainSteps
<1>2. CASE \E sig \in {"SIGINT", "SIGHUP", "SIGTERM", "SIGQUIT"} : Signal(sig)
  BY <1>2, StoreSteps DEF Signal
<1>3. CASE Interrupt
  BY <1>3, StoreSteps DEF Interrupt, Exit
<1>4. ASSUME NEW c \in Caller, Accept(c) \/ Handle(c) \/ EndStream(c)
      PROVE  OrderInv'
  BY <1>4, HandlerSteps
<1>5. ASSUME NEW c \in Caller, StoreStep(DB!Send(c)) PROVE OrderInv'
  BY <1>5, StoreSteps DEF StoreStep, DB!Send
<1>6. ASSUME NEW c \in Caller, NEW a \in DB!Answer, StoreStep(DB!Receive(c, a))
      PROVE  OrderInv'
  BY <1>6, StoreSteps
     DEF StoreStep, DB!Receive, DB!ReceiveBuffered, DB!ReceiveDirect
<1>7. ASSUME NEW c \in Caller, StoreStep(DB!RunAction(c)) PROVE OrderInv'
  BY <1>7, StoreSteps DEF StoreStep, DB!RunAction
<1>8. CASE StoreStep(DB!RunQuit) \/ StoreStep(DB!RunReturn)
  BY <1>8, StoreSteps DEF StoreStep
<1>9. CASE Publish
  BY <1>9, StoreSteps DEF Publish
<1>10. CASE UNCHANGED vars
  BY <1>10, StoreSteps DEF vars
<1> QED
  BY <1>1, <1>2, <1>3, <1>4, <1>5, <1>6, <1>7, <1>8, <1>9, <1>10 DEF Next

\* What the handlers use is stopped under none of them before its deadline, and
\* the store, the broker and the NATS server go in this order (dispatch.go:204).
\* The goroutine of a Ping is no handler, and is not waited for.
THEOREM LayersStopAfterUse == Spec => []StoppedAfterUse
<1>1. OrderInv => StoppedAfterUse
  BY DEF OrderInv, Order, StoppedAfterUse, Drain, StopBegun, StopDone, BrokerDone
<1> QED
  BY <1>1, InitOrder, StepOrder, PTL DEF Spec

-----------------------------------------------------------------------------
\* The store in the process.

DBP == INSTANCE DatabaseProofs WITH Op <- {"CreateTask", "DeleteTask"}

\* A step of the process is one of the store's or leaves the store alone.
LEMMA StepStore == [Next]_vars => [DB!Next]_(DB!vars)
<1> SUFFICES ASSUME [Next]_vars PROVE [DB!Next]_(DB!vars)
  OBVIOUS
<1> USE DEF storeVars, DB!vars, DB!storeVars
<1>1. CASE UNCHANGED storeVars
  BY <1>1
<1>2. CASE StopStore \/ StoreStopped
  BY <1>2 DEF StopStore, StoreStopped, DB!Next
<1>3. CASE Main /\ ~StopStore /\ ~StoreStopped
  BY <1>1, <1>3 DEF Main, Configure, StartNats, NatsReady, NatsStarted, StartBroker,
     Serve, Drained, CloseBroker, QuitNats, NatsQuits, NatsDown
<1>4. CASE Listen \/ ListenFails \/ ServerError \/ TakeSignal \/ Timeout \/ Interrupt
  BY <1>1, <1>4 DEF Listen, ListenFails, ListenerEnds, ServerError, TakeSignal, Timeout,
     Interrupt
<1>5. CASE \E sig \in {"SIGINT", "SIGHUP", "SIGTERM", "SIGQUIT"} : Signal(sig)
  BY <1>1, <1>5 DEF Signal
<1>6. ASSUME NEW c \in Caller, Accept(c) \/ Respond(c) \/ Ping(c) \/ EndStream(c)
      PROVE  [DB!Next]_(DB!vars)
  BY <1>1, <1>6 DEF Accept, Respond, Ping, EndStream
<1>7. ASSUME NEW c \in Caller, NEW f \in DB!Closure, CallStore(c, f)
      PROVE  [DB!Next]_(DB!vars)
  BY <1>7 DEF CallStore, DB!Next
<1>8. ASSUME NEW c \in Caller,
             \/ StoreStep(DB!Send(c))
             \/ \E a \in DB!Answer : StoreStep(DB!Receive(c, a))
             \/ StoreStep(DB!RunAction(c))
      PROVE  [DB!Next]_(DB!vars)
  BY <1>8 DEF StoreStep, DB!Next
<1>9. CASE StoreStep(DB!RunQuit) \/ StoreStep(DB!RunReturn)
  BY <1>9 DEF StoreStep, DB!Next
<1>10. CASE Publish
  BY <1>1, <1>10 DEF Publish
<1>11. CASE UNCHANGED vars
  BY <1>1, <1>11 DEF vars
<1> QED
  BY <1>2, <1>3, <1>4, <1>5, <1>6, <1>7, <1>8, <1>9, <1>10, <1>11 DEF Next, Handle

\* The handlers, main's db.Stop and the actor together behave as Database says,
\* so that what holds of Database holds here (dispatch.go:165, 211).
THEOREM StoreIsDatabase == Spec => DB!Spec
<1>1. Init => DB!Init
  BY DEF Init
<1> QED
  BY <1>1, StepStore, PTL DEF Spec, DB!Spec

LEMMA StoreMethods == {"CreateTask", "DeleteTask"} \subseteq DBP!Methods
BY DEF DBP!Methods

LEMMA InitStore == Init => DBP!IInv
<1>1. Init => DBP!Init
  BY DEF Init, DB!Init, DBP!Init
<1> QED
  BY <1>1, DBP!InitIInv, StoreAssumption, StoreMethods

\* The two instances have the same steps.
LEMMA SameNext == [DB!Next]_(DB!vars) => [DBP!Next]_(DBP!vars)
BY DEF DB!Next, DBP!Next, DB!vars, DBP!vars, DB!storeVars, DBP!storeVars,
   DB!Call, DBP!Call, DB!Closure, DBP!Closure, DB!Answer, DBP!Answer, DB!Error,
   DBP!Error, DB!Send, DBP!Send, DB!Room, DBP!Room, DB!Receive, DBP!Receive,
   DB!ReceiveBuffered, DBP!ReceiveBuffered, DB!ReceiveDirect, DBP!ReceiveDirect,
   DB!Return, DBP!Return, DB!RunAction, DBP!RunAction, DB!AtSelect, DBP!AtSelect,
   DB!Execute, DBP!Execute, DB!CreateTask, DBP!CreateTask, DB!DeleteTask,
   DBP!DeleteTask, DB!ReadTask, DBP!ReadTask, DB!ReadSchedule, DBP!ReadSchedule,
   DB!Buffered, DBP!Buffered, DB!Direct, DBP!Direct, DB!Found, DBP!Found, DB!Tasks,
   DBP!Tasks, DB!Put, DBP!Put, DB!Without, DBP!Without, DB!Deleted, DBP!Deleted,
   DB!Done, DBP!Done, DB!Err, DBP!Err, DB!Got, DBP!Got, DB!RunQuit, DBP!RunQuit,
   DB!RunReturn, DBP!RunReturn, DB!StopCall, DBP!StopCall, DB!StopReturn,
   DBP!StopReturn

LEMMA StepStoreInv == DBP!IInv /\ [Next]_vars => DBP!IInv'
BY SameNext, StepStore, DBP!NextIInv, StoreAssumption, StoreMethods

\* To the handlers the store is atomic until main stops it: each of their calls
\* takes effect at one instant between its begin and its return.
THEOREM StoreIsAtomic == Spec => DBP!ImplementsStore
<1>1. Init => DBP!IInv /\ DBP!Store!Init
  <2>1. Init => DBP!Init
    BY DEF Init, DB!Init, DBP!Init
  <2> QED
    BY <2>1, InitStore, DBP!InitRefines, StoreAssumption, StoreMethods
<1>2. DBP!IInv /\ [Next]_vars => [DBP!Store!Next]_(DBP!Store!vars)
  BY StepStore, SameNext, DBP!NextRefines, StoreAssumption, StoreMethods
<1> QED
  BY <1>1, <1>2, StepStoreInv, PTL
     DEF Spec, DBP!ImplementsStore, DBP!Store!Spec

\* What the invariant of the store says that is used here: its types, and that
\* nobody is in the queue who is not waiting.
LEMMA StoreFacts ==
    ASSUME DBP!IInv
    PROVE  /\ DB!TypeOK
           /\ actionCh # <<>> => \E c \in Caller : pc[c] # "idle"
<1>1. DBP!TypeOK
  BY DEF DBP!IInv
<1>2. DB!TypeOK
  BY <1>1 DEF DB!TypeOK, DBP!TypeOK, DB!PartialMaps, DBP!PartialMaps, DB!Closure,
     DBP!Closure, DB!Answer, DBP!Answer, DB!Error, DBP!Error
<1>3. ASSUME actionCh # <<>> PROVE \E c \in Caller : pc[c] # "idle"
  <2>1. actionCh \in Seq(Caller)
    BY <1>1 DEF DBP!TypeOK
  <2>2. 1 \in DOMAIN actionCh /\ actionCh[1] \in Caller
    BY <1>3, <2>1
  <2>3. DBP!Queued(actionCh[1])
    BY <2>2 DEF DBP!Queued
  <2>4. pc[actionCh[1]] = "waiting"
    BY <2>2, <2>3 DEF DBP!IInv, DBP!OneAnswerPerCall
  <2> QED
    BY <2>2, <2>4
<1> QED
  BY <1>2, <1>3

-----------------------------------------------------------------------------
\* Types, and what an end of the process leaves behind.

Types ==
    /\ place \in Places
    /\ signal \in BOOLEAN /\ trapped \in BOOLEAN /\ timedOut \in BOOLEAN
    /\ exit \in {"no", "ok", "failed", "killed", "interrupted"}
    /\ handler \in [Caller -> Working]
    /\ left \in [Caller -> 0..MaxCalls]
    /\ rounds \in 0..Rounds

\* Main has not started the listener.
Starting == {"configure", "start", "awaitNats", "broker", "serve"}

\* Requests come from the listener, store calls from requests, and a nil from
\* main's first step or its last.
Ends ==
    /\ \A c \in Caller : pc[c] # "idle" => handler[c] = "request"
    /\ place.listener = "none" <=> place.main \in Starting
    /\ place.main \in Starting => \A c \in Caller : handler[c] = "idle"
    /\ place.listener = "open" => place.main = "select"
    /\ place.main = "configure" => place.nats = "none" /\ place.broker = "none"
    /\ exit = "ok" => \/ place.main = "configure"
                      \/ place.main = "quitting" /\ place.nats = "down"

EndsInv == Types /\ DBP!IInv /\ OrderInv /\ Ends

LEMMA InitEnds == Init => EndsInv
<1> SUFFICES ASSUME Init PROVE Types /\ Ends
  BY InitStore, InitOrder DEF EndsInv
<1>1. left \in [Caller -> 0..MaxCalls]
  BY MaxCallsAssumption DEF Init
<1>2. \A c \in Caller : pc[c] = "idle"
  BY DEF Init, DB!Init
<1>3. rounds \in 0..Rounds
  BY RoundsAssumption DEF Init
<1> QED
  BY <1>1, <1>2, <1>3 DEF Init, Types, Ends, Places, Working, Starting

\* Main and the listener touch neither the handlers nor the signal that the NATS
\* server has.
LEMMA StepTypes == Types /\ OrderInv /\ [Next]_vars => Types'
<1> SUFFICES ASSUME Types, OrderInv, [Next]_vars PROVE Types'
  OBVIOUS
<1>0. place' \in Places
  BY StepOrder DEF OrderInv
<1> USE <1>0 DEF Types, storeVars, sigVars, workVars
<1>1. CASE UNCHANGED <<sigVars, timedOut, exit, workVars>>
  BY <1>1
<1>2. CASE Configure \/ StartNats \/ NatsReady \/ StartBroker
  BY <1>2 DEF Configure, StartNats, NatsReady, StartBroker, Exit
<1>3. CASE NatsStarted \/ Serve \/ Drained \/ StopStore \/ StoreStopped
  BY <1>1, <1>3 DEF NatsStarted, Serve, Drained, StopStore, StoreStopped
<1>4. CASE CloseBroker \/ QuitNats \/ NatsQuits
  BY <1>1, <1>4 DEF CloseBroker, QuitNats, NatsQuits
<1>5. CASE NatsDown
  BY <1>5 DEF NatsDown, Outcome
<1>6. CASE Listen \/ ListenFails
  BY <1>1, <1>6 DEF Listen, ListenFails, ListenerEnds
<1>7. CASE ServerError \/ Interrupt
  BY <1>7 DEF ServerError, Interrupt, Exit
<1>8. CASE TakeSignal
  BY <1>8 DEF TakeSignal
<1>9. CASE Timeout
  BY <1>9 DEF Timeout
<1>10. CASE \E sig \in {"SIGINT", "SIGHUP", "SIGTERM", "SIGQUIT"} : Signal(sig)
  BY <1>10 DEF Signal, Notified, NatsTraps
<1>11. ASSUME NEW c \in Caller, Accept(c) PROVE Types'
  BY <1>11 DEF Accept, Working
<1>12. ASSUME NEW c \in Caller, Respond(c) PROVE Types'
  BY <1>12, MaxCallsAssumption DEF Respond, Working
<1>13. ASSUME NEW c \in Caller, EndStream(c) PROVE Types'
  BY <1>13 DEF EndStream, Working
<1>14. ASSUME NEW c \in Caller, NEW f \in DB!Closure, CallStore(c, f) PROVE Types'
  <2>1. left[c] - 1 \in 0..MaxCalls
    BY <1>14, MaxCallsAssumption DEF CallStore, Calls
  <2> QED
    BY <1>14, <2>1 DEF CallStore
<1>15. ASSUME NEW c \in Caller, Ping(c) PROVE Types'
  BY <1>15, RoundsAssumption DEF Ping, Working
<1>16. CASE Publish
  BY <1>16, RoundsAssumption DEF Publish
<1> QED
  BY <1>1, <1>2, <1>3, <1>4, <1>5, <1>6, <1>7, <1>8, <1>9, <1>10, <1>11, <1>12, <1>13,
     <1>14, <1>15, <1>16 DEF Next, Main, Handle, StoreStep, vars

\* A step of the store makes nobody busy who was idle.
LEMMA StoreKeepsIdle ==
    ASSUME DB!TypeOK, NEW d \in Caller, pc[d] = "idle",
           \/ \E c \in Caller : \/ DB!Send(c)
                                \/ \E a \in DB!Answer : DB!Receive(c, a)
                                \/ DB!RunAction(c)
           \/ DB!RunQuit \/ DB!RunReturn \/ DB!StopCall \/ DB!StopReturn
    PROVE  pc'[d] = "idle"
<1>1. ASSUME NEW c \in Caller, DB!Send(c) PROVE pc'[d] = "idle"
  BY <1>1 DEF DB!Send, DB!TypeOK
<1>2. ASSUME NEW c \in Caller, NEW a \in DB!Answer, DB!Receive(c, a)
      PROVE  pc'[d] = "idle"
  BY <1>2 DEF DB!Receive, DB!ReceiveBuffered, DB!ReceiveDirect, DB!Return, DB!TypeOK
<1>3. ASSUME NEW c \in Caller, DB!RunAction(c) PROVE pc'[d] = "idle"
  BY <1>3 DEF DB!RunAction
<1>4. CASE DB!RunQuit \/ DB!RunReturn \/ DB!StopCall \/ DB!StopReturn
  BY <1>4 DEF DB!RunQuit, DB!RunReturn, DB!StopCall, DB!StopReturn, DB!storeVars
<1> QED
  BY <1>1, <1>2, <1>3, <1>4

LEMMA StepEnds == EndsInv /\ [Next]_vars => Ends'
<1> SUFFICES ASSUME EndsInv, [Next]_vars PROVE Ends'
  OBVIOUS
<1>0. DB!TypeOK /\ place \in Places /\ handler \in [Caller -> Working]
  BY StoreFacts DEF EndsInv, OrderInv
<1> USE <1>0 DEF EndsInv, Ends, Starting, storeVars, sigVars, workVars
<1>1. ASSUME UNCHANGED <<place, exit, handler>>,
             \A c \in Caller : pc[c] = "idle" => pc'[c] = "idle"
      PROVE  Ends'
  BY <1>1
<1>2. ASSUME UNCHANGED <<pc, handler>>,
             place'.listener = "none" <=> place'.main \in Starting,
             place'.main \in Starting => place.main \in Starting,
             place'.listener = "open" => place'.main = "select",
             place'.main = "configure" => place'.nats = "none" /\ place'.broker = "none",
             exit' = "ok" => \/ place'.main = "configure"
                             \/ place'.main = "quitting" /\ place'.nats = "down"
      PROVE  Ends'
  BY <1>2
<1>3. CASE Main
  <2> USE DEF At, Exit, Places
  <2>1. CASE Configure
    BY <1>2, <2>1 DEF Configure
  <2>2. CASE StartNats
    BY <1>2, <2>2 DEF StartNats
  <2>3. CASE NatsReady
    BY <1>2, <2>3 DEF NatsReady
  <2>4. CASE NatsStarted
    BY <1>2, <2>4 DEF NatsStarted
  <2>5. CASE StartBroker
    BY <1>2, <2>5 DEF StartBroker
  <2>6. CASE Serve
    BY <1>2, <2>6 DEF Serve
  <2>7. CASE Drained
    BY <1>2, <2>7 DEF Drained
  <2>8. CASE StopStore
    BY <1>2, <2>8 DEF StopStore, DB!StopCall, DB!storeVars
  <2>9. CASE StoreStopped
    BY <1>2, <2>9 DEF StoreStopped, DB!StopReturn, DB!storeVars
  <2>10. CASE CloseBroker
    BY <1>2, <2>10 DEF CloseBroker
  <2>11. CASE QuitNats
    BY <1>2, <2>11 DEF QuitNats
  <2>12. CASE NatsQuits
    BY <1>2, <2>12 DEF NatsQuits
  <2>13. CASE NatsDown
    BY <1>2, <2>13 DEF NatsDown
  <2> QED
    BY <1>3, <2>1, <2>2, <2>3, <2>4, <2>5, <2>6, <2>7, <2>8, <2>9, <2>10, <2>11, <2>12,
       <2>13 DEF Main
<1>4. CASE Listen \/ ListenFails \/ ServerError \/ TakeSignal \/ Timeout
  <2> USE DEF At, Exit, Places
  <2>1. CASE Listen
    BY <1>2, <2>1 DEF Listen, ShuttingDown
  <2>2. CASE ListenFails
    BY <1>2, <2>2 DEF ListenFails, ListenerEnds
  <2>3. CASE ServerError
    BY <1>2, <2>3 DEF ServerError
  <2>4. CASE TakeSignal
    BY <1>2, <2>4 DEF TakeSignal
  <2>5. CASE Timeout
    BY <1>2, <2>5 DEF Timeout
  <2> QED
    BY <1>4, <2>1, <2>2, <2>3, <2>4, <2>5
<1>5. CASE Interrupt \/ \E sig \in {"SIGINT", "SIGHUP", "SIGTERM", "SIGQUIT"} : Signal(sig)
  BY <1>5 DEF Interrupt, Exit, Signal
<1>6. ASSUME NEW c \in Caller, Accept(c) PROVE Ends'
  <2>1. UNCHANGED <<place, exit, pc>> /\ place.listener = "open" /\ handler[c] = "idle"
    BY <1>6 DEF Accept, At
  <2>2. \A d \in Caller : d # c => handler'[d] = handler[d]
    BY <1>6 DEF Accept
  <2> QED
    BY <2>1, <2>2
<1>7. ASSUME NEW c \in Caller, Respond(c) \/ Ping(c) \/ EndStream(c) PROVE Ends'
  <2>1. UNCHANGED <<place, exit, pc>> /\ pc[c] = "idle"
    BY <1>7 DEF Respond, Ping, EndStream
  <2>2. handler' = [handler EXCEPT ![c] = "idle"]
    BY <1>7 DEF Respond, Ping, EndStream
  <2> QED
    BY <2>1, <2>2
<1>8. ASSUME NEW c \in Caller, NEW f \in DB!Closure, CallStore(c, f) PROVE Ends'
  <2>1. UNCHANGED <<place, exit, handler>> /\ handler[c] = "request"
    BY <1>8 DEF CallStore, Calls
  <2>2. \A d \in Caller : d # c => pc'[d] = pc[d]
    BY <1>8 DEF CallStore, DB!Call, DB!TypeOK
  <2> QED
    BY <2>1, <2>2
<1>9. ASSUME NEW c \in Caller,
             \/ StoreStep(DB!Send(c))
             \/ \E a \in DB!Answer : StoreStep(DB!Receive(c, a))
             \/ StoreStep(DB!RunAction(c))
      PROVE  Ends'
  BY <1>1, <1>9, StoreKeepsIdle DEF StoreStep
<1>10. CASE StoreStep(DB!RunQuit) \/ StoreStep(DB!RunReturn)
  BY <1>1, <1>10, StoreKeepsIdle DEF StoreStep
<1>11. CASE Publish
  BY <1>1, <1>11 DEF Publish
<1>12. CASE UNCHANGED vars
  BY <1>1, <1>12 DEF vars
<1> QED
  BY <1>3, <1>4, <1>5, <1>6, <1>7, <1>8, <1>9, <1>10, <1>11, <1>12 DEF Next, Handle

LEMMA EndsAlways == Spec => []EndsInv
<1>1. EndsInv /\ [Next]_vars => EndsInv'
  BY StepTypes, StepStoreInv, StepOrder, StepEnds DEF EndsInv
<1> QED
  BY <1>1, InitEnds, PTL DEF Spec

\* Every variable of the process stays of its type, and so do the store's.
THEOREM TypeCorrect == Spec => []TypeOK
<1>1. EndsInv => TypeOK
  BY StoreFacts DEF EndsInv, Types, TypeOK, Working
<1> QED
  BY <1>1, EndsAlways, PTL

\* When run returns nil, main has stopped all that it has started in its turn, and no
\* store call is in the queue, unless the deadline of the API's handlers has
\* passed (dispatch.go:198).  A process that the NATS server ends (os.Exit) has not
\* returned from run.
THEOREM NilIsClean == Spec => []NilMeansClean
<1>1. EndsInv => NilMeansClean
  <2> SUFFICES ASSUME EndsInv PROVE NilMeansClean
    OBVIOUS
  <2>1. \A c \in Caller : handler[c] = "idle" => pc[c] = "idle"
    BY DEF EndsInv, Ends
  <2>2. actionCh # <<>> => \E c \in Caller : pc[c] # "idle"
    BY StoreFacts DEF EndsInv
  <2>3. CASE exit = "ok" /\ place.main = "configure"
    <3>1. actionCh = <<>>
      BY <2>1, <2>2, <2>3 DEF EndsInv, Ends, Starting
    <3> QED
      BY <2>3, <3>1 DEF EndsInv, Ends, Starting, NilMeansClean
  <2>4. CASE exit = "ok" /\ place.main = "quitting" /\ place.nats = "down"
    BY <2>1, <2>2, <2>4
       DEF EndsInv, Ends, OrderInv, Order, Drain, StopDone, BrokerDone, NilMeansClean
  <2> QED
    BY <2>3, <2>4 DEF EndsInv, Ends, NilMeansClean
<1> QED
  BY <1>1, EndsAlways, PTL

=============================================================================
