------------------------------ MODULE Lifecycle ------------------------------
(***************************************************************************)
(* The server process (cmd/dispatch/dispatch.go, platform/nats/nats.go):   *)
(* main reads its configuration, starts the embedded NATS server, the      *)
(* broker connection, the store and the API listener in this order, and on *)
(* a signal drains the API for a limited time and stops the others.        *)
(* Around it run the goroutines it starts, the handlers of the API and the *)
(* actor of Database.                                                      *)
(*                                                                         *)
(* A request is its number of store calls; what it asks for is of no       *)
(* account here.  A stream occupies its handler until its client leaves.   *)
(* A Ping is answered at once and leaves a goroutine behind that goes on   *)
(* publishing.                                                             *)
(***************************************************************************)
EXTENDS Integers, Sequences

CONSTANTS
    Caller, PartitionKey, SortKey, Task, NoCaller, NoCall, NoTask, ActionCap,
    MaxCalls,  \* bound: store calls of one request
    Rounds     \* of a Ping's goroutine: 10

ASSUME StoreAssumption == NoCaller \notin Caller /\ ActionCap \in Nat \ {0}
ASSUME MaxCallsAssumption == MaxCalls \in Nat
ASSUME RoundsAssumption == Rounds \in Nat \ {0}

VARIABLES
    Schedule, actionCh, pc, call, reply, serving, sends, run, stop,
    place,     \* where main and what it starts are
    signal,    \* the shutdown channel holds a signal
    trapped,   \* the NATS server's own handler has a SIGINT
    timedOut,  \* api.Shutdown has given up
    exit,      \* whether and how it has ended: "ok" is run's nil, "failed" its
               \* error or a log.Fatal, "interrupted" the NATS server's os.Exit(0)
    handler,   \* what each handler is doing
    left,      \* store calls its request may still make
    rounds     \* what the goroutine of a Ping has still to publish

storeVars == <<Schedule, actionCh, pc, call, reply, serving, sends, run, stop>>
sigVars == <<signal, trapped>>
workVars == <<handler, left, rounds>>
vars == <<storeVars, place, sigVars, timedOut, exit, workVars>>

DB == INSTANCE Database WITH Op <- {"CreateTask", "DeleteTask"}

Places == [
    main     : {"configure", "start", "awaitNats", "broker", "serve", "select",
                "draining", "stopping", "stopCalled", "close", "quit", "quitting"},
    nats     : {"none", "starting", "ready", "running", "quit", "down"},
    broker   : {"none", "connected", "closed"},
    listener : {"none", "starting", "open", "closed"},
    errors   : {"none", "failed", "closed"}]  \* serverErrors

TypeOK ==
    /\ DB!TypeOK
    /\ place \in Places
    /\ {signal, trapped, timedOut} \subseteq BOOLEAN
    /\ exit \in {"no", "ok", "failed", "killed", "interrupted"}
    /\ handler \in [Caller -> {"idle", "request", "stream", "ping"}]
    /\ left \in [Caller -> 0..MaxCalls]
    /\ rounds \in 0..Rounds

Init ==
    /\ DB!Init
    /\ place = [main |-> "configure", nats |-> "none", broker |-> "none",
                listener |-> "none", errors |-> "none"]
    /\ signal = FALSE /\ trapped = FALSE /\ timedOut = FALSE /\ exit = "no"
    /\ handler = [c \in Caller |-> "idle"]
    /\ left = [c \in Caller |-> 0]
    /\ rounds = 0

At(part, p) == exit = "no" /\ place[part] = p

Exit(how) == exit' = how /\ UNCHANGED place

-----------------------------------------------------------------------------
\* Starting.

\* Help or the version is asked for and printed, or the configuration is
\* refused, or cannot be printed.
Configure ==
    /\ At("main", "configure")
    /\ \/ place' = [place EXCEPT !.main = "start"] /\ UNCHANGED exit
       \/ Exit("ok")
       \/ Exit("failed")
    /\ UNCHANGED <<storeVars, sigVars, timedOut, workVars>>

\* NewServer, then go natsProcess.Run(ok)
StartNats ==
    /\ At("main", "start")
    /\ \/ /\ place' = [place EXCEPT !.main = "awaitNats", !.nats = "starting"]
          /\ UNCHANGED exit
       \/ Exit("failed")
    /\ UNCHANGED <<storeVars, sigVars, timedOut, workVars>>

\* ReadyForConnections, or log.Fatal after ten seconds
NatsReady ==
    /\ At("nats", "starting")
    /\ \/ place' = [place EXCEPT !.nats = "ready"] /\ UNCHANGED exit
       \/ Exit("failed")
    /\ UNCHANGED <<storeVars, sigVars, timedOut, workVars>>

\* ok <- struct{}{} meets <-ok.
NatsStarted ==
    /\ At("main", "awaitNats") /\ At("nats", "ready")
    /\ place' = [place EXCEPT !.main = "broker", !.nats = "running"]
    /\ UNCHANGED <<storeVars, sigVars, timedOut, exit, workVars>>

StartBroker ==
    /\ At("main", "broker")
    /\ \/ /\ place' = [place EXCEPT !.main = "serve", !.broker = "connected"]
          /\ UNCHANGED exit
       \/ Exit("failed")
    /\ UNCHANGED <<storeVars, sigVars, timedOut, workVars>>

\* The store's actor and the listener's goroutine are started.
Serve ==
    /\ At("main", "serve")
    /\ place' = [place EXCEPT !.main = "select", !.listener = "starting"]
    /\ UNCHANGED <<storeVars, sigVars, timedOut, exit, workVars>>

-----------------------------------------------------------------------------
\* The listener (net/http) and the handlers.

ShuttingDown == place.main \notin {"select", "serve"}

\* serverErrors <- api.ListenAndServe()
ListenerEnds(error) ==
    /\ place' = [place EXCEPT !.listener = "closed", !.errors = error]
    /\ UNCHANGED <<storeVars, sigVars, timedOut, exit, workVars>>

Listen ==
    /\ At("listener", "starting") /\ ~ShuttingDown
    /\ place' = [place EXCEPT !.listener = "open"]
    /\ UNCHANGED <<storeVars, sigVars, timedOut, exit, workVars>>

ListenFails ==
    /\ At("listener", "starting") \/ At("listener", "open")
    /\ ListenerEnds(IF ShuttingDown THEN "closed" ELSE "failed")

\* A request arrives.  Bound: one Ping and its goroutine at a time.
Accept(c) ==
    /\ At("listener", "open") /\ ~ShuttingDown
    /\ handler[c] = "idle"
    /\ \/ /\ handler' = [handler EXCEPT ![c] = "request"]
          /\ \E n \in 0..MaxCalls : left' = [left EXCEPT ![c] = n]
       \/ /\ handler' = [handler EXCEPT ![c] = "stream"]
          /\ UNCHANGED left
       \/ /\ rounds = 0 /\ \A d \in Caller : handler[d] # "ping"
          /\ handler' = [handler EXCEPT ![c] = "ping"]
          /\ UNCHANGED left
    /\ UNCHANGED <<storeVars, place, sigVars, timedOut, exit, rounds>>

\* Mutant of Calls: a request goes on calling.
CallsOn(c) == handler[c] = "request"

Calls(c) == handler[c] = "request" /\ left[c] > 0

CallStore(c, f) ==
    /\ exit = "no" /\ Calls(c)
    /\ DB!Call(c, f)
    /\ left' = [left EXCEPT ![c] = @ - 1]
    /\ UNCHANGED <<place, sigVars, timedOut, exit, handler, rounds>>

\* With all its calls made, or after an error.
Respond(c) ==
    /\ exit = "no"
    /\ handler[c] = "request" /\ pc[c] = "idle"
    /\ handler' = [handler EXCEPT ![c] = "idle"]
    /\ left' = [left EXCEPT ![c] = 0]
    /\ UNCHANGED <<storeVars, place, sigVars, timedOut, exit, rounds>>

\* go func() { ... }() and the answer
Ping(c) ==
    /\ exit = "no"
    /\ handler[c] = "ping"
    /\ handler' = [handler EXCEPT ![c] = "idle"]
    /\ rounds' = Rounds
    /\ UNCHANGED <<storeVars, place, sigVars, timedOut, exit, left>>

\* A round of the goroutine: d.mB.Pub, whose error on a closed connection is
\* ignored.  Nobody waits for it.
Publish ==
    /\ exit = "no"
    /\ rounds > 0
    /\ rounds' = rounds - 1
    /\ UNCHANGED <<storeVars, place, sigVars, timedOut, exit, handler, left>>

\* The client leaves, or api.Close has cut its connection.
EndStream(c) ==
    /\ exit = "no"
    /\ handler[c] = "stream"
    /\ handler' = [handler EXCEPT ![c] = "idle"]
    /\ UNCHANGED <<storeVars, place, sigVars, timedOut, exit, left, rounds>>

\* Database's own steps.
StoreStep(A) == exit = "no" /\ A /\ UNCHANGED <<place, sigVars, timedOut, exit, workVars>>

-----------------------------------------------------------------------------
\* Stopping.

\* Of the signals main waits for the NATS server handles two itself as soon as
\* it is made (NoSigs is false): a SIGINT ends the process, a SIGHUP means
\* nothing to it.  A signal that nobody has asked for ends the process.
NatsTraps(sig) == place.nats # "none" /\ sig \in {"SIGINT", "SIGHUP"}

Notified == place.listener # "none"

Signal(sig) ==
    /\ exit = "no"
    /\ signal' = (signal \/ Notified)
    /\ trapped' = (trapped \/ (NatsTraps(sig) /\ sig = "SIGINT"))
    /\ exit' = IF Notified \/ NatsTraps(sig) THEN exit ELSE "killed"
    /\ UNCHANGED <<storeVars, place, timedOut, workVars>>

\* The NATS server's Shutdown and os.Exit(0), in its own goroutine
Interrupt ==
    /\ exit = "no" /\ trapped
    /\ Exit("interrupted")
    /\ UNCHANGED <<storeVars, sigVars, timedOut, workVars>>

\* Mutant of ServerError: the error is not returned.
ServerErrorUnreported ==
    /\ At("main", "select") /\ place.errors # "none"
    /\ Exit("ok")
    /\ UNCHANGED <<storeVars, sigVars, timedOut, workVars>>

\* case err := <-serverErrors: nothing is stopped.
ServerError ==
    /\ At("main", "select") /\ place.errors # "none"
    /\ Exit("failed")
    /\ UNCHANGED <<storeVars, sigVars, timedOut, workVars>>

\* case sig := <-shutdown: api.Shutdown begins, which closes the listener.
TakeSignal ==
    /\ At("main", "select") /\ signal
    /\ signal' = FALSE
    /\ place' = [place EXCEPT
                   !.main = "draining",
                   !.listener = IF @ = "open" THEN "closed" ELSE @,
                   !.errors = IF place.listener = "open" THEN "closed" ELSE @]
    /\ UNCHANGED <<storeVars, trapped, timedOut, exit, workVars>>

\* Mutant of Drained: the handlers are not waited for.
DrainedAtOnce ==
    /\ At("main", "draining")
    /\ place' = [place EXCEPT !.main = "stopping"]
    /\ UNCHANGED <<storeVars, sigVars, timedOut, exit, workVars>>

\* api.Shutdown finds every connection idle.
Drained ==
    /\ At("main", "draining")
    /\ \A c \in Caller : handler[c] = "idle"
    /\ place' = [place EXCEPT !.main = "stopping"]
    /\ UNCHANGED <<storeVars, sigVars, timedOut, exit, workVars>>

\* Mutant of Timeout: there is no deadline.
TimeoutNever == FALSE /\ UNCHANGED vars

\* The deadline passes; api.Close.
Timeout ==
    /\ At("main", "draining")
    /\ timedOut' = TRUE
    /\ place' = [place EXCEPT !.main = "stopping"]
    /\ UNCHANGED <<storeVars, sigVars, exit, workVars>>

\* Mutant of StopStore: the store is stopped before the API is drained.
StopStoreFirst ==
    /\ At("main", "stopping") \/ At("main", "draining")
    /\ DB!StopCall
    /\ place' = [place EXCEPT !.main = IF @ = "stopping" THEN "stopCalled" ELSE @]
    /\ UNCHANGED <<sigVars, timedOut, exit, workVars>>

\* The deferred db.Stop()
StopStore ==
    /\ At("main", "stopping")
    /\ DB!StopCall
    /\ place' = [place EXCEPT !.main = "stopCalled"]
    /\ UNCHANGED <<sigVars, timedOut, exit, workVars>>

StoreStopped ==
    /\ At("main", "stopCalled")
    /\ DB!StopReturn
    /\ place' = [place EXCEPT !.main = "close"]
    /\ UNCHANGED <<sigVars, timedOut, exit, workVars>>

CloseBroker ==
    /\ At("main", "close")
    /\ place' = [place EXCEPT !.main = "quit", !.broker = "closed"]
    /\ UNCHANGED <<storeVars, sigVars, timedOut, exit, workVars>>

\* n.quitCh <- q goes to the channel's buffer.
QuitNats ==
    /\ At("main", "quit")
    /\ place' = [place EXCEPT !.main = "quitting"]
    /\ UNCHANGED <<storeVars, sigVars, timedOut, exit, workVars>>

\* Run takes q, closes it and returns.
NatsQuits ==
    /\ At("main", "quitting") /\ At("nats", "running")
    /\ place' = [place EXCEPT !.nats = "quit"]
    /\ UNCHANGED <<storeVars, sigVars, timedOut, exit, workVars>>

\* What run returns: of Shutdown's error it does not speak, but of the error that
\* Close may have had.
Outcome == IF timedOut THEN {"ok", "failed"} ELSE {"ok"}

\* <-q, then NS.Shutdown, and run returns.
NatsDown ==
    /\ At("main", "quitting") /\ At("nats", "quit")
    /\ place' = [place EXCEPT !.nats = "down"]
    /\ exit' \in Outcome
    /\ UNCHANGED <<storeVars, sigVars, timedOut, workVars>>

-----------------------------------------------------------------------------
Main ==
    \/ Configure \/ StartNats \/ NatsReady \/ NatsStarted \/ StartBroker \/ Serve
    \/ Drained \/ StopStore \/ StoreStopped \/ CloseBroker
    \/ QuitNats \/ NatsQuits \/ NatsDown

Handle(c) == Respond(c) \/ Ping(c) \/ \E f \in DB!Closure : CallStore(c, f)

Next ==
    \/ Main \/ Listen \/ ListenFails \/ ServerError \/ TakeSignal \/ Timeout
    \/ \E sig \in {"SIGINT", "SIGHUP", "SIGTERM", "SIGQUIT"} : Signal(sig)
    \/ Interrupt
    \/ Publish
    \/ \E c \in Caller :
         \/ Accept(c)
         \/ Handle(c)
         \/ EndStream(c)
         \/ StoreStep(DB!Send(c))
         \/ \E a \in DB!Answer : StoreStep(DB!Receive(c, a))
         \/ StoreStep(DB!RunAction(c))
    \/ StoreStep(DB!RunQuit)
    \/ StoreStep(DB!RunReturn)

Spec == Init /\ [][Next]_vars

\* Goroutines run and the store is as fair as Database assumes.  Main's select
\* picks at random, but its two cases both leave it.  No fairness for clients,
\* signals and failures, and none for the goroutines of Ping, on which nothing
\* depends.
Fairness ==
    /\ WF_vars(Main)
    /\ WF_vars(TakeSignal \/ ServerError)
    /\ WF_vars(Interrupt)
    /\ \A c \in Caller :
         /\ WF_vars(Handle(c))
         /\ SF_vars(StoreStep(DB!Send(c)))
         /\ WF_vars(\E a \in DB!Answer : StoreStep(DB!Receive(c, a)))
         /\ SF_vars(StoreStep(DB!RunAction(c)))
    /\ SF_vars(StoreStep(DB!RunQuit))
    /\ WF_vars(StoreStep(DB!RunReturn))

\* The deadline may be any time away: it need not pass.
FairSpec == Spec /\ Fairness

-----------------------------------------------------------------------------
\* Properties.

\* dispatch.go: "Give outstanding requests a deadline for completion": what the
\* handlers use is taken away from under one only when its deadline has passed,
\* and the broker goes after the store and before the NATS server.  It speaks of
\* the handlers: the goroutine that a Ping has left is none, and may find the
\* broker closed although no deadline has passed.
StoppedAfterUse ==
    /\ stop # "none" => timedOut \/ \A c \in Caller : handler[c] = "idle"
    /\ place.broker = "closed" => run # "select"
    /\ place.nats \in {"quit", "down"} => place.broker = "closed"

\* A request that was accepted is answered, also when the deadline is far away,
\* unless it passes, the listener's failure ends the process, or the NATS server
\* does: nothing that main's shutdown does before the deadline can stop a
\* request half way.
AcceptedIsAnswered ==
    \A c \in Caller :
      handler[c] \in {"request", "ping"} ~>
        \/ handler[c] = "idle" \/ timedOut
        \/ exit \in {"failed", "interrupted"}

\* dispatch.go: "Give outstanding requests a deadline for completion": a signal
\* does not end the process with one unfinished and its deadline to come.
DeadlineGiven ==
    exit \in {"ok", "interrupted"} => timedOut \/ \A c \in Caller : handler[c] = "idle"

\* When run returns nil, main has stopped all that it had started, whatever has
\* failed on the way, and no store call has been left in the queue but by a
\* handler past its deadline.  It is not about the process's status: 0 is also
\* that of the NATS server's os.Exit, which stops none of this (exit is
\* "interrupted" then, of which DeadlineGiven speaks); nor about the goroutines
\* of Ping, which nobody stops.
NilMeansClean ==
    exit = "ok" =>
      /\ place.nats \in {"none", "down"}
      /\ place.broker \in {"none", "closed"}
      /\ place.listener # "open"
      /\ place.listener # "none" => run # "select"
      /\ actionCh # <<>> => timedOut

\* Once a signal has been noticed the process ends, provided that the deadline
\* passes, whatever the handlers, the streams and the store are doing.
SignalEndsProcess == WF_vars(Timeout) => (signal \/ trapped ~> exit # "no")

=============================================================================
