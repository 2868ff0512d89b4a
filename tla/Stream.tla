-------------------------------- MODULE Stream --------------------------------
(***************************************************************************)
(* One /stream request: the goroutines that carry messages from the NATS   *)
(* client to a browser (cmd/dispatch/internal/handlers/handlers.go and     *)
(* stream.go, internal/platform/nats/broker.go).                           *)
(*                                                                         *)
(*   handler   Stream: relays messages until the client leaves             *)
(*   streamer  run: waits to be told to quit                               *)
(*   connect   checks the role and starts the subscription                 *)
(*   sub       Broker.Sub: subscribes, waits to be told to unsubscribe     *)
(*                                                                         *)
(* and the NATS client's goroutine (external) that calls Sub's callback    *)
(* with one message after the other.                                       *)
(*                                                                         *)
(* All channels are unbuffered: a send and its receive are one step.       *)
(***************************************************************************)
EXTENDS Integers, Sequences, SequencesExt

CONSTANTS
    Role,         \* roles clients connect with
    Roles,        \* those connect knows: "dispatcher" and "driver"
    MaxMessages   \* bound: messages published while the request lives

ASSUME MaxMessagesAssumption == MaxMessages \in Nat

VARIABLES
    role,        \* the client's role
    pc,          \* where each of the four goroutines is
    gone,        \* the request's context is done: the client has left
    closed,      \* brokerMessageChan is closed
    subscribed,  \* the NATS client delivers to the callback
    published,   \* messages published on the topic so far
    since,       \* how many of them preceded the subscription
    pending,     \* messages the NATS client has for the subscription
    held,        \* the message the callback is sending, in a sequence
    sent,        \* messages flushed to the browser
    panicked     \* a send on a closed channel has ended the process

msgVars == <<published, since, pending, held, sent>>
dataVars == <<role, gone, closed, subscribed, msgVars, panicked>>
vars == <<pc, dataVars>>

Places == [
    handler  : {"start", "select", "failed", "quit", "quitting", "unsubscribe",
                "unsubscribing", "drain", "returned"},
    streamer : {"none", "select", "returned"},
    connect  : {"none", "started", "failing", "closing", "returned"},
    sub      : {"none", "started", "failing", "select", "returning", "returned"}]

TypeOK ==
    /\ role \in Role
    /\ pc \in Places
    /\ {gone, closed, subscribed, panicked} \subseteq BOOLEAN
    /\ {published, since} \subseteq 0..MaxMessages
    /\ {pending, held, sent} \subseteq Seq(1..MaxMessages)
    /\ Len(held) <= 1

Init ==
    /\ role \in Role
    /\ pc = [handler |-> "start", streamer |-> "none", connect |-> "none",
             sub |-> "none"]
    /\ gone = FALSE /\ closed = FALSE /\ subscribed = FALSE
    /\ published = 0 /\ since = 0
    /\ pending = <<>> /\ held = <<>> /\ sent = <<>>
    /\ panicked = FALSE

At(goroutine, place) == ~panicked /\ pc[goroutine] = place

-----------------------------------------------------------------------------
\* The handler.

\* The response writer cannot flush: nothing is started.
Unsupported ==
    /\ At("handler", "start")
    /\ pc' = [pc EXCEPT !.handler = "returned"]
    /\ UNCHANGED dataVars

Spawn ==
    /\ At("handler", "start")
    /\ pc' = [pc EXCEPT !.handler = "select", !.connect = "started",
                        !.streamer = "select"]
    /\ UNCHANGED dataVars

\* case err := <-brokerErrCh, sent by connect or by Sub
ReceiveError ==
    /\ At("handler", "select")
    /\ \/ /\ pc.connect = "failing"
          /\ pc' = [pc EXCEPT !.handler = "failed", !.connect = "closing"]
       \/ /\ pc.sub = "failing"
          /\ pc' = [pc EXCEPT !.handler = "failed", !.sub = "returning"]
    /\ UNCHANGED dataVars

\* Mutant of NoticeGone: the handler waits for the channel without disconnecting.
NoticeGoneOnly ==
    /\ At("handler", "select") /\ gone
    /\ pc' = [pc EXCEPT !.handler = "drain"]
    /\ UNCHANGED dataVars

\* case <-ctx.Done(): disconnect begins.
NoticeGone ==
    /\ At("handler", "select") /\ gone
    /\ pc' = [pc EXCEPT !.handler = "quit"]
    /\ UNCHANGED dataVars

\* Mutant of Flushed: a message for a client that is leaving is thrown away.
FlushedUnlessGone == IF gone THEN sent ELSE sent \o held

Flushed == sent \o held

\* case brokerMessage, open := <-brokerMessageChan
Relay ==
    /\ At("handler", "select")
    /\ \/ /\ closed
          /\ pc' = [pc EXCEPT !.handler = "returned"]
          /\ UNCHANGED <<held, sent>>
       \/ /\ ~closed /\ held # <<>>
          /\ sent' = Flushed
          /\ held' = <<>>
          /\ UNCHANGED pc
    /\ UNCHANGED <<role, gone, closed, subscribed, published, since, pending,
                   panicked>>

\* Mutant of QuitStreamer: run takes q and goes on waiting.
QuitStreamerIgnored ==
    /\ At("handler", "quit") /\ pc.streamer = "select"
    /\ pc' = [pc EXCEPT !.handler = "quitting"]
    /\ UNCHANGED dataVars

\* s.quitCh <- q meets run's select; run closes q and returns.
QuitStreamer ==
    /\ At("handler", "quit") /\ pc.streamer = "select"
    /\ pc' = [pc EXCEPT !.handler = "quitting", !.streamer = "returned"]
    /\ UNCHANGED dataVars

\* <-q
StreamerQuit ==
    /\ At("handler", "quitting") /\ pc.streamer = "returned"
    /\ pc' = [pc EXCEPT !.handler = "unsubscribe"]
    /\ UNCHANGED dataVars

\* s.brokerUnsubscribeCh <- q meets Sub's select, which unsubscribes and
\* closes q.
Unsubscribe ==
    /\ At("handler", "unsubscribe") /\ pc.sub = "select"
    /\ pc' = [pc EXCEPT !.handler = "unsubscribing", !.sub = "returning"]
    /\ subscribed' = FALSE
    /\ pending' = <<>>
    /\ UNCHANGED <<role, gone, closed, published, since, held, sent, panicked>>

\* <-endBrokerSubscriptionCh
Unsubscribed ==
    /\ At("handler", "unsubscribing") /\ pc.sub \in {"returning", "returned"}
    /\ pc' = [pc EXCEPT !.handler = "drain"]
    /\ UNCHANGED dataVars

\* <-brokerMessageChan, in disconnect's wake or after an error: a close or a
\* message, whichever comes.
Drain ==
    /\ At("handler", "drain") \/ At("handler", "failed")
    /\ closed \/ held # <<>>
    /\ pc' = [pc EXCEPT !.handler = "returned"]
    /\ held' = IF closed THEN held ELSE <<>>
    /\ UNCHANGED <<role, gone, closed, subscribed, published, since, pending,
                   sent, panicked>>

-----------------------------------------------------------------------------
\* connect and Sub.

\* Mutant of Connect: no return after the error.
ConnectAnyway ==
    /\ At("connect", "started")
    /\ pc' = [pc EXCEPT !.connect = IF role \in Roles THEN "returned" ELSE "failing",
                        !.sub = "started"]
    /\ UNCHANGED dataVars

Connect ==
    /\ At("connect", "started")
    /\ pc' = IF role \in Roles
             THEN [pc EXCEPT !.connect = "returned", !.sub = "started"]
             ELSE [pc EXCEPT !.connect = "failing"]
    /\ UNCHANGED dataVars

\* Mutant of Close: the channel is left open.
CloseNot == UNCHANGED closed

\* close(brokerMessageChan); it reaches a sender that is blocked there too.
Close == closed' = TRUE

\* connect closes the channel if it kept it to itself, Sub (deferred) otherwise.
Closes(goroutine, place) ==
    /\ At(goroutine, place)
    /\ pc' = [pc EXCEPT ![goroutine] = "returned"]
    /\ Close
    /\ UNCHANGED <<role, gone, subscribed, msgVars, panicked>>

ConnectCloses == Closes("connect", "closing")
SubReturns == Closes("sub", "returning")

\* b.Conn.Subscribe succeeds, or fails (closed connection, malformed topic).
Subscribe ==
    /\ At("sub", "started")
    /\ \/ /\ pc' = [pc EXCEPT !.sub = "select"]
          /\ subscribed' = TRUE
          /\ since' = published
       \/ /\ pc' = [pc EXCEPT !.sub = "failing"]
          /\ UNCHANGED <<subscribed, since>>
    /\ UNCHANGED <<role, gone, closed, published, pending, held, sent, panicked>>

-----------------------------------------------------------------------------
\* The NATS client (external) and the browser.

Publish ==
    /\ ~panicked
    /\ published < MaxMessages
    /\ published' = published + 1
    /\ pending' = IF subscribed THEN Append(pending, published + 1) ELSE pending
    /\ UNCHANGED <<pc, role, gone, closed, subscribed, since, held, sent, panicked>>

\* Mutant of Idle: callbacks run without waiting for each other.
IdleOrNot == TRUE

Idle == held = <<>>

\* The delivery goroutine takes the next message, if the subscription is still
\* open, and calls the callback.
Deliver ==
    /\ ~panicked
    /\ subscribed /\ Idle /\ pending # <<>>
    /\ held' = Append(held, Head(pending))
    /\ pending' = Tail(pending)
    /\ UNCHANGED <<pc, role, gone, closed, subscribed, published, since, sent,
                   panicked>>

\* outputCh <- m.Data on a closed channel: a panic nobody recovers from.
Panic ==
    /\ ~panicked
    /\ held # <<>> /\ closed
    /\ panicked' = TRUE
    /\ UNCHANGED <<pc, role, gone, closed, subscribed, msgVars>>

\* The client leaves, or the server closes its connection.
Leave ==
    /\ ~panicked /\ ~gone
    /\ gone' = TRUE
    /\ UNCHANGED <<pc, role, closed, subscribed, msgVars, panicked>>

-----------------------------------------------------------------------------
Handler ==
    \/ Unsupported \/ Spawn \/ ReceiveError \/ NoticeGone \/ Relay
    \/ QuitStreamer \/ StreamerQuit \/ Unsubscribe \/ Unsubscribed \/ Drain

Next ==
    \/ Handler \/ Connect \/ ConnectCloses \/ Subscribe \/ SubReturns
    \/ Publish \/ Deliver \/ Panic \/ Leave

Spec == Init /\ [][Next]_vars

\* Goroutines run; a select picks among its ready cases at random, so that a
\* case that is ready again and again is taken.  Clients need not leave.
Fairness ==
    /\ WF_vars(Handler)
    /\ SF_vars(ReceiveError)
    /\ SF_vars(NoticeGone)
    /\ WF_vars(Connect \/ ConnectCloses)
    /\ WF_vars(Subscribe \/ SubReturns)
    /\ WF_vars(Deliver \/ Panic)

FairSpec == Spec /\ Fairness

-----------------------------------------------------------------------------
\* Properties.

\* What the browser has got, with what is under way, is exactly what was
\* published since the subscription began, in that order: until the request
\* unsubscribes nothing is skipped, repeated or reordered.
InOrderNoGaps ==
    /\ subscribed => sent \o held \o pending
                       = [i \in 1..(published - since) |-> since + i]
    /\ IsPrefix(sent, [i \in 1..(published - since) |-> since + i])

\* A handler that has returned leaves no subscription behind, and its channel
\* has nobody who could still be sent to.
NoOrphanSubscription ==
    pc.handler \in {"drain", "returned"} => ~subscribed /\ pc.sub # "select"

\* brokerMessageChan is closed once, by whoever owned it: connect if it kept
\* it, Sub if it was handed on.
OneCloser ==
    /\ pc.connect = "closing" => pc.sub = "none" /\ ~closed
    /\ pc.sub = "returning" => pc.connect = "returned" /\ ~closed

\* A handler that returns on an error does not tell its streamer to quit, whose
\* goroutine waits for ever: this happens to streams that never began only.
\* One that has been handed a message is gone before its handler.  This is about
\* the streamer of a handler that has returned; one that never does, since its
\* disconnect waits for ever, is LeavingEndsRequest's.
OnlyUnbegunLeak ==
    pc.handler = "returned" /\ pc.streamer = "select" =>
      ~subscribed /\ sent \o held \o pending = <<>>

\* A stream that is up when its client leaves is torn down to the last
\* goroutine, unless the process dies.
TornDown ==
    pc.sub = "select" /\ gone ~>
      \/ panicked
      \/ /\ pc.handler = "returned" /\ pc.streamer = "returned"
         /\ pc.sub = "returned" /\ held = <<>>

\* A connection error reaches the handler, which returns, if the client waits
\* for it.
ErrorEndsRequest ==
    pc.connect = "failing" \/ pc.sub = "failing" ~> pc.handler = "returned" \/ gone

\* handlers.go: "wait for the broker to unsubscribe; broker will close this
\* channel": nobody sends on it after that.
NeverSendsOnClosed == ~panicked

\* stream.go: disconnect blocks "until the broker closes it that signals that
\* the broker subscription go routine has returned": it does not block forever.
LeavingEndsRequest == gone /\ pc.handler # "start" ~> pc.handler = "returned" \/ panicked

=============================================================================
