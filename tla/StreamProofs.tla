----------------------------- MODULE StreamProofs -----------------------------
(***************************************************************************)
(* Theorems about Stream, for every set of roles and every number of       *)
(* messages.                                                               *)
(***************************************************************************)
EXTENDS Stream, SequenceTheorems, TLAPS

\* No message has reached the request.
Unbegun == ~subscribed /\ sent = <<>> /\ held = <<>> /\ pending = <<>>

\* The connection is over: an error has been taken, or Sub has unsubscribed.
Ended ==
    \/ pc.connect = "closing"
    \/ pc.connect = "returned" /\ pc.sub \in {"none", "returning", "returned"}

\* What connect and sub have done, in this order.
Connection ==
    /\ pc.connect # "returned" => pc.sub = "none" /\ ~closed
    /\ pc.sub \in {"started", "failing", "select", "returning"} => ~closed
    /\ pc.connect = "returned" /\ pc.sub \in {"none", "returned"} => closed
    /\ subscribed <=> pc.sub = "select"
    /\ pc.sub \in {"none", "started", "failing"} => Unbegun

\* What the handler knows of the other goroutines, by where it is.
Knows ==
    /\ pc.handler = "start" => pc.connect = "none"
    /\ pc.connect = "none" =>
         pc.streamer = "none" /\ pc.handler \in {"start", "returned"}
    /\ pc.handler \in {"select", "quit", "quitting", "unsubscribe"} => ~Ended
    /\ pc.handler \in {"failed", "unsubscribing", "drain"} => Ended
    /\ pc.handler = "returned" => Ended \/ pc.connect = "none"
    /\ pc.handler \in {"select", "failed", "quit"} => pc.streamer = "select"
    /\ pc.handler = "failed" => Unbegun
    /\ pc.handler = "returned" /\ pc.streamer = "select" => Unbegun
    /\ pc.handler \in {"quitting", "unsubscribe", "unsubscribing", "drain"} =>
         pc.streamer = "returned"

-----------------------------------------------------------------------------
\* Types.

LEMMA InitType == Init => TypeOK
<1> SUFFICES ASSUME Init PROVE TypeOK
  OBVIOUS
<1>1. {pending, held, sent} \subseteq Seq(1..MaxMessages) /\ Len(held) <= 1
  BY EmptySeq DEF Init
<1>2. {published, since} \subseteq 0..MaxMessages
  BY MaxMessagesAssumption DEF Init
<1>3. pc \in Places
  BY DEF Init, Places
<1> QED
  BY <1>1, <1>2, <1>3 DEF Init, TypeOK

LEMMA StepType == TypeOK /\ [Next]_vars => TypeOK'
<1> SUFFICES ASSUME TypeOK, [Next]_vars PROVE TypeOK'
  OBVIOUS
<1> USE DEF TypeOK, Places, At, dataVars, msgVars
<1>1. CASE Unsupported
  BY <1>1 DEF Unsupported
<1>2. CASE Spawn
  BY <1>2 DEF Spawn
<1>3. CASE ReceiveError
  BY <1>3 DEF ReceiveError
<1>4. CASE NoticeGone
  BY <1>4 DEF NoticeGone
<1>5. CASE Relay
  <2>1. sent \o held \in Seq(1..MaxMessages)
    BY ConcatProperties
  <2>2. <<>> \in Seq(1..MaxMessages) /\ Len(<<>>) <= 1
    BY EmptySeq
  <2>3. {pending', held', sent'} \subseteq Seq(1..MaxMessages) /\ Len(held') <= 1
    BY <1>5, <2>1, <2>2 DEF Relay, Flushed
  <2>4. pc' \in Places
    BY <1>5 DEF Relay
  <2> QED
    BY <1>5, <2>3, <2>4 DEF Relay
<1>6. CASE QuitStreamer
  BY <1>6 DEF QuitStreamer
<1>7. CASE StreamerQuit
  BY <1>7 DEF StreamerQuit
<1>8. CASE Unsubscribe
  <2>1. <<>> \in Seq(1..MaxMessages)
    BY EmptySeq
  <2>2. pc' \in Places
    BY <1>8 DEF Unsubscribe
  <2> QED
    BY <1>8, <2>1, <2>2 DEF Unsubscribe
<1>9. CASE Unsubscribed
  BY <1>9 DEF Unsubscribed
<1>10. CASE Drain
  <2>1. <<>> \in Seq(1..MaxMessages) /\ Len(<<>>) <= 1
    BY EmptySeq
  <2>2. held' \in Seq(1..MaxMessages) /\ Len(held') <= 1
    BY <1>10, <2>1 DEF Drain
  <2>3. pc' \in Places
    BY <1>10 DEF Drain
  <2> QED
    BY <1>10, <2>2, <2>3 DEF Drain
<1>11. CASE Connect
  BY <1>11 DEF Connect
<1>12. CASE ConnectCloses
  BY <1>12 DEF ConnectCloses, Closes, Close
<1>13. CASE Subscribe
  <2>1. pc' \in Places
    BY <1>13 DEF Subscribe
  <2>2. {gone', closed', subscribed', panicked'} \subseteq BOOLEAN
    BY <1>13 DEF Subscribe
  <2>3. {published', since'} \subseteq 0..MaxMessages
    BY <1>13 DEF Subscribe
  <2> QED
    BY <1>13, <2>1, <2>2, <2>3 DEF Subscribe
<1>14. CASE SubReturns
  BY <1>14 DEF SubReturns, Closes, Close
<1>15. CASE Publish
  <2>1. published + 1 \in 1..MaxMessages
    BY <1>15, MaxMessagesAssumption DEF Publish
  <2>2. Append(pending, published + 1) \in Seq(1..MaxMessages)
    BY <2>1, AppendProperties
  <2>3. pending' \in Seq(1..MaxMessages)
    BY <1>15, <2>2 DEF Publish
  <2>4. published' \in 0..MaxMessages
    BY <1>15, <2>1 DEF Publish
  <2> QED
    BY <1>15, <2>3, <2>4 DEF Publish
<1>16. CASE Deliver
  <2>1. Head(pending) \in 1..MaxMessages /\ Tail(pending) \in Seq(1..MaxMessages)
    BY <1>16, HeadTailProperties DEF Deliver
  <2>2. held' = Append(<<>>, Head(pending))
    BY <1>16 DEF Deliver, Idle
  <2>3. held' \in Seq(1..MaxMessages) /\ Len(held') <= 1
    BY <2>1, <2>2, EmptySeq, AppendProperties
  <2> QED
    BY <1>16, <2>1, <2>3 DEF Deliver
<1>17. CASE Panic
  BY <1>17 DEF Panic
<1>18. CASE Leave
  BY <1>18 DEF Leave
<1>19. CASE UNCHANGED vars
  BY <1>19 DEF vars
<1> QED
  BY <1>1, <1>2, <1>3, <1>4, <1>5, <1>6, <1>7, <1>8, <1>9, <1>10, <1>11,
     <1>12, <1>13, <1>14, <1>15, <1>16, <1>17, <1>18, <1>19 DEF Next, Handler

-----------------------------------------------------------------------------
\* Who is where.

ControlInv == TypeOK /\ Connection /\ Knows

LEMMA InitControl == Init => ControlInv
BY InitType DEF Init, ControlInv, Connection, Knows, Ended, Unbegun

LEMMA StepControl == ControlInv /\ [Next]_vars => ControlInv'
<1> SUFFICES ASSUME ControlInv, [Next]_vars PROVE Connection' /\ Knows'
  BY StepType DEF ControlInv
<1> USE DEF ControlInv, Connection, Knows, Ended, Unbegun, At, dataVars, msgVars
<1> pc \in Places
  BY DEF TypeOK
<1> USE DEF Places
<1>1. CASE Unsupported
  BY <1>1 DEF Unsupported
<1>2. CASE Spawn
  BY <1>2 DEF Spawn
<1>3. CASE ReceiveError
  BY <1>3 DEF ReceiveError
<1>4. CASE NoticeGone
  BY <1>4 DEF NoticeGone
<1>5. CASE Relay
  BY <1>5 DEF Relay
<1>6. CASE QuitStreamer
  BY <1>6 DEF QuitStreamer
<1>7. CASE StreamerQuit
  BY <1>7 DEF StreamerQuit
<1>8. CASE Unsubscribe
  BY <1>8 DEF Unsubscribe
<1>9. CASE Unsubscribed
  BY <1>9 DEF Unsubscribed
<1>10. CASE Drain
  BY <1>10 DEF Drain
<1>11. CASE Connect
  BY <1>11 DEF Connect
<1>12. CASE ConnectCloses
  BY <1>12 DEF ConnectCloses, Closes, Close
<1>13. CASE Subscribe
  BY <1>13 DEF Subscribe
<1>14. CASE SubReturns
  BY <1>14 DEF SubReturns, Closes, Close
<1>15. CASE Publish
  BY <1>15 DEF Publish
<1>16. CASE Deliver
  BY <1>16 DEF Deliver, Idle
<1>17. CASE Panic
  BY <1>17 DEF Panic
<1>18. CASE Leave
  BY <1>18 DEF Leave
<1>19. CASE UNCHANGED vars
  BY <1>19 DEF vars
<1> QED
  BY <1>1, <1>2, <1>3, <1>4, <1>5, <1>6, <1>7, <1>8, <1>9, <1>10, <1>11,
     <1>12, <1>13, <1>14, <1>15, <1>16, <1>17, <1>18, <1>19 DEF Next, Handler

THEOREM ControlInvHolds == Spec => []ControlInv
BY InitControl, StepControl, PTL DEF Spec

\* The goroutines of a request stay at the places of their code, and at most one
\* message is being handed to the handler (handlers.go, stream.go, broker.go).
THEOREM TypeCorrect == Spec => []TypeOK
<1>1. ControlInv => TypeOK
  BY DEF ControlInv
<1> QED
  BY <1>1, ControlInvHolds, PTL

\* The channel of the messages is never closed twice: connect closes it only if
\* Sub has not been started, Sub only if connect has returned (stream.go:83).
THEOREM ClosedByOne == Spec => []OneCloser
<1>1. ControlInv => OneCloser
  BY DEF ControlInv, Connection, OneCloser
<1> QED
  BY <1>1, ControlInvHolds, PTL

\* A handler that is leaving, or has left, has no subscription behind it,
\* whichever way out it took (handlers.go:94).
THEOREM NoneOrphaned == Spec => []NoOrphanSubscription
<1>1. ControlInv => NoOrphanSubscription
  BY DEF ControlInv, Connection, Knows, Ended, NoOrphanSubscription
<1> QED
  BY <1>1, ControlInvHolds, PTL

\* A handler that returns leaves the streamer's goroutine behind only if its stream
\* never began (handlers.go:103).
THEOREM OnlyUnbegunLeaks == Spec => []OnlyUnbegunLeak
<1>1. Unbegun => ~subscribed /\ sent \o held \o pending = <<>>
  <2>1. <<>> \o <<>> \o <<>> = <<>>
    BY EmptySeq, ConcatEmptySeq
  <2> QED
    BY <2>1 DEF Unbegun
<1>2. ControlInv => OnlyUnbegunLeak
  BY <1>1 DEF ControlInv, Knows, OnlyUnbegunLeak
<1> QED
  BY <1>2, ControlInvHolds, PTL

-----------------------------------------------------------------------------
\* The messages.

\* The n messages after the first k.
After(k, n) == [i \in 1..n |-> k + i]

\* What has been sent, with what is under way while the subscription lasts.
MessagesInv ==
    /\ since <= published
    /\ subscribed => sent \o held \o pending = After(since, published - since)
    /\ Len(sent) <= published - since
    /\ sent = After(since, Len(sent))

LEMMA AfterIsSeq ==
    ASSUME NEW k \in Nat, NEW n \in Nat
    PROVE  After(k, n) \in Seq(Nat) /\ Len(After(k, n)) = n
<1>1. \A i \in 1..n : k + i \in Nat
  OBVIOUS
<1>2. After(k, n) \in Seq(Nat)
  BY <1>1, IsASeq DEF After
<1>3. DOMAIN After(k, n) = 1..n
  BY DEF After
<1> QED
  BY <1>2, <1>3

\* The beginning of consecutive messages is consecutive.
LEMMA AfterBegins ==
    ASSUME NEW k \in Nat, NEW n \in Nat, NEW s \in Seq(Nat), NEW t \in Seq(Nat),
           s \o t = After(k, n)
    PROVE  Len(s) <= n /\ s = After(k, Len(s))
<1>1. Len(s) \in Nat /\ Len(t) \in Nat
  BY LenProperties
<1>2. Len(s) + Len(t) = n
  <2>1. Len(s \o t) = Len(s) + Len(t)
    BY ConcatProperties
  <2>2. Len(s \o t) = n
    BY AfterIsSeq
  <2> QED
    BY <2>1, <2>2
<1>3. \A i \in 1..Len(s) : s[i] = After(k, Len(s))[i]
  <2> TAKE i \in 1..Len(s)
  <2>1. s[i] = (s \o t)[i]
    BY <1>1, ConcatProperties
  <2> QED
    BY <2>1, <1>1, <1>2 DEF After
<1>4. After(k, Len(s)) \in Seq(Nat) /\ Len(After(k, Len(s))) = Len(s)
  BY <1>1, AfterIsSeq
<1> QED
  BY <1>1, <1>2, <1>3, <1>4, SeqEqual

\* One more message.
LEMMA AfterGrows ==
    ASSUME NEW k \in Nat, NEW n \in Nat
    PROVE  Append(After(k, n), k + n + 1) = After(k, n + 1)
<1>1. After(k, n) \in Seq(Nat) /\ Len(After(k, n)) = n
  BY AfterIsSeq
<1>2. After(k, n + 1) \in Seq(Nat) /\ Len(After(k, n + 1)) = n + 1
  BY AfterIsSeq
<1>3. /\ Append(After(k, n), k + n + 1) \in Seq(Nat)
      /\ Len(Append(After(k, n), k + n + 1)) = n + 1
  BY <1>1, AppendProperties
<1>4. \A i \in 1..(n + 1) :
        Append(After(k, n), k + n + 1)[i] = After(k, n + 1)[i]
  <2> TAKE i \in 1..(n + 1)
  <2>1. CASE i = n + 1
    BY <2>1, <1>1, AppendProperties DEF After
  <2>2. CASE i \in 1..n
    <3>1. Append(After(k, n), k + n + 1)[i] = After(k, n)[i]
      BY <2>2, <1>1, AppendProperties
    <3>2. After(k, n)[i] = k + i /\ After(k, n + 1)[i] = k + i
      BY <2>2 DEF After
    <3> QED
      BY <3>1, <3>2
  <2>3. i = n + 1 \/ i \in 1..n
    OBVIOUS
  <2> QED
    BY <2>1, <2>2, <2>3
<1> QED
  BY <1>2, <1>3, <1>4, SeqEqual
LEMMA ConcatAppend ==
    ASSUME NEW s \in Seq(Nat), NEW t \in Seq(Nat), NEW e \in Nat
    PROVE  s \o Append(t, e) = Append(s \o t, e)
<1>1. /\ s \o t \in Seq(Nat) /\ Append(t, e) \in Seq(Nat)
      /\ Append(t, e) = t \o <<e>> /\ <<e>> \in Seq(Nat)
  BY ConcatProperties, AppendProperties, AppendIsConcat
<1>2. Append(s \o t, e) = (s \o t) \o <<e>>
  BY <1>1, AppendIsConcat
<1>3. \A u \in Seq(Nat) : (s \o t) \o u = s \o (t \o u)
  BY ConcatAssociative
<1> QED
  BY <1>1, <1>2, <1>3

LEMMA InitMessages == Init => MessagesInv
<1>1. After(0, 0) = <<>>
  BY AfterIsSeq, EmptySeq
<1> QED
  BY <1>1, EmptySeq DEF Init, MessagesInv

LEMMA StepMessages ==
    ControlInv /\ MessagesInv /\ [Next]_vars => MessagesInv'
<1> SUFFICES ASSUME ControlInv, MessagesInv, [Next]_vars PROVE MessagesInv'
  OBVIOUS
<1> published \in Nat /\ since \in Nat
  BY MaxMessagesAssumption DEF ControlInv, TypeOK
<1> /\ sent \in Seq(Nat) /\ held \in Seq(Nat) /\ pending \in Seq(Nat)
    /\ Len(sent) \in Nat
  <2>1. 1..MaxMessages \subseteq Nat
    BY MaxMessagesAssumption
  <2> QED
    BY <2>1, SeqMonotonic, LenProperties DEF ControlInv, TypeOK
<1>1. CASE UNCHANGED <<since, published, subscribed, sent, held, pending>>
  BY <1>1 DEF MessagesInv
<1>2. CASE UNCHANGED <<since, published, sent>> /\ ~subscribed'
  BY <1>2 DEF MessagesInv
<1>3. CASE Relay /\ ~closed
  <2>1. subscribed
    <3>1. held # <<>> /\ pc.handler = "select"
      BY <1>3 DEF Relay, At
    <3> QED
      BY <3>1 DEF ControlInv, TypeOK, Places, Connection, Knows, Ended, Unbegun
  <2>2. sent' = sent \o held /\ held' = <<>> /\ pending' = pending
    BY <1>3 DEF Relay, Flushed
  <2>3. sent' \in Seq(Nat)
    BY <2>2, ConcatProperties
  <2>4. sent' \o held' \o pending' = sent \o held \o pending
    BY <2>2, <2>3, ConcatEmptySeq
  <2>5. sent' \o pending' = After(since, published - since)
    BY <2>1, <2>2 DEF MessagesInv
  <2>6. Len(sent') <= published - since /\ sent' = After(since, Len(sent'))
    <3>1. published - since \in Nat
      BY DEF MessagesInv
    <3>2. pending' \in Seq(Nat)
      BY <2>2
    <3> QED
      BY <2>3, <2>5, <3>1, <3>2, AfterBegins
  <2>7. UNCHANGED <<since, published, subscribed>>
    BY <1>3 DEF Relay
  <2> QED
    BY <2>4, <2>6, <2>7 DEF MessagesInv
<1>4. CASE Subscribe /\ subscribed'
  <2>1. pc.sub = "started"
    BY <1>4 DEF Subscribe, At
  <2>2. Unbegun
    BY <2>1 DEF ControlInv, Connection
  <2>3. since' = published /\ published' = published
    BY <1>4, <2>2 DEF Subscribe, Unbegun
  <2>4. sent' = <<>> /\ held' = <<>> /\ pending' = <<>>
    BY <1>4, <2>2 DEF Subscribe, Unbegun
  <2>5. After(published, 0) = <<>>
    BY AfterIsSeq, EmptySeq
  <2>6. <<>> \o <<>> \o <<>> = <<>> /\ Len(<<>>) = 0
    BY EmptySeq, ConcatEmptySeq
  <2> QED
    BY <2>3, <2>4, <2>5, <2>6 DEF MessagesInv
<1>5. CASE Publish /\ subscribed
  <2> DEFINE n == published - since
  <2>1. n \in Nat /\ n + 1 = published' - since' /\ since + n + 1 = published + 1
    BY <1>5 DEF Publish, MessagesInv
  <2>2. pending' = Append(pending, published + 1)
    BY <1>5 DEF Publish
  <2>3. sent' \o held' \o pending' = Append(sent \o held \o pending, published + 1)
    <3>1. sent \o held \in Seq(Nat) /\ sent \o held \o pending \in Seq(Nat)
      BY ConcatProperties
    <3>2. pending' = Append(pending, published + 1) /\ sent' = sent /\ held' = held
      BY <1>5, <2>2 DEF Publish
    <3> QED
      BY <3>1, <3>2, ConcatAppend
  <2>4. sent' \o held' \o pending' = After(since, n + 1)
    BY <1>5, <2>1, <2>3, AfterGrows DEF MessagesInv
  <2>5. UNCHANGED <<since, sent, subscribed>>
    BY <1>5 DEF Publish
  <2>6. Len(sent') <= published' - since' /\ since' <= published'
    <3>1. sent' = sent /\ since' = since /\ published' = published + 1
      BY <1>5 DEF Publish
    <3>2. Len(sent) <= published - since /\ since <= published
      BY DEF MessagesInv
    <3> QED
      BY <3>1, <3>2
  <2>7. sent' \o held' \o pending' = After(since', published' - since')
    BY <2>1, <2>4, <2>5
  <2>8. sent' = After(since', Len(sent'))
    BY <2>5 DEF MessagesInv
  <2> QED
    BY <2>6, <2>7, <2>8 DEF MessagesInv
<1>6. CASE Publish /\ ~subscribed
  BY <1>6 DEF Publish, MessagesInv
<1>7. CASE Deliver
  <2>1. held = <<>> /\ pending # <<>> /\ held' = Append(held, Head(pending))
        /\ pending' = Tail(pending)
    BY <1>7 DEF Deliver, Idle
  <2>2. Head(pending) \in Nat /\ Tail(pending) \in Seq(Nat)
    BY <2>1, HeadTailProperties
  <2>3. held' = <<Head(pending)>> /\ held' \in Seq(Nat)
    BY <2>1, <2>2
  <2>4. held' \o pending' = pending
    BY <2>1, <2>2, <2>3, HeadTailProperties, ConcatProperties
  <2>5. (sent \o held') \o pending' = sent \o (held' \o pending')
    BY <2>1, <2>2, <2>3, ConcatAssociative
  <2>6. sent \o held = sent
    BY <2>1, ConcatEmptySeq
  <2>7. UNCHANGED <<since, published, subscribed, sent>>
    BY <1>7 DEF Deliver
  <2> QED
    BY <2>4, <2>5, <2>6, <2>7 DEF MessagesInv
<1> QED
  <2> USE DEF dataVars, msgVars
  <2>1. CASE Handler
    <3>1. CASE Relay
      BY <3>1, <1>1, <1>3 DEF Relay
    <3>2. CASE Unsubscribe
      BY <3>2, <1>2 DEF Unsubscribe
    <3>3. CASE Drain
      <4>1. ~subscribed'
        BY <3>3 DEF Drain, At, ControlInv, TypeOK, Places, Connection, Knows, Ended
      <4> QED
        BY <3>3, <4>1, <1>2 DEF Drain
    <3> QED
      BY <2>1, <3>1, <3>2, <3>3, <1>1 DEF Handler, Unsupported, Spawn, ReceiveError,
         NoticeGone, QuitStreamer, StreamerQuit, Unsubscribed
  <2>2. CASE Connect \/ ConnectCloses \/ SubReturns \/ Panic \/ Leave
    BY <2>2, <1>1 DEF Connect, ConnectCloses, SubReturns, Closes, Panic, Leave
  <2>3. CASE Subscribe
    <3>1. ~subscribed
      BY <2>3 DEF Subscribe, At, ControlInv, TypeOK, Places, Connection
    <3> QED
      BY <2>3, <3>1, <1>1, <1>4 DEF Subscribe
  <2>4. CASE UNCHANGED vars
    BY <2>4, <1>1 DEF vars
  <2> QED
    BY <2>1, <2>2, <2>3, <2>4, <1>5, <1>6, <1>7 DEF Next

THEOREM MessagesInvHolds == Spec => []MessagesInv
BY InitMessages, StepMessages, ControlInvHolds, PTL DEF Spec

\* What the browser gets is what was published since its subscription began, in
\* that order and without gaps, up to where it left (broker.go:66, handlers.go:112).
THEOREM RelayedInOrder == Spec => []InOrderNoGaps
<1>1. ControlInv /\ MessagesInv => InOrderNoGaps
  <2> SUFFICES ASSUME ControlInv, MessagesInv PROVE InOrderNoGaps
    OBVIOUS
  <2> DEFINE n == published - since
  <2>1. n \in Nat /\ since \in Nat
    BY MaxMessagesAssumption DEF ControlInv, TypeOK, MessagesInv
  <2>2. sent \in Seq(Nat) /\ Len(sent) \in Nat /\ Len(sent) <= n
    BY MaxMessagesAssumption, SeqMonotonic, LenProperties
       DEF ControlInv, TypeOK, MessagesInv
  <2>3. After(since, n) \in Seq(Nat) /\ Len(After(since, n)) = n
    BY <2>1, AfterIsSeq
  <2>4. SubSeq(sent, 1, Len(sent)) = sent
    BY <2>2, SubSeqFull
  <2>5. SubSeq(After(since, n), 1, Len(sent)) = After(since, Len(sent))
    BY <2>1, <2>2, <2>3 DEF After
  <2>6. IsPrefix(sent, After(since, n))
    BY <2>2, <2>3, <2>4, <2>5 DEF IsPrefix, MessagesInv
  <2> QED
    BY <2>6 DEF InOrderNoGaps, MessagesInv, After
<1> QED
  BY <1>1, ControlInvHolds, MessagesInvHolds, PTL
=============================================================================
