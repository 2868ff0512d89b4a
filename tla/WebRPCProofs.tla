----------------------------- MODULE WebRPCProofs -----------------------------
(***************************************************************************)
(* Theorems about WebRPC, for every set of calls, of slots and of requests *)
(* that the calls may make.                                                *)
(***************************************************************************)
EXTENDS WebRPC, FiniteSetTheorems, TLAPS

\* What a response says of what its call did.
Tells(resp, r, d) ==
    \/ resp.body = "data" /\ resp.status = 200 /\ d = Whole(r) /\ r.path # "elsewhere"
    \/ resp.body = "text" /\ resp.status = 404 /\ r.path = "elsewhere"
    \/ /\ resp.body \in ErrorCode
       /\ resp.status = HTTPStatusFromErrorCode(resp.body)
       /\ resp.body \in Refusals => d = {}

\* What a panic of the service is answered with.
PanicResponse == [status |-> 500, body |-> "internal"]

\* The server is further than it has answered: what the call has done so far.
Served(c) ==
    /\ server[c] \in {"none", "lost", "routed"} =>
         response[c] = NoResponse /\ did[c] = {}
    /\ server[c] = "deleted" =>
         /\ response[c] = NoResponse /\ did[c] = {"removed"}
         /\ request[c].path = "UpdateTask"
    /\ server[c] = "panicking" =>
         response[c] = PanicResponse
    /\ server[c] = "done" =>
         response[c] \in Response /\ Tells(response[c], request[c], did[c])

\* What a client has returned comes from the response, if it is a verdict.
Told(c) ==
    /\ client[c] = "reading" => response[c] # NoResponse
    /\ result[c] = "ok" => server[c] = "done" /\ response[c].body = "data"
    /\ result[c] \in Refusals =>
         server[c] = "done" /\ response[c].body = result[c]

\* A call that has not begun has no server.
Begun(c) ==
    /\ request[c] = NoRequest =>
         server[c] = "none" /\ client[c] = "idle" /\ result[c] = NoResult
    /\ client[c] = "idle" => request[c] = NoRequest
    /\ server[c] \in {"routed", "deleted", "panicking"} =>
         request[c].path \in Method

RInv == TypeOK /\ \A c \in Call : Served(c) /\ Told(c) /\ Begun(c)

\* The statuses of the codes in use.
LEMMA CodeStatuses ==
    /\ HTTPStatusFromErrorCode("internal") = 500
    /\ HTTPStatusFromErrorCode("not found") = 404
    /\ HTTPStatusFromErrorCode("bad route") = 404
    /\ HTTPStatusFromErrorCode("invalid argument") = 400
BY DEF HTTPStatusFromErrorCode

LEMMA CodeStatusRange ==
    ASSUME NEW code \in ErrorCode
    PROVE  HTTPStatusFromErrorCode(code) \in {400, 404, 500}
<1>1. \/ code = "internal" \/ code = "not found"
      \/ code = "bad route" \/ code = "invalid argument"
  BY DEF ErrorCode
<1>2. \/ HTTPStatusFromErrorCode(code) = 500
      \/ HTTPStatusFromErrorCode(code) = 404
      \/ HTTPStatusFromErrorCode(code) = 400
  <2>1. CASE code = "internal"
    BY <2>1, CodeStatuses
  <2>2. CASE code = "not found"
    BY <2>2, CodeStatuses
  <2>3. CASE code = "bad route"
    BY <2>3, CodeStatuses
  <2>4. CASE code = "invalid argument"
    BY <2>4, CodeStatuses
  <2> QED
    BY <1>1, <2>1, <2>2, <2>3, <2>4
<1> QED
  BY <1>2

LEMMA PanicAnswer ==
    /\ PanicResponse \in Response /\ PanicResponse # NoResponse
    /\ PanicResponse.body = "internal" /\ PanicResponse.status # 200
    /\ PanicResponse.body \in ErrorCode /\ PanicResponse.body \notin Refusals
    /\ PanicResponse.status = HTTPStatusFromErrorCode(PanicResponse.body)
<1>1. /\ PanicResponse \in Response
      /\ PanicResponse.body = "internal" /\ PanicResponse.status = 500
      /\ "internal" \in ErrorCode /\ "internal" \notin Refusals
  BY DEF PanicResponse, Response, ErrorCode, Refusals
<1>2. PanicResponse.status = HTTPStatusFromErrorCode(PanicResponse.body)
  BY <1>1, CodeStatuses
<1> QED
  BY <1>1, <1>2, NothingsAssumption

LEMMA InitRInv == Init => RInv
<1> SUFFICES ASSUME Init PROVE RInv
  OBVIOUS
<1>1. TypeOK
  BY DEF Init, TypeOK
<1>2. ASSUME NEW c \in Call PROVE Served(c) /\ Told(c) /\ Begun(c)
  BY NothingsAssumption DEF Init, Served, Told, Begun, Result, ErrorCode, Refusals
<1> QED
  BY <1>1, <1>2 DEF RInv

\* An action is about one call.
Local(c) ==
    \A d \in Call \ {c} :
      /\ request'[d] = request[d] /\ client'[d] = client[d]
      /\ server'[d] = server[d] /\ response'[d] = response[d]
      /\ result'[d] = result[d] /\ did'[d] = did[d]

LEMMA OneCall ==
    ASSUME RInv, NEW c \in Call, TypeOK', Local(c),
           Served(c)', Told(c)', Begun(c)'
    PROVE  RInv'
<1>1. ASSUME NEW d \in Call, d # c PROVE Served(d)' /\ Told(d)' /\ Begun(d)'
  <2>1. Served(d) /\ Told(d) /\ Begun(d)
    BY DEF RInv
  <2>2. /\ request'[d] = request[d] /\ client'[d] = client[d]
        /\ server'[d] = server[d] /\ response'[d] = response[d]
        /\ result'[d] = result[d] /\ did'[d] = did[d]
    BY <1>1 DEF Local
  <2> QED
    BY <2>1, <2>2 DEF Served, Told, Begun, Tells
<1> QED
  BY <1>1 DEF RInv

-----------------------------------------------------------------------------
\* The client's steps

\* A client moves on or returns; the server does not.
LEMMA ClientStep ==
    ASSUME RInv, NEW c \in Call, request[c] # NoRequest,
           UNCHANGED <<tasks, known, did, request, response, server>>,
           ctxDone' \in [Call -> BOOLEAN],
           NEW stage \in {"doing", "reading", "done"},
           client' = [client EXCEPT ![c] = stage],
           stage = "reading" => response[c] # NoResponse,
           result' = result \/ \E res \in Result :
             /\ result' = [result EXCEPT ![c] = res]
             /\ res = "ok" => server[c] = "done" /\ response[c].body = "data"
             /\ res \in Refusals =>
                  server[c] = "done" /\ response[c].body = res
    PROVE  RInv'
<1>1. TypeOK /\ Served(c) /\ Told(c) /\ Begun(c)
  BY DEF RInv
<1>2. TypeOK'
  BY <1>1 DEF TypeOK
<1>3. Local(c)
  BY <1>1 DEF Local, TypeOK
<1>4. Served(c)'
  BY <1>1 DEF Served
<1>5. client'[c] = stage
  BY <1>1 DEF TypeOK
<1>6. Told(c)'
  BY <1>1, <1>5 DEF Told, TypeOK
<1>7. Begun(c)'
  BY <1>1, <1>5 DEF Begun
<1> QED
  BY <1>2, <1>3, <1>4, <1>6, <1>7, OneCall

LEMMA ClientErrors ==
    ASSUME NEW r \in Request
    PROVE  /\ ClientError(r) \in Result
           /\ ClientError(r) # "ok" /\ ClientError(r) \notin Refusals
BY DEF ClientError, Request, Result, ErrorCode, Refusals

LEMMA CancelRInv ==
    ASSUME RInv, NEW c \in Call, Cancel(c)
    PROVE  RInv'
<1>1. TypeOK /\ Served(c) /\ Told(c) /\ Begun(c)
  BY DEF RInv
<1>2. TypeOK'
  BY <1>1 DEF TypeOK, Cancel, store
<1>3. Served(c)' /\ Told(c)' /\ Begun(c)' /\ Local(c)
  BY <1>1 DEF Cancel, store, Served, Told, Begun, Local
<1> QED
  BY <1>2, <1>3, OneCall

LEMMA Asked ==
    ASSUME RInv, NEW c \in Call, client[c] \in {"doing", "reading"}
    PROVE  request[c] \in Requests /\ request[c] \in Request
                                   /\ request[c] # NoRequest
BY RequestsAssumption DEF RInv, TypeOK, Begun

LEMMA ReceiveRInv ==
    ASSUME RInv, NEW c \in Call, Receive(c)
    PROVE  RInv'
<1>1. request[c] \in Request /\ request[c] # NoRequest
  BY Asked DEF Receive
<1>2. ClientError(request[c]) \in Result /\ ClientError(request[c]) # "ok"
      /\ ClientError(request[c]) \notin Refusals
  BY <1>1, ClientErrors
<1>3. UNCHANGED <<tasks, known, did, request, ctxDone, response, server>>
      /\ response[c] # NoResponse /\ ctxDone \in [Call -> BOOLEAN]
  BY DEF Receive, store, RInv, TypeOK
<1>4. CASE ctxDone[c]
  BY <1>1, <1>2, <1>3, <1>4, ClientStep DEF Receive, Return
<1>5. CASE ~ctxDone[c]
  BY <1>1, <1>3, <1>5, ClientStep DEF Receive
<1> QED
  BY <1>4, <1>5

LEMMA ReadResponseRInv ==
    ASSUME RInv, NEW c \in Call, ReadResponse(c)
    PROVE  RInv'
<1>1. request[c] \in Request /\ request[c] # NoRequest
  BY Asked DEF ReadResponse
<1>2. UNCHANGED <<tasks, known, did, request, ctxDone, response, server>>
      /\ ctxDone \in [Call -> BOOLEAN]
      /\ client' = [client EXCEPT ![c] = "done"]
  BY DEF ReadResponse, store, RInv, TypeOK, Return
<1>3. PICK res :
        /\ result' = [result EXCEPT ![c] = res]
        /\ \/ res = doJSONRequest(response[c], ctxDone[c])
           \/ res = buildResponse(response[c])
           \/ res = "seen"
  BY DEF ReadResponse, Return
<1>4. response[c] \in Response /\ Served(c)
      /\ server[c] \in {"none", "routed", "deleted", "panicking", "done", "lost"}
  BY DEF RInv, TypeOK, ReadResponse, Told
<1>5. /\ server[c] = "panicking" \/ server[c] = "done"
      /\ server[c] = "panicking" =>
           response[c].status # 200 /\ response[c].body = "internal"
      /\ server[c] = "done" => Tells(response[c], request[c], did[c])
  BY <1>4, PanicAnswer, NothingsAssumption DEF Served
<1>6. /\ response[c].body \in ErrorCode \cup {"data", "text"}
      /\ response[c].status = 200 <=> response[c].body = "data"
      /\ server[c] = "panicking" => response[c].body = "internal"
  <2>1. "data" \notin ErrorCode /\ "text" \notin ErrorCode /\ "internal" \in ErrorCode
    BY DEF ErrorCode
  <2>2. CASE server[c] = "panicking"
    BY <1>5, <2>1, <2>2
  <2>3. CASE server[c] = "done"
    <3>1. CASE response[c].body \in ErrorCode
      BY <1>5, <2>1, <2>3, <3>1, CodeStatusRange DEF Tells
    <3>2. CASE response[c].body \notin ErrorCode
      BY <1>5, <2>1, <2>3, <3>2 DEF Tells
    <3> QED
      BY <3>1, <3>2
  <2> QED
    BY <1>5, <2>2, <2>3
<1>7. LET e == errorFromResponse(response[c]) IN
        e = "internal" \/ (e = response[c].body /\ e # "text")
  BY DEF errorFromResponse
<1>8. /\ res \in Result
      /\ res = "ok" => response[c].body = "data"
      /\ res \in Refusals => response[c].body = res
  BY <1>3, <1>6, <1>7
     DEF doJSONRequest, buildResponse, Result, ErrorCode, Refusals
<1>9. /\ res = "ok" => server[c] = "done"
      /\ res \in Refusals => server[c] = "done"
  BY <1>5, <1>6, <1>8 DEF Refusals
<1> QED
  BY <1>1, <1>2, <1>3, <1>8, <1>9, ClientStep

LEMMA AskRInv ==
    ASSUME RInv, NEW c \in Call, NEW r \in Requests, Ask(c, r)
    PROVE  RInv'
<1>1. TypeOK /\ Served(c) /\ Told(c) /\ Begun(c)
  BY DEF RInv
<1>2. request[c] = NoRequest /\ server[c] = "none" /\ result[c] = NoResult
  BY <1>1 DEF Ask, Begun
<1>3. TypeOK' /\ Local(c)
  BY <1>1 DEF TypeOK, Ask, store, Local
<1>4. request'[c] = r /\ client'[c] = "doing" /\ r # NoRequest
      /\ UNCHANGED <<server, response, result, did>>
  BY <1>1, NothingsAssumption DEF Ask, TypeOK, store
<1>5. Served(c)' /\ Told(c)' /\ Begun(c)'
  BY <1>1, <1>2, <1>4 DEF Served, Told, Begun
<1> QED
  BY <1>3, <1>5, OneCall

LEMMA AskInVainRInv ==
    ASSUME RInv, NEW c \in Call, NEW r \in Requests, AskInVain(c, r)
    PROVE  RInv'
<1>1. TypeOK /\ Served(c) /\ Told(c) /\ Begun(c)
  BY DEF RInv
<1>2. /\ ClientError(r) \in Result /\ ClientError(r) # "ok"
      /\ ClientError(r) \notin Refusals
  BY ClientErrors, RequestsAssumption
<1>3. TypeOK' /\ Local(c)
  BY <1>1, <1>2 DEF TypeOK, AskInVain, Return, store, Local
<1>4. /\ request'[c] = r /\ client'[c] = "done" /\ r # NoRequest
      /\ server'[c] = "lost" /\ result'[c] = ClientError(r)
      /\ UNCHANGED <<response, did>>
  BY <1>1, NothingsAssumption DEF AskInVain, Return, TypeOK, store
<1>5. response[c] = NoResponse /\ did[c] = {}
  BY <1>1 DEF AskInVain, Begun, Served
<1>6. Served(c)' /\ Told(c)' /\ Begun(c)'
  BY <1>2, <1>4, <1>5 DEF Served, Told, Begun
<1> QED
  BY <1>3, <1>6, OneCall

LEMMA BreakRInv ==
    ASSUME RInv, NEW c \in Call, Break(c)
    PROVE  RInv'
<1>1. TypeOK /\ Served(c) /\ Told(c) /\ Begun(c) /\ request[c] # NoRequest
  BY Asked DEF RInv, Break
<1>2. /\ ClientError(request[c]) \in Result /\ ClientError(request[c]) # "ok"
      /\ ClientError(request[c]) \notin Refusals
  BY Asked, ClientErrors DEF Break
<1>3. TypeOK' /\ Local(c)
  BY <1>1, <1>2 DEF TypeOK, Break, Return, store, Local
<1>4. /\ client'[c] = "done" /\ result'[c] = ClientError(request[c])
      /\ UNCHANGED <<response, did, request>>
      /\ server'[c] = server[c] \/ (server[c] = "none" /\ server'[c] = "lost")
  BY <1>1 DEF Break, Return, TypeOK, store
<1>5. Served(c)' /\ Told(c)' /\ Begun(c)'
  BY <1>1, <1>2, <1>4 DEF Served, Told, Begun
<1> QED
  BY <1>3, <1>5, OneCall

-----------------------------------------------------------------------------
\* The server's steps

\* What the server's steps leave alone.
ServerOnly ==
    /\ UNCHANGED <<request, client, ctxDone, result>>
    /\ tasks' \subseteq Slot /\ known' \in BOOLEAN

\* What a call may have done becomes more, and only by the call itself.
Did(c, d) ==
    /\ did' = [did EXCEPT ![c] = d]
    /\ d \in SUBSET {"removed", "added"}

\* The server has not answered the call yet.
Serving(c) == server[c] \in {"none", "routed", "deleted"}

LEMMA ServerStep ==
    ASSUME RInv, NEW c \in Call, Serving(c), request[c] # NoRequest, ServerOnly,
           NEW d, Did(c, d),
           NEW stage \in {"routed", "deleted", "panicking", "done"},
           server' = [server EXCEPT ![c] = stage],
           NEW resp \in Response \cup {NoResponse},
           response' = [response EXCEPT ![c] = resp],
           stage = "routed" => resp = NoResponse /\ d = {},
           stage = "deleted" =>
             resp = NoResponse /\ d = {"removed"} /\ request[c].path = "UpdateTask",
           stage = "panicking" => resp = PanicResponse,
           stage = "done" => resp \in Response /\ Tells(resp, request[c], d),
           stage # "done" => request[c].path \in Method
    PROVE  RInv'
<1>1. TypeOK /\ Served(c) /\ Told(c) /\ Begun(c)
  BY DEF RInv
<1>2. TypeOK'
  BY <1>1 DEF TypeOK, ServerOnly, Did
<1>3. Local(c)
  BY <1>1 DEF Local, TypeOK, ServerOnly, Did
<1>4. server'[c] = stage /\ response'[c] = resp /\ did'[c] = d
      /\ UNCHANGED <<request, client, result>>
  BY <1>1 DEF TypeOK, ServerOnly, Did
<1>5. Served(c)'
  BY <1>4 DEF Served
<1>6. response[c] = NoResponse
  BY <1>1 DEF Served, Serving
<1>7. Told(c)'
  BY <1>1, <1>4, <1>6 DEF Told, Serving
<1>8. Begun(c)'
  BY <1>1, <1>4 DEF Begun
<1> QED
  BY <1>2, <1>3, <1>5, <1>7, <1>8, OneCall

\* An error that is answered, and the answer of a call that is done.
LEMMA FailsRInv ==
    ASSUME RInv, NEW c \in Call, Serving(c), request[c] # NoRequest, ServerOnly,
           UNCHANGED did, NEW code \in ErrorCode, Fails(c, code),
           code \in Refusals => server[c] # "deleted"
    PROVE  RInv'
<1>1. TypeOK /\ Served(c) /\ did[c] \in SUBSET {"removed", "added"}
  BY DEF RInv, TypeOK
<1>2. Did(c, did[c])
  BY <1>1 DEF Did, TypeOK
<1>3. response[c] = NoResponse /\ (code \in Refusals => did[c] = {})
  BY <1>1 DEF Served, Serving
<1> DEFINE resp == [status |-> HTTPStatusFromErrorCode(code), body |-> code]
<1>4. response' = [response EXCEPT ![c] = resp]
      /\ server' = [server EXCEPT ![c] = "done"]
  BY <1>3 DEF Fails, RespondWithError, Write, At
<1>5. resp \in Response
  BY CodeStatusRange DEF Response
<1>6. Tells(resp, request[c], did[c])
  BY <1>3 DEF Tells
<1> HIDE DEF resp
<1> QED
  BY <1>2, <1>4, <1>5, <1>6, ServerStep

LEMMA SucceedsRInv ==
    ASSUME RInv, NEW c \in Call, Serving(c), request[c] # NoRequest, ServerOnly,
           Succeeds(c), NEW d, Did(c, d), d = Whole(request[c]),
           request[c].path \in Method
    PROVE  RInv'
<1>1. TypeOK /\ Served(c)
  BY DEF RInv
<1>2. response[c] = NoResponse
  BY <1>1 DEF Served, Serving
<1> DEFINE resp == [status |-> 200, body |-> "data"]
<1>3. response' = [response EXCEPT ![c] = resp]
      /\ server' = [server EXCEPT ![c] = "done"]
  BY <1>2 DEF Succeeds, Write, At
<1>4. resp \in Response
  BY DEF Response
<1>5. Tells(resp, request[c], d)
  BY DEF Tells, Method, Reads, Writes
<1> HIDE DEF resp
<1> QED
  BY <1>3, <1>4, <1>5, ServerStep

LEMMA PanicsRInv ==
    ASSUME RInv, NEW c \in Call, Serving(c), request[c] # NoRequest, ServerOnly,
           UNCHANGED did, Panics(c), request[c].path \in Method
    PROVE  RInv'
<1>1. TypeOK /\ Served(c) /\ did[c] \in SUBSET {"removed", "added"}
  BY DEF RInv, TypeOK
<1>2. Did(c, did[c])
  BY <1>1 DEF Did, TypeOK
<1>3. response[c] = NoResponse
  BY <1>1 DEF Served, Serving
<1>4. /\ response' = [response EXCEPT ![c] = PanicResponse]
      /\ server' = [server EXCEPT ![c] = "panicking"]
  BY <1>3, CodeStatuses DEF Panics, RespondWithError, Write, At, PanicResponse
<1> QED
  BY <1>2, <1>4, PanicAnswer, ServerStep

LEMMA RecovererRInv ==
    ASSUME RInv, NEW c \in Call, Recoverer(c)
    PROVE  RInv'
<1>1. TypeOK /\ Served(c) /\ Told(c) /\ Begun(c) /\ server[c] = "panicking"
  BY DEF RInv, Recoverer
<1>2. response[c] = PanicResponse
  BY <1>1 DEF Served
<1>3. response' = response /\ server' = [server EXCEPT ![c] = "done"]
  BY <1>1, <1>2, PanicAnswer DEF Recoverer, Write, At, TypeOK
<1>4. TypeOK' /\ Local(c) /\ server'[c] = "done"
      /\ UNCHANGED <<request, client, result, did>>
  BY <1>1, <1>3 DEF TypeOK, Recoverer, store, Local
<1>5. Tells(response[c], request[c], did[c])
  BY <1>2, PanicAnswer DEF Tells
<1>6. Served(c)' /\ Told(c)' /\ Begun(c)'
  BY <1>1, <1>2, <1>3, <1>4, <1>5, PanicAnswer DEF Served, Told, Begun
<1> QED
  BY <1>4, <1>6, OneCall

LEMMA ArriveRInv ==
    ASSUME RInv, NEW c \in Call, Arrive(c)
    PROVE  RInv'
<1>1. TypeOK /\ Served(c) /\ response[c] = NoResponse /\ did[c] = {}
  BY DEF RInv, Arrive, Served
<1>2. Serving(c) /\ request[c] # NoRequest /\ UNCHANGED did
  BY DEF Arrive, Serving, store
<1>3. ServerOnly
  BY <1>1 DEF Arrive, ServerOnly, store, TypeOK
<1>4. Did(c, {})
  BY <1>1, <1>2 DEF Did, TypeOK
<1>5. CASE request[c].path = "elsewhere"
  <2> DEFINE resp == [status |-> 404, body |-> "text"]
  <2>1. /\ response' = [response EXCEPT ![c] = resp]
        /\ server' = [server EXCEPT ![c] = "done"]
    BY <1>1, <1>5 DEF Arrive, NotFound, Write, At
  <2>2. resp \in Response
    BY DEF Response
  <2>3. Tells(resp, request[c], {})
    BY <1>5 DEF Tells
  <2> HIDE DEF resp
  <2> QED
    BY <1>2, <1>3, <1>4, <2>1, <2>2, <2>3, ServerStep
<1>6. CASE /\ request[c].path # "elsewhere" /\ request[c].verb = "POST"
           /\ request[c].path \in Method
  <2>1. server' = [server EXCEPT ![c] = "routed"]
    BY <1>6 DEF Arrive, ServeHTTP, At
  <2>2. response' = [response EXCEPT ![c] = NoResponse]
    BY <1>1, <1>6 DEF Arrive, ServeHTTP, TypeOK
  <2> QED
    BY <1>2, <1>3, <1>4, <1>6, <2>1, <2>2, ServerStep
<1>7. CASE /\ request[c].path # "elsewhere"
           /\ ~(request[c].verb = "POST" /\ request[c].path \in Method)
  <2>1. Fails(c, "bad route")
    BY <1>7 DEF Arrive, ServeHTTP
  <2>2. "bad route" \in ErrorCode /\ server[c] # "deleted"
    BY DEF ErrorCode, Arrive
  <2> QED
    BY <1>2, <1>3, <2>1, <2>2, FailsRInv
<1> QED
  BY <1>5, <1>6, <1>7

\* What the serve functions start from.
LEMMA RoutedFacts ==
    ASSUME RInv, NEW c \in Call, NEW m \in Method, Routed(c, m)
    PROVE  /\ Serving(c) /\ request[c] # NoRequest /\ request[c].path = m
           /\ did[c] = {} /\ server[c] = "routed"
           /\ UNCHANGED <<request, client, ctxDone, result>>
BY DEF RInv, Routed, Begun, Served, Serving

LEMMA CodesInUse ==
    /\ "internal" \in ErrorCode /\ "bad route" \in ErrorCode
    /\ "invalid argument" \in ErrorCode /\ "not found" \in ErrorCode
    /\ Plain \in ErrorCode /\ Plain \notin Refusals
BY DEF ErrorCode, Plain, Refusals

LEMMA StoreStays ==
    ASSUME RInv, UNCHANGED store, UNCHANGED <<request, client, ctxDone, result>>
    PROVE  ServerOnly /\ UNCHANGED did
BY DEF RInv, TypeOK, store, ServerOnly

LEMMA RefusedRInv ==
    ASSUME RInv, NEW c \in Call, NEW m \in Method, Routed(c, m),
           Undecodable(c) \/ NilRequest(c) \/ BadHour(c)
    PROVE  RInv'
<1>1. /\ Serving(c) /\ request[c] # NoRequest /\ request[c].path \in Method
      /\ server[c] # "deleted"
  BY RoutedFacts
<1>2. ServerOnly /\ UNCHANGED did
  BY RoutedFacts, StoreStays DEF Undecodable, NilRequest, BadHour
<1>3. Panics(c) \/ \E code \in ErrorCode : Fails(c, code)
  BY CodesInUse DEF Undecodable, NilRequest, BadHour
<1> QED
  BY <1>1, <1>2, <1>3, FailsRInv, PanicsRInv

LEMMA AnswerlessRInv ==
    ASSUME RInv, NEW c \in Call, NEW m \in {"Ping", "Version"}, Routed(c, m),
           Answerless(c)
    PROVE  RInv'
<1>1. m \in Method /\ Whole(request[c]) = {}
  <2>1. m \in Method
    BY DEF Method, Reads
  <2> QED
    BY <2>1, RoutedFacts DEF Whole
<1>2. /\ Serving(c) /\ request[c] # NoRequest /\ request[c].path \in Method
      /\ server[c] # "deleted" /\ did[c] = {}
  BY <1>1, RoutedFacts
<1>3. ServerOnly /\ UNCHANGED did
  BY <1>1, RoutedFacts, StoreStays DEF Answerless
<1>4. Did(c, {})
  BY <1>2, <1>3 DEF Did, RInv, TypeOK
<1>5. CASE Fails(c, "bad route")
  BY <1>2, <1>3, <1>5, CodesInUse, FailsRInv
<1>6. CASE Succeeds(c)
  BY <1>1, <1>2, <1>3, <1>4, <1>6, SucceedsRInv
<1> QED
  BY <1>5, <1>6 DEF Answerless

LEMMA ReadScheduleRInv ==
    ASSUME RInv, NEW c \in Call, serveReadSchedule(c)
    PROVE  RInv'
<1>1. Routed(c, "ReadSchedule") /\ "ReadSchedule" \in Method
  BY DEF serveReadSchedule, Method, Reads
<1>2. CASE Undecodable(c) \/ NilRequest(c)
  BY <1>1, <1>2, RefusedRInv
<1>3. CASE (Succeeds(c) \/ Fails(c, "not found")) /\ UNCHANGED store
  <2>1. Whole(request[c]) = {}
    BY <1>1 DEF Routed, Whole
  <2>2. /\ Serving(c) /\ request[c] # NoRequest /\ request[c].path \in Method
        /\ server[c] # "deleted" /\ did[c] = {}
    BY <1>1, RoutedFacts
  <2>3. ServerOnly /\ UNCHANGED did
    BY <1>1, <1>3, RoutedFacts, StoreStays
  <2>4. Did(c, {})
    BY <2>2, <2>3 DEF Did, RInv, TypeOK
  <2>5. CASE Fails(c, "not found")
    BY <2>2, <2>3, <2>5, CodesInUse, FailsRInv
  <2>6. CASE Succeeds(c)
    BY <2>1, <2>2, <2>3, <2>4, <2>6, SucceedsRInv
  <2> QED
    BY <1>3, <2>5, <2>6
<1> QED
  BY <1>2, <1>3 DEF serveReadSchedule

\* A create, alone or at the end of an update.
LEMMA AddRInv ==
    ASSUME RInv, NEW c \in Call, Serving(c), request[c] # NoRequest,
           request[c].path \in Method, NEW s \in Slot, Add(c, s),
           UNCHANGED <<request, client, ctxDone, result>>,
           did[c] \cup {"added"} = Whole(request[c])
    PROVE  RInv'
<1>1. CASE s \in tasks
  <2>1. Fails(c, Plain) /\ UNCHANGED store
    BY <1>1 DEF Add
  <2> QED
    BY <2>1, CodesInUse, StoreStays, FailsRInv
<1>2. CASE s \notin tasks
  <2>1. Succeeds(c) /\ Did(c, did[c] \cup {"added"})
    BY <1>2 DEF Add, Did, RInv, TypeOK
  <2>2. ServerOnly
    BY <1>2 DEF Add, ServerOnly, RInv, TypeOK
  <2> QED
    BY <2>1, <2>2, SucceedsRInv
<1> QED
  BY <1>1, <1>2

LEMMA SlotsAsked ==
    ASSUME RInv, NEW c \in Call, request[c] # NoRequest
    PROVE  request[c].slot \in Slot /\ request[c].to \in Slot
<1>1. request[c] \in Request
  BY RequestsAssumption DEF RInv, TypeOK
<1> QED
  BY <1>1 DEF Request

LEMMA CreateTaskRInv ==
    ASSUME RInv, NEW c \in Call, serveCreateTask(c)
    PROVE  RInv'
<1>1. Routed(c, "CreateTask") /\ "CreateTask" \in Method
  BY DEF serveCreateTask, Method, Writes
<1>2. CASE Undecodable(c) \/ NilRequest(c) \/ BadHour(c)
  BY <1>1, <1>2, RefusedRInv
<1>3. CASE Add(c, request[c].slot)
  <2>1. Whole(request[c]) = {"added"}
    BY <1>1 DEF Routed, Whole
  <2> QED
    BY <1>1, <1>3, <2>1, RoutedFacts, SlotsAsked, AddRInv
<1> QED
  BY <1>2, <1>3 DEF serveCreateTask

LEMMA DeleteTaskRInv ==
    ASSUME RInv, NEW c \in Call, serveDeleteTask(c)
    PROVE  RInv'
<1>1. Routed(c, "DeleteTask") /\ "DeleteTask" \in Method
  BY DEF serveDeleteTask, Method, Writes
<1>2. CASE Undecodable(c) \/ NilRequest(c) \/ BadHour(c)
  BY <1>1, <1>2, RefusedRInv
<1>3. CASE NothingToRemove(c, request[c].slot)
  BY <1>1, <1>3, RoutedFacts, StoreStays, CodesInUse, FailsRInv
     DEF NothingToRemove
<1>4. CASE Remove(c, request[c].slot) /\ Succeeds(c)
  <2>1. Whole(request[c]) = {"removed"}
    BY <1>1 DEF Routed, Whole
  <2>2. Did(c, {"removed"})
    BY <1>1, <1>4, RoutedFacts DEF Remove, Did, RInv, TypeOK
  <2>3. ServerOnly
    BY <1>1, <1>4, RoutedFacts DEF Remove, ServerOnly, RInv, TypeOK
  <2> QED
    BY <1>1, <1>4, <2>1, <2>2, <2>3, RoutedFacts, SucceedsRInv
<1> QED
  BY <1>2, <1>3, <1>4 DEF serveDeleteTask

LEMMA UpdateTaskRInv ==
    ASSUME RInv, NEW c \in Call, serveUpdateTask(c)
    PROVE  RInv'
<1>1. Routed(c, "UpdateTask") /\ "UpdateTask" \in Method
  BY DEF serveUpdateTask, Method, Writes
<1>2. CASE Undecodable(c) \/ NilRequest(c) \/ BadHour(c)
  BY <1>1, <1>2, RefusedRInv
<1>3. CASE NothingToRemove(c, request[c].slot)
  BY <1>1, <1>3, RoutedFacts, StoreStays, CodesInUse, FailsRInv
     DEF NothingToRemove
<1>4. CASE Remove(c, request[c].slot) /\ At(c, "deleted") /\ UNCHANGED response
  <2>1. Did(c, {"removed"})
    BY <1>1, <1>4, RoutedFacts DEF Remove, Did, RInv, TypeOK
  <2>2. ServerOnly
    BY <1>1, <1>4, RoutedFacts DEF Remove, ServerOnly, RInv, TypeOK
  <2>3. server' = [server EXCEPT ![c] = "deleted"]
    BY <1>4 DEF At
  <2>4. response' = [response EXCEPT ![c] = NoResponse]
    BY <1>1, <1>4, RoutedFacts DEF RInv, TypeOK, Served
  <2> QED
    BY <1>1, <2>1, <2>2, <2>3, <2>4, RoutedFacts, ServerStep
<1> QED
  BY <1>2, <1>3, <1>4 DEF serveUpdateTask

LEMMA CreateUpdatedRInv ==
    ASSUME RInv, NEW c \in Call, CreateUpdated(c)
    PROVE  RInv'
<1>1. /\ Serving(c) /\ request[c] # NoRequest /\ did[c] = {"removed"}
      /\ request[c].path = "UpdateTask" /\ request[c].path \in Method
      /\ UNCHANGED <<request, client, ctxDone, result>>
  BY DEF RInv, CreateUpdated, Served, Begun, Serving
<1>2. CASE BadHour(c)
  <2>1. ServerOnly /\ UNCHANGED did
    BY <1>1, <1>2, StoreStays DEF BadHour
  <2>2. Fails(c, Plain) \/ Panics(c)
    BY <1>2 DEF BadHour
  <2> QED
    BY <1>1, <2>1, <2>2, CodesInUse, FailsRInv, PanicsRInv
<1>3. CASE Add(c, request[c].to)
  <2>1. did[c] \cup {"added"} = Whole(request[c])
    BY <1>1 DEF Whole
  <2> QED
    BY <1>1, <1>3, <2>1, SlotsAsked, AddRInv
<1> QED
  BY <1>2, <1>3 DEF CreateUpdated

-----------------------------------------------------------------------------
\* The theorems

LEMMA NextRInv == RInv /\ [Next]_vars => RInv'
<1> SUFFICES ASSUME RInv, [Next]_vars PROVE RInv'
  OBVIOUS
<1>1. ASSUME NEW c \in Call, NEW r \in Requests, Ask(c, r) \/ AskInVain(c, r)
      PROVE  RInv'
  BY <1>1, AskRInv, AskInVainRInv
<1>2. ASSUME NEW c \in Call,
             Cancel(c) \/ Break(c) \/ Receive(c) \/ ReadResponse(c)
      PROVE  RInv'
  BY <1>2, CancelRInv, BreakRInv, ReceiveRInv, ReadResponseRInv
<1>3. ASSUME NEW c \in Call, servePing(c) \/ serveVersion(c) PROVE RInv'
  BY <1>3, AnswerlessRInv DEF servePing, serveVersion
<1>4. ASSUME NEW c \in Call, Serve(c) PROVE RInv'
  BY <1>3, <1>4, ArriveRInv, ReadScheduleRInv, CreateTaskRInv, DeleteTaskRInv,
     UpdateTaskRInv, CreateUpdatedRInv, RecovererRInv DEF Serve
<1>5. CASE UNCHANGED vars
  BY <1>5 DEF vars, RInv, TypeOK, Served, Told, Begun
<1> QED
  BY <1>1, <1>2, <1>4, <1>5 DEF Next

\* Every reachable state of the calls satisfies the inductive invariant.
THEOREM RInvHolds == Spec => []RInv
BY InitRInv, NextRInv, PTL DEF Spec

\* A status that is no HTTP status, or a result that no client returns, is
\* never produced.
THEOREM CallsTypeCorrect == Spec => []TypeOK
BY RInvHolds, PTL DEF RInv

\* Whatever the service does, panics included, a request that names a method is
\* answered by webrpc, with the status that belongs to its code.
THEOREM AlwaysAnsweredInKind == Spec => []AnsweredInKind
<1>1. RInv => AnsweredInKind
  BY DEF RInv, Served, Tells, AnsweredInKind
<1> QED
  BY <1>1, RInvHolds, PTL

LEMMA Verdicts == ASSUME RInv PROVE VerdictsTrue
<1>1. ASSUME NEW c \in Call
      PROVE  /\ result[c] = "ok" =>
                  server[c] = "done" /\ did[c] = Whole(request[c])
             /\ result[c] \in Refusals => server[c] = "done" /\ did[c] = {}
  <2>1. Served(c) /\ Told(c) /\ "data" \notin ErrorCode /\ "data" # "text"
    BY DEF RInv, ErrorCode
  <2>2. CASE result[c] = "ok"
    <3>1. server[c] = "done" /\ response[c].body = "data"
      BY <2>1, <2>2 DEF Told
    <3>2. did[c] = Whole(request[c])
      BY <2>1, <3>1 DEF Served, Tells
    <3> QED
      BY <2>2, <3>1, <3>2 DEF Refusals
  <2>3. CASE result[c] \in Refusals
    <3>1. server[c] = "done" /\ response[c].body = result[c]
      BY <2>1, <2>3 DEF Told
    <3>2. response[c].body # "data" /\ response[c].body # "text"
      BY <2>3, <3>1 DEF Refusals
    <3>3. did[c] = {}
      BY <2>1, <2>3, <3>1, <3>2 DEF Served, Tells
    <3> QED
      BY <2>3, <3>1, <3>3 DEF Refusals
  <2> QED
    BY <2>2, <2>3
<1> QED
  BY <1>1 DEF VerdictsTrue

\* However calls overlap, connections break and callers lose interest, "ok"
\* means that the whole call is done, and a refusal that nothing of it is.
THEOREM VerdictsAreTrue == Spec => []VerdictsTrue
BY Verdicts, RInvHolds, PTL

-----------------------------------------------------------------------------
\* The account: a slot holds what was added to it and not removed.

Made == {c \in Call : request[c] # NoRequest}
Added(s) == {c \in Call : "added" \in did[c] /\ Adds(c, s)}
Removed(s) == {c \in Call : "removed" \in did[c] /\ Removes(c, s)}

Num(b) == IF b THEN 1 ELSE 0

Account(s) ==
    /\ IsFiniteSet(Added(s)) /\ IsFiniteSet(Removed(s))
    /\ Num(s \in tasks) = Cardinality(Added(s)) - Cardinality(Removed(s))

Counted == IsFiniteSet(Made) /\ \A s \in Slot : Account(s)

\* What one call can do to the slots.
Adding(c, s) ==
    /\ s \notin tasks /\ tasks' = tasks \cup {s}
    /\ "added" \notin did[c] /\ did' = [did EXCEPT ![c] = @ \cup {"added"}]
    /\ \A x \in Slot : Adds(c, x) <=> x = s
    /\ UNCHANGED request
Removing(c, s) ==
    /\ s \in tasks /\ tasks' = tasks \ {s}
    /\ "removed" \notin did[c] /\ did' = [did EXCEPT ![c] = @ \cup {"removed"}]
    /\ \A x \in Slot : Removes(c, x) <=> x = s
    /\ UNCHANGED request
Asking(c, r) ==
    /\ request[c] = NoRequest /\ request' = [request EXCEPT ![c] = r]
    /\ UNCHANGED <<tasks, did>>
Quiet == UNCHANGED <<tasks, did, request>>

LEMMA ServesOne ==
    ASSUME RInv, NEW c \in Call,
           serveCreateTask(c) \/ serveDeleteTask(c) \/ serveUpdateTask(c) \/ CreateUpdated(c)
    PROVE  Quiet \/ \E s \in Slot : Adding(c, s) \/ Removing(c, s)
<1>1. UNCHANGED request
  BY DEF serveCreateTask, serveDeleteTask, serveUpdateTask, CreateUpdated, Routed
<1>2. ASSUME Undecodable(c) \/ NilRequest(c) \/ BadHour(c)
             \/ NothingToRemove(c, request[c].slot)
      PROVE  Quiet
  BY <1>1, <1>2 DEF Undecodable, NilRequest, BadHour, NothingToRemove, store, Quiet
<1>3. ASSUME NEW s \in Slot, Add(c, s), "added" \notin did[c],
             \A x \in Slot : Adds(c, x) <=> x = s
      PROVE  Quiet \/ Adding(c, s)
  BY <1>1, <1>3 DEF Add, Adding, Quiet, store
<1>4. ASSUME Remove(c, request[c].slot), did[c] = {}, request[c] # NoRequest,
             request[c].path \in {"DeleteTask", "UpdateTask"}
      PROVE  \E s \in Slot : Removing(c, s)
  BY <1>1, <1>4, SlotsAsked DEF Remove, Removing, Removes
<1>5. CASE serveCreateTask(c)
  <2>1. request[c].path = "CreateTask" /\ did[c] = {} /\ request[c].slot \in Slot
    BY <1>5, RoutedFacts, SlotsAsked DEF serveCreateTask, Method, Writes
  <2>2. \A x \in Slot : Adds(c, x) <=> x = request[c].slot
    BY <2>1 DEF Adds
  <2> QED
    BY <1>2, <1>3, <1>5, <2>1, <2>2 DEF serveCreateTask
<1>6. CASE serveDeleteTask(c)
  <2>1. request[c].path = "DeleteTask" /\ did[c] = {} /\ request[c] # NoRequest
    BY <1>6, RoutedFacts DEF serveDeleteTask, Method, Writes
  <2> QED
    BY <1>2, <1>4, <1>6, <2>1 DEF serveDeleteTask
<1>7. CASE serveUpdateTask(c)
  <2>1. request[c].path = "UpdateTask" /\ did[c] = {} /\ request[c] # NoRequest
    BY <1>7, RoutedFacts DEF serveUpdateTask, Method, Writes
  <2> QED
    BY <1>2, <1>4, <1>7, <2>1 DEF serveUpdateTask
<1>8. CASE CreateUpdated(c)
  <2>1. /\ request[c].path = "UpdateTask" /\ did[c] = {"removed"}
        /\ request[c] # NoRequest
    BY <1>8 DEF RInv, CreateUpdated, Served, Begun
  <2>2. request[c].to \in Slot /\ \A x \in Slot : Adds(c, x) <=> x = request[c].to
    BY <2>1, SlotsAsked DEF Adds
  <2> QED
    BY <1>2, <1>3, <1>8, <2>1, <2>2 DEF CreateUpdated
<1> QED
  BY <1>5, <1>6, <1>7, <1>8

LEMMA DoesOne ==
    ASSUME RInv, [Next]_vars
    PROVE  \/ Quiet
           \/ \E c \in Call, r \in Requests : Asking(c, r)
           \/ \E c \in Call, s \in Slot : Adding(c, s) \/ Removing(c, s)
<1>1. ASSUME NEW c \in Call, NEW r \in Requests, Ask(c, r) \/ AskInVain(c, r)
      PROVE  Asking(c, r)
  BY <1>1 DEF RInv, Begun, Ask, AskInVain, Asking, store
<1>2. ASSUME NEW c \in Call, Cancel(c) \/ Break(c) \/ Receive(c) \/ ReadResponse(c)
      PROVE  Quiet
  BY <1>2 DEF Cancel, Break, Receive, ReadResponse, Quiet, store
<1>3. ASSUME NEW c \in Call,
             Arrive(c) \/ Recoverer(c) \/ servePing(c) \/ serveVersion(c) \/ serveReadSchedule(c)
      PROVE  Quiet
  BY <1>3 DEF Arrive, Recoverer, servePing, serveVersion, serveReadSchedule, Routed,
     Answerless, Undecodable, NilRequest, Quiet, store
<1>4. CASE UNCHANGED vars
  BY <1>4 DEF vars, Quiet
<1> QED
  BY <1>1, <1>2, <1>3, <1>4, ServesOne DEF Next, Serve

LEMMA StepCounted == RInv /\ Counted /\ [Next]_vars => Counted'
<1> SUFFICES ASSUME RInv, Counted, [Next]_vars PROVE Counted'
  OBVIOUS
<1>0. /\ request \in [Call -> Requests \cup {NoRequest}]
      /\ did \in [Call -> SUBSET {"removed", "added"}]
      /\ \A c \in Call : request[c] = NoRequest => did[c] = {}
  BY DEF RInv, TypeOK, Served, Begun
<1>1. CASE Quiet
  BY <1>1 DEF Quiet, Counted, Made, Account, Added, Removed, Adds, Removes
<1>2. ASSUME NEW c \in Call, NEW r \in Requests, Asking(c, r) PROVE Counted'
  <2>1. Made' = Made \cup {c}
    BY <1>0, <1>2, NothingsAssumption DEF Asking, Made
  <2>2. ASSUME NEW s \in Slot PROVE Account(s)'
    <3>1. Added(s)' = Added(s) /\ Removed(s)' = Removed(s) /\ tasks' = tasks
      BY <1>0, <1>2 DEF Asking, Added, Removed, Adds, Removes
    <3> QED
      BY <3>1 DEF Counted, Account
  <2> QED
    BY <2>1, <2>2, FS_AddElement DEF Counted
<1>3. ASSUME NEW c \in Call, NEW s \in Slot, Adding(c, s) PROVE Counted'
  <2>1. Made' = Made
    BY <1>3 DEF Adding, Made
  <2>2. ASSUME NEW x \in Slot PROVE Account(x)'
    <3>1. Account(x) /\ Removed(x)' = Removed(x)
      BY <1>0, <1>3 DEF Adding, Removed, Removes, Counted
    <3>2. CASE x = s
      <4>1. Added(x)' = Added(x) \cup {c} /\ c \notin Added(x)
        BY <1>0, <1>3, <3>2 DEF Adding, Added, Adds
      <4>2. /\ IsFiniteSet(Added(x)')
            /\ Cardinality(Added(x)') = Cardinality(Added(x)) + 1
        BY <3>1, <4>1, FS_AddElement DEF Account
      <4>3. x \notin tasks /\ x \in tasks'
        BY <1>3, <3>2 DEF Adding
      <4> QED
        BY <3>1, <4>2, <4>3, FS_CardinalityType DEF Account, Num
    <3>3. CASE x # s
      <4>1. Added(x)' = Added(x) /\ (x \in tasks' <=> x \in tasks)
        BY <1>0, <1>3, <3>3 DEF Adding, Added, Adds
      <4> QED
        BY <3>1, <4>1 DEF Account, Num
    <3> QED
      BY <3>2, <3>3
  <2> QED
    BY <2>1, <2>2 DEF Counted
<1>4. ASSUME NEW c \in Call, NEW s \in Slot, Removing(c, s) PROVE Counted'
  <2>1. Made' = Made
    BY <1>4 DEF Removing, Made
  <2>2. ASSUME NEW x \in Slot PROVE Account(x)'
    <3>1. Account(x) /\ Added(x)' = Added(x)
      BY <1>0, <1>4 DEF Removing, Added, Adds, Counted
    <3>2. CASE x = s
      <4>1. Removed(x)' = Removed(x) \cup {c} /\ c \notin Removed(x)
        BY <1>0, <1>4, <3>2 DEF Removing, Removed, Removes
      <4>2. /\ IsFiniteSet(Removed(x)')
            /\ Cardinality(Removed(x)') = Cardinality(Removed(x)) + 1
        BY <3>1, <4>1, FS_AddElement DEF Account
      <4>3. x \in tasks /\ x \notin tasks'
        BY <1>4, <3>2 DEF Removing
      <4> QED
        BY <3>1, <4>2, <4>3, FS_CardinalityType DEF Account, Num
    <3>3. CASE x # s
      <4>1. Removed(x)' = Removed(x) /\ (x \in tasks' <=> x \in tasks)
        BY <1>0, <1>4, <3>3 DEF Removing, Removed, Removes
      <4> QED
        BY <3>1, <4>1 DEF Account, Num
    <3> QED
      BY <3>2, <3>3
  <2> QED
    BY <2>1, <2>2 DEF Counted
<1> QED
  BY <1>1, <1>2, <1>3, <1>4, DoesOne

\* A set that lies between two others, one with the calls in doubt.
LEMMA Between ==
    ASSUME NEW M, IsFiniteSet(M), NEW A \in SUBSET M, NEW D \in SUBSET M, NEW X \in SUBSET M,
           A \subseteq X, X \subseteq A \cup D
    PROVE  /\ Cardinality(A) \in Nat /\ Cardinality(D) \in Nat /\ Cardinality(X) \in Nat
           /\ Cardinality(A) <= Cardinality(X)
           /\ Cardinality(X) <= Cardinality(A) + Cardinality(D)
<1>1. IsFiniteSet(A) /\ IsFiniteSet(D) /\ IsFiniteSet(X)
  BY FS_Subset
<1>2. /\ IsFiniteSet(A \cup D) /\ IsFiniteSet(A \cap D)
      /\ Cardinality(A \cup D) = Cardinality(A) + Cardinality(D) - Cardinality(A \cap D)
  <2>1. A \cap D \in SUBSET M
    OBVIOUS
  <2> QED
    BY <1>1, <2>1, FS_Union, FS_Subset
<1>3. Cardinality(A) <= Cardinality(X) /\ Cardinality(X) <= Cardinality(A \cup D)
  BY <1>1, <1>2, FS_Subset
<1>4. /\ Cardinality(A) \in Nat /\ Cardinality(D) \in Nat /\ Cardinality(X) \in Nat
      /\ Cardinality(A \cap D) \in Nat
  BY <1>1, <1>2, FS_CardinalityType
<1> QED
  BY <1>2, <1>3, <1>4

LEMMA WholeOf ==
    ASSUME NEW c \in Call, NEW s
    PROVE  /\ Adds(c, s) => "added" \in Whole(request[c])
           /\ Removes(c, s) => "removed" \in Whole(request[c])
<1>1. CASE request[c].path = "CreateTask"
  BY <1>1 DEF Whole, Adds, Removes
<1>2. CASE request[c].path = "DeleteTask"
  BY <1>2 DEF Whole, Adds, Removes
<1>3. CASE request[c].path = "UpdateTask"
  <2>1. Whole(request[c]) = {"removed", "added"}
    BY <1>3 DEF Whole
  <2> QED
    BY <2>1
<1> QED
  BY <1>1, <1>2, <1>3 DEF Adds, Removes

\* A slot holds what the acknowledged calls have put there and not taken away,
\* give or take the calls that are in doubt.
THEOREM VerdictsBalance == Spec => []VerdictsAddUp
<1>1. Init => Counted
  <2> SUFFICES ASSUME Init PROVE Counted
    OBVIOUS
  <2>1. Made = {}
    BY DEF Init, Made
  <2>2. ASSUME NEW s \in Slot PROVE Account(s)
    <3>1. Added(s) = {} /\ Removed(s) = {} /\ s \notin tasks
      BY DEF Init, Added, Removed
    <3> QED
      BY <3>1, FS_EmptySet DEF Account, Num
  <2> QED
    BY <2>1, <2>2, FS_EmptySet DEF Counted
<1>2. RInv /\ Counted => VerdictsAddUp
  <2> SUFFICES ASSUME RInv, Counted PROVE VerdictsAddUp
    OBVIOUS
  <2>1. ASSUME NEW c \in Call
        PROVE  /\ Acked(c) => did[c] = Whole(request[c])
               /\ did[c] # {} => Acked(c) \/ InDoubt(c)
               /\ Acked(c) \/ InDoubt(c) \/ did[c] # {} => c \in Made
    <3>1. /\ Acked(c) => did[c] = Whole(request[c])
          /\ result[c] \in Refusals => did[c] = {}
      BY Verdicts DEF VerdictsTrue, Acked
    <3>2. request[c] = NoRequest => did[c] = {} /\ result[c] = NoResult
      BY DEF RInv, Served, Begun
    <3> QED
      BY <3>1, <3>2, NothingsAssumption DEF Acked, InDoubt, Made, Result
  <2>2. ASSUME NEW s \in Slot
        PROVE  LET aa == {c \in Call : Acked(c) /\ Adds(c, s)}
                   ar == {c \in Call : Acked(c) /\ Removes(c, s)}
                   da == {c \in Call : InDoubt(c) /\ Adds(c, s)}
                   dr == {c \in Call : InDoubt(c) /\ Removes(c, s)}
                   held == IF s \in tasks THEN 1 ELSE 0
               IN  /\ held <= Cardinality(aa) - Cardinality(ar) + Cardinality(da)
                   /\ held >= Cardinality(aa) - Cardinality(ar) - Cardinality(dr)
    <3> DEFINE aa == {c \in Call : Acked(c) /\ Adds(c, s)}
               ar == {c \in Call : Acked(c) /\ Removes(c, s)}
               da == {c \in Call : InDoubt(c) /\ Adds(c, s)}
               dr == {c \in Call : InDoubt(c) /\ Removes(c, s)}
    <3>1. /\ aa \in SUBSET Made /\ ar \in SUBSET Made /\ da \in SUBSET Made
          /\ dr \in SUBSET Made /\ Added(s) \in SUBSET Made /\ Removed(s) \in SUBSET Made
      BY <2>1 DEF Added, Removed
    <3>2. /\ aa \subseteq Added(s) /\ Added(s) \subseteq aa \cup da
          /\ ar \subseteq Removed(s) /\ Removed(s) \subseteq ar \cup dr
      BY <2>1, WholeOf DEF Added, Removed
    <3>3. IsFiniteSet(Made) /\ Account(s)
      BY DEF Counted
    <3> HIDE DEF aa, ar, da, dr
    <3>4. /\ Cardinality(aa) \in Nat /\ Cardinality(da) \in Nat /\ Cardinality(Added(s)) \in Nat
          /\ Cardinality(aa) <= Cardinality(Added(s))
          /\ Cardinality(Added(s)) <= Cardinality(aa) + Cardinality(da)
      BY <3>1, <3>2, <3>3, Between
    <3>5. /\ Cardinality(ar) \in Nat /\ Cardinality(dr) \in Nat
          /\ Cardinality(Removed(s)) \in Nat
          /\ Cardinality(ar) <= Cardinality(Removed(s))
          /\ Cardinality(Removed(s)) <= Cardinality(ar) + Cardinality(dr)
      BY <3>1, <3>2, <3>3, Between
    <3>6. (IF s \in tasks THEN 1 ELSE 0) = Cardinality(Added(s)) - Cardinality(Removed(s))
      BY <3>3 DEF Account, Num
    <3> QED
      BY <3>4, <3>5, <3>6 DEF aa, ar, da, dr
  <2> QED
    BY <2>2 DEF VerdictsAddUp
<1> QED
  BY <1>1, <1>2, StepCounted, RInvHolds, PTL DEF Spec

=============================================================================
