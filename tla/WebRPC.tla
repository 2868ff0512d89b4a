-------------------------------- MODULE WebRPC --------------------------------
(***************************************************************************)
(* WebRPC calls from end to end: the generated clients (Go and browser),   *)
(* the routes of the API and the generated server, with the store behind   *)
(* it.  A client and the server work on a call at the same time: the       *)
(* connection may break and the caller may lose interest at any point,     *)
(* while the server carries on with what it has received.                  *)
(***************************************************************************)
EXTENDS Integers, FiniteSets

CONSTANTS
    Call,        \* calls, each made once
    Slot,        \* the hours of a driver's week
    Requests,    \* what the calls may ask for
    NoRequest, NoResponse, NoResult

Reads == {"Ping", "Version", "ReadSchedule"}
Writes == {"CreateTask", "DeleteTask", "UpdateTask"}
Method == Reads \cup Writes

\* "elsewhere" is a path outside /rpc/, "unknown" one below it that names no
\* method.  A body is well-formed, without "req", not the JSON asked for, or
\* with an hour that does not parse or that is too short to be looked at.
Request ==
    [by : {"go", "browser", "other"}, verb : {"POST", "GET"},
     path : Method \cup {"elsewhere", "unknown"}, type : {"json", "other"},
     body : {"good", "nil", "malformed", "bad hour", "short hour"},
     slot : Slot, to : Slot]

\* What NewDispatchClient, newRequest and createHTTPRequest make.
Generated(r) ==
    /\ r.verb = "POST" /\ r.type = "json"
    /\ r.path # "unknown" /\ r.body # "malformed"

ASSUME RequestsAssumption ==
    /\ Requests \subseteq Request
    /\ \A r \in Requests : r.by # "other" => Generated(r)

VARIABLES
    tasks,     \* the slots that hold a task
    known,     \* whether anything was ever created
    request,   \* what each call asks for
    client,    \* the client of each call: idle, doing, reading, done
    ctxDone,   \* whether the context of each call is done
    server,    \* the server: none, routed, deleted, panicking, done, or lost
    response,  \* what has been written to each call's connection
    result,    \* what each call returned to its caller
    did        \* what each call did to the store (for the properties)

store == <<tasks, known, did>>
vars == <<tasks, known, request, client, ctxDone, server, response, result, did>>

-----------------------------------------------------------------------------
\* Errors: their codes and HTTP statuses.

\* Mutant of HTTPStatusFromErrorCode: a code is forgotten.
HTTPStatusButBadRoute(code) ==
    CASE code = "invalid argument" -> 400
      [] code = "not found" -> 404
      [] code = "internal" -> 500
      [] OTHER -> 0

HTTPStatusFromErrorCode(code) ==
    CASE code \in {"canceled", "deadline exceeded"} -> 408
      [] code \in {"unknown", "invalid argument", "out of range"} -> 400
      [] code = "fail" -> 422
      [] code \in {"not found", "bad route"} -> 404
      [] code \in {"already exists", "aborted"} -> 409
      [] code \in {"permission denied", "resource exhausted"} -> 403
      [] code = "unauthenticated" -> 401
      [] code = "failed precondition" -> 412
      [] code = "unimplemented" -> 501
      [] code \in {"internal", "data loss"} -> 500
      [] code = "unavailable" -> 503
      [] code = "" -> 200
      [] OTHER -> 0

IsValidErrorCode(code) == HTTPStatusFromErrorCode(code) # 0

\* The codes this service and its generated code use.
ErrorCode == {"invalid argument", "not found", "bad route", "internal"}

\* What is written to a connection: webrpc's JSON, which is the method's result
\* or an error's payload (its code), or a text that is no JSON.
Response ==
    [status : {200, 400, 404, 500}, body : ErrorCode \cup {"data", "text"}]

\* Besides a code: the browser's errors for what is not JSON and for a
\* connection that broke, and what another client makes of its response.
Result == ErrorCode \cup {"ok", "unknown", "failed", "seen"}

ASSUME NothingsAssumption ==
    /\ NoRequest \notin Requests
    /\ NoResponse \notin Response
    /\ NoResult \notin Result

TypeOK ==
    /\ tasks \subseteq Slot
    /\ known \in BOOLEAN
    /\ request \in [Call -> Requests \cup {NoRequest}]
    /\ client \in [Call -> {"idle", "doing", "reading", "done"}]
    /\ ctxDone \in [Call -> BOOLEAN]
    /\ server \in [Call -> {"none", "routed", "deleted", "panicking", "done", "lost"}]
    /\ response \in [Call -> Response \cup {NoResponse}]
    /\ result \in [Call -> Result \cup {NoResult}]
    /\ did \in [Call -> SUBSET {"removed", "added"}]

Init ==
    /\ tasks = {} /\ known = FALSE
    /\ request = [c \in Call |-> NoRequest]
    /\ client = [c \in Call |-> "idle"]
    /\ ctxDone = [c \in Call |-> FALSE]
    /\ server = [c \in Call |-> "none"]
    /\ response = [c \in Call |-> NoResponse]
    /\ result = [c \in Call |-> NoResult]
    /\ did = [c \in Call |-> {}]

-----------------------------------------------------------------------------
\* The clients.

Return(c, res) ==
    /\ client' = [client EXCEPT ![c] = "done"]
    /\ result' = [result EXCEPT ![c] = res]

\* clientError; a fetch that is rejected
ClientError(r) ==
    CASE r.by = "go" -> "internal"
      [] r.by = "browser" -> "failed"
      [] OTHER -> "seen"

\* A method of the client is called.
Ask(c, r) ==
    /\ client[c] = "idle"
    /\ request' = [request EXCEPT ![c] = r]
    /\ client' = [client EXCEPT ![c] = "doing"]
    /\ UNCHANGED <<store, ctxDone, server, response, result>>

\* The context is done already, or the address makes no request.
AskInVain(c, r) ==
    /\ client[c] = "idle"
    /\ r.by = "go"
    /\ request' = [request EXCEPT ![c] = r]
    /\ server' = [server EXCEPT ![c] = "lost"]
    /\ Return(c, ClientError(r))
    /\ UNCHANGED <<store, ctxDone, response>>

\* The request does not carry the context: Do is not interrupted.
Cancel(c) ==
    /\ client[c] \in {"doing", "reading"}
    /\ request[c].by = "go"
    /\ ctxDone' = [ctxDone EXCEPT ![c] = TRUE]
    /\ UNCHANGED <<store, request, client, server, response, result>>

\* The connection fails in Do or while the response is read; what has been sent
\* of the request may still arrive.
Break(c) ==
    /\ client[c] \in {"doing", "reading"}
    /\ Return(c, ClientError(request[c]))
    /\ \/ server' = server
       \/ server[c] = "none" /\ server' = [server EXCEPT ![c] = "lost"]
    /\ UNCHANGED <<store, request, ctxDone, response>>

\* Do returns a response.
Receive(c) ==
    /\ client[c] = "doing"
    /\ response[c] # NoResponse
    /\ IF ctxDone[c] THEN Return(c, ClientError(request[c]))
       ELSE client' = [client EXCEPT ![c] = "reading"] /\ UNCHANGED result
    /\ UNCHANGED <<store, request, ctxDone, server, response>>

errorFromResponse(resp) ==
    IF resp.body # "text" /\ IsValidErrorCode(resp.body)
    THEN resp.body ELSE "internal"

\* Mutant of doJSONRequest: the status is not looked at.
doJSONRequestAnyStatus(resp, done) ==
    IF resp.body = "text" \/ done THEN "internal" ELSE "ok"

\* The end of it, once the response is there.
doJSONRequest(resp, done) ==
    IF resp.status # 200 THEN errorFromResponse(resp)
    ELSE IF resp.body = "text" \/ done THEN "internal" ELSE "ok"

\* The browser's client
buildResponse(resp) ==
    IF resp.body = "text" THEN "unknown"
    ELSE IF resp.status = 200 THEN "ok" ELSE resp.body

ReadResponse(c) ==
    /\ client[c] = "reading"
    /\ \/ /\ request[c].by = "go"
          /\ Return(c, doJSONRequest(response[c], ctxDone[c]))
       \/ /\ request[c].by = "browser"
          /\ Return(c, buildResponse(response[c]))
       \/ /\ request[c].by = "other"
          /\ Return(c, "seen")
    /\ UNCHANGED <<store, request, ctxDone, server, response>>

-----------------------------------------------------------------------------
\* The server's responses.

\* Mutant of Write: what is written last counts.
WriteAgain(c, resp) == response' = [response EXCEPT ![c] = resp]

\* WriteHeader, Write: the first header counts.
Write(c, resp) ==
    response' = [response EXCEPT ![c] = IF @ = NoResponse THEN resp ELSE @]

At(c, stage) == server' = [server EXCEPT ![c] = stage]

\* The payload of an error. An error without a code is wrapped as internal.
RespondWithError(c, code) ==
    Write(c, [status |-> HTTPStatusFromErrorCode(code), body |-> code])

Plain == "internal"

Succeeds(c) ==
    /\ Write(c, [status |-> 200, body |-> "data"])
    /\ At(c, "done")

Fails(c, code) ==
    /\ RespondWithError(c, code)
    /\ At(c, "done")

\* Mutant of Panics: the panic ends in the function that recovers.
PanicsQuietly(c) ==
    /\ Write(c, [status |-> 200, body |-> "data"])
    /\ At(c, "done")

\* The service's panic is recovered, answered, and goes on.
Panics(c) ==
    /\ RespondWithError(c, "internal")
    /\ At(c, "panicking")

\* chi's Recoverer
Recoverer(c) ==
    /\ server[c] = "panicking"
    /\ Write(c, [status |-> 500, body |-> "text"])
    /\ At(c, "done")
    /\ UNCHANGED <<store, request, client, ctxDone, result>>

-----------------------------------------------------------------------------
\* The generated server, and the service's methods.

NotFound(c) ==
    /\ Write(c, [status |-> 404, body |-> "text"])
    /\ At(c, "done")

ServeHTTP(c) ==
    IF request[c].verb = "POST" /\ request[c].path \in Method
    THEN At(c, "routed") /\ UNCHANGED response
    ELSE Fails(c, "bad route")

\* The request arrives at the mux of the API.
Arrive(c) ==
    /\ server[c] = "none"
    /\ request[c] # NoRequest
    /\ IF request[c].path = "elsewhere" THEN NotFound(c) ELSE ServeHTTP(c)
    /\ UNCHANGED <<store, request, client, ctxDone, result>>

Routed(c, method) ==
    /\ server[c] = "routed"
    /\ request[c].path = method
    /\ UNCHANGED <<request, client, ctxDone, result>>

Json(c) == request[c].type = "json"

\* What is answered before the service is called: the media type is another,
\* the body cannot be read since the client is gone, or is not the JSON wanted.
Undecodable(c) ==
    /\ \/ ~Json(c) /\ Fails(c, "bad route")
       \/ Json(c) /\ client[c] = "done" /\ Fails(c, "internal")
       \/ Json(c) /\ request[c].body = "malformed" /\ Fails(c, "invalid argument")
    /\ UNCHANGED store

\* Without "req" the service gets a nil pointer, which it follows at once.
Decoded(c) == Json(c) /\ request[c].body \notin {"malformed", "nil"}

NilRequest(c) ==
    /\ Json(c) /\ request[c].body = "nil"
    /\ Panics(c)
    /\ UNCHANGED store

\* parseHourString
BadHour(c) ==
    /\ \/ request[c].body = "bad hour" /\ Fails(c, Plain)
       \/ request[c].body = "short hour" /\ Panics(c)
    /\ UNCHANGED store

HourParses(c) == request[c].body \notin {"bad hour", "short hour"}

Answerless(c) ==
    /\ \/ ~Json(c) /\ Fails(c, "bad route")
       \/ Json(c) /\ Succeeds(c)
    /\ UNCHANGED store

servePing(c) == Routed(c, "Ping") /\ Answerless(c)

serveVersion(c) == Routed(c, "Version") /\ Answerless(c)

serveReadSchedule(c) ==
    /\ Routed(c, "ReadSchedule")
    /\ \/ Undecodable(c)
       \/ NilRequest(c)
       \/ /\ Decoded(c)
          /\ IF known THEN Succeeds(c) ELSE Fails(c, "not found")
          /\ UNCHANGED store

\* db.CreateTask, and the answer to the call
Add(c, s) ==
    \/ /\ s \in tasks
       /\ Fails(c, Plain)
       /\ UNCHANGED store
    \/ /\ s \notin tasks
       /\ tasks' = tasks \cup {s}
       /\ known' = TRUE
       /\ did' = [did EXCEPT ![c] = @ \cup {"added"}]
       /\ Succeeds(c)

\* db.DeleteTask
Remove(c, s) ==
    /\ s \in tasks
    /\ tasks' = tasks \ {s}
    /\ did' = [did EXCEPT ![c] = @ \cup {"removed"}]
    /\ UNCHANGED known

NothingToRemove(c, s) ==
    /\ s \notin tasks
    /\ Fails(c, Plain)
    /\ UNCHANGED store

serveCreateTask(c) ==
    /\ Routed(c, "CreateTask")
    /\ \/ Undecodable(c)
       \/ NilRequest(c)
       \/ Decoded(c) /\ BadHour(c)
       \/ Decoded(c) /\ HourParses(c) /\ Add(c, request[c].slot)

serveDeleteTask(c) ==
    /\ Routed(c, "DeleteTask")
    /\ \/ Undecodable(c)
       \/ NilRequest(c)
       \/ Decoded(c) /\ BadHour(c)
       \/ /\ Decoded(c) /\ HourParses(c)
          /\ \/ Remove(c, request[c].slot) /\ Succeeds(c)
             \/ NothingToRemove(c, request[c].slot)

\* The hour that does not parse may be the old one or the new one.
serveUpdateTask(c) ==
    /\ Routed(c, "UpdateTask")
    /\ \/ Undecodable(c)
       \/ NilRequest(c)
       \/ Decoded(c) /\ BadHour(c)
       \/ /\ Decoded(c)
          /\ \/ Remove(c, request[c].slot) /\ At(c, "deleted") /\ UNCHANGED response
             \/ NothingToRemove(c, request[c].slot)

\* Update.Task once it has deleted
CreateUpdated(c) ==
    /\ server[c] = "deleted"
    /\ \/ BadHour(c)
       \/ HourParses(c) /\ Add(c, request[c].to)
    /\ UNCHANGED <<request, client, ctxDone, result>>

-----------------------------------------------------------------------------
Serve(c) ==
    \/ Arrive(c)
    \/ servePing(c) \/ serveVersion(c) \/ serveReadSchedule(c)
    \/ serveCreateTask(c) \/ serveDeleteTask(c) \/ serveUpdateTask(c)
    \/ CreateUpdated(c)
    \/ Recoverer(c)

Next ==
    \E c \in Call :
      \/ \E r \in Requests : Ask(c, r) \/ AskInVain(c, r)
      \/ Cancel(c) \/ Break(c) \/ Receive(c) \/ ReadResponse(c)
      \/ Serve(c)

Spec == Init /\ [][Next]_vars

-----------------------------------------------------------------------------
\* Properties.

\* A request that names a method is answered by webrpc, with an error's code and
\* the status of that code or with a result, even when the service panics, what
\* the middleware adds to a panic notwithstanding.
AnsweredInKind ==
    \A c \in Call :
      server[c] = "done" /\ request[c].path # "elsewhere" =>
        LET resp == response[c] IN
        \/ resp.body = "data" /\ resp.status = 200
        \/ resp.body \in ErrorCode
           /\ resp.status = HTTPStatusFromErrorCode(resp.body)

\* What an acknowledged call does to the store.
Whole(r) ==
    CASE r.path = "CreateTask" -> {"added"}
      [] r.path = "DeleteTask" -> {"removed"}
      [] r.path = "UpdateTask" -> {"removed", "added"}
      [] OTHER -> {}

Refusals == {"bad route", "invalid argument", "not found"}

\* A caller who is told "ok" knows that the call has been executed, whole, and
\* one who is told one of the server's refusals (a code other than internal) that
\* nothing of it has been nor will be, although the server may still be busy with
\* calls whose callers have left.  Internal errors, and what the client makes up
\* itself when it has no answer that it can read, tell nothing.
VerdictsTrue ==
    \A c \in Call :
      /\ result[c] = "ok" =>
           server[c] = "done" /\ did[c] = Whole(request[c])
      /\ result[c] \in Refusals =>
           server[c] = "done" /\ did[c] = {}

Acked(c) == result[c] = "ok"
InDoubt(c) == request[c] # NoRequest /\ ~Acked(c) /\ result[c] \notin Refusals
Adds(c, s) ==
    \/ request[c].path = "CreateTask" /\ request[c].slot = s
    \/ request[c].path = "UpdateTask" /\ request[c].to = s
Removes(c, s) ==
    request[c].path \in {"DeleteTask", "UpdateTask"} /\ request[c].slot = s

\* A slot holds what the acknowledged calls have put there and not taken away,
\* give or take the calls whose callers have no answer, an internal error or
\* one that the client made up.
VerdictsAddUp ==
    \A s \in Slot :
      LET Number(P(_, _), Q(_)) ==
            Cardinality({c \in Call : Q(c) /\ P(c, s)})
          acked == Number(Adds, Acked) - Number(Removes, Acked)
          held == IF s \in tasks THEN 1 ELSE 0
      IN  /\ held <= acked + Number(Adds, InDoubt)
          /\ held >= acked - Number(Removes, InDoubt)

=============================================================================
