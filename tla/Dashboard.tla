------------------------------ MODULE Dashboard ------------------------------
(***************************************************************************)
(* The dispatcher's page (react-client/src: Dispatcher, TaskCreator,       *)
(* SpanTable, UpdateModal and the hook useRPC) against a server that does  *)
(* what TaskService does, one request at a time.  The browser runs one     *)
(* event at a time; requests and responses travel in any order and may be  *)
(* lost, which the browser takes as an error.  What it takes for lost may  *)
(* still reach the server.                                                 *)
(*                                                                         *)
(* A page of the timetable is a driver and a week.  There is one day, and  *)
(* a task is its slot: its operation is shown and no more.  The hours in   *)
(* the form and in the modal can be changed at any time, so that they are  *)
(* chosen when they are used.                                              *)
(***************************************************************************)
EXTENDS ScheduleView, FiniteSets, Bags

CONSTANTS
    Page,
    Closed,      \* no modal
    MaxInFlight  \* bound: requests and responses under way; late requests

ASSUME ClosedAssumption == Closed \notin Hour
ASSUME MaxInFlightAssumption == MaxInFlight \in Nat \ {0}

VARIABLES
    tasks,     \* the server's tasks of each page
    page,      \* the selected driver and week
    schedule,  \* driverSchedule: what the timetable shows
    modal,     \* the task being updated, and the conflicts found for it
    inFlight,  \* a bag of requests and responses
    late,      \* a bag of requests that have failed and may still be served
    careful,   \* for the properties: see Careful
    patient,   \* for the properties: see Careful
    overtaken  \* for the properties: see ServeLate

user == <<careful, patient>>
server == <<tasks, late, overtaken>>
vars == <<page, schedule, modal, inFlight, user, server>>

Writes ==
    [type : {"CreateTask"}, page : Page, slot : Slot]
    \cup [type : {"DeleteTask"}, page : Page, start : Hour]
    \cup [type : {"UpdateTask"}, page : Page, start : Hour, overlaps : SUBSET Hour,
          slot : Slot]

Requests == [type : {"ReadSchedule"}, page : Page] \cup Writes

Responses ==
    [type : {"schedule"}, slots : SUBSET Slot]
    \cup [type : {"done"}, page : Page]
    \cup [type : {"error"}]

\* The copies of the messages of a bag, each of its own.
Copies(bag) == UNION {{m} \X (1..bag[m]) : m \in BagToSet(bag)}

OnePerHour(S) == \A s, t \in S : s.start = t.start => s = t

TaskSet == {S \in SUBSET Slot : OnePerHour(S)}

TypeOK ==
    /\ tasks \in [Page -> TaskSet]
    /\ page \in Page
    /\ IsView(schedule)
    /\ modal \in [start : Hour \cup {Closed}, overlaps : SUBSET Hour,
                  hours : Hour \X Hour]
    /\ IsABag(inFlight) /\ BagToSet(inFlight) \subseteq Requests \cup Responses
    /\ Cardinality(Copies(inFlight)) <= MaxInFlight
    /\ IsABag(late) /\ BagToSet(late) \subseteq Writes
    /\ Cardinality(Copies(late)) <= MaxInFlight
    /\ {careful, patient, overtaken} \subseteq BOOLEAN

NoModal == [start |-> Closed, overlaps |-> {}, hours |-> <<0, 0>>]

\* The page is mounted and reads its schedule.
Init ==
    /\ tasks = [p \in Page |-> {}]
    /\ page \in Page
    /\ schedule = EmptyView
    /\ modal = NoModal
    /\ inFlight = SetToBag({[type |-> "ReadSchedule", page |-> page]})
    /\ late = EmptyBag
    /\ careful = TRUE /\ patient = TRUE /\ overtaken = FALSE

-----------------------------------------------------------------------------
\* The user.  While the modal is open nothing else can be reached.

Send(m) ==
    /\ Cardinality(Copies(inFlight)) < MaxInFlight
    /\ inFlight' = inFlight (+) SetToBag({m})

\* A patient user acts when everything has been answered.  A careful one is
\* patient, and more.
Careful(also) ==
    /\ patient' = (patient /\ inFlight = EmptyBag)
    /\ careful' = (careful /\ patient' /\ also)

AtTable == modal = NoModal

\* A driver or a week is chosen: the effect in Dispatcher reads the page.
Select(p) ==
    /\ AtTable /\ p # page
    /\ page' = p
    /\ Send([type |-> "ReadSchedule", page |-> p])
    /\ Careful(TRUE)
    /\ UNCHANGED <<server, schedule, modal>>

NewSlot(start, end) == [start |-> start, duration |-> TaskDuration(start, end)]

\* Mutant of CanCreate: only the conflicts are checked.
CanCreateBackwards(start, end) == Conflicts(schedule, start, end) = {}

\* When the form's button is not disabled.
CanCreate(start, end) ==
    TaskDuration(start, end) > 0 /\ Conflicts(schedule, start, end) = {}

\* The form is submitted.
Submit(start, end) ==
    /\ AtTable
    /\ CanCreate(start, end)
    /\ Send([type |-> "CreateTask", page |-> page, slot |-> NewSlot(start, end)])
    /\ Careful(end # 0)
    /\ UNCHANGED <<server, page, schedule, modal>>

\* The hours with buttons: a task starts there.
Shown == {h \in DOMAIN schedule : schedule[h] # 0}

ClickDelete(h) ==
    /\ AtTable /\ h \in Shown
    /\ Send([type |-> "DeleteTask", page |-> page, start |-> h])
    /\ Careful(TRUE)
    /\ UNCHANGED <<server, page, schedule, modal>>

\* The modal opens with the hours it was last used with, and only now are
\* their conflicts computed.  (modal.hours is for the properties of a careful
\* user, and kept for that one only.)
ClickEdit(h, start, end) ==
    /\ AtTable /\ h \in Shown
    /\ Careful(TRUE)
    /\ modal' = [start |-> h, overlaps |-> Conflicts(schedule, start, end),
                 hours |-> IF careful' THEN <<start, end>> ELSE NoModal.hours]
    /\ UNCHANGED <<server, page, schedule, inFlight>>

\* The button of the modal, with the hours it then has.
SubmitUpdate(start, end) ==
    /\ ~AtTable
    /\ TaskDuration(start, end) > 0
    /\ Send([type |-> "UpdateTask", page |-> page, start |-> modal.start,
             overlaps |-> modal.overlaps, slot |-> NewSlot(start, end)])
    /\ modal' = NoModal
    /\ Careful(end # 0 /\ <<start, end>> = modal.hours)
    /\ UNCHANGED <<server, page, schedule>>

CloseModal ==
    /\ ~AtTable
    /\ modal' = NoModal
    /\ UNCHANGED <<server, page, schedule, inFlight, user>>

-----------------------------------------------------------------------------
\* The server.  What becomes of the tasks of a request's page, and the answer.

Outcome(S, r) == [tasks |-> S, answer |-> r]
Done(m, S) == Outcome(S, [type |-> "done", page |-> m.page])
Refused(S) == Outcome(S, [type |-> "error"])

Starts(p) == {s.start : s \in tasks[p]}

Without(p, H) == {s \in tasks[p] : s.start \notin H}

\* An unknown page is an error, which the client takes for an empty schedule.
Reading(m) == {Outcome(tasks[m.page], [type |-> "schedule", slots |-> tasks[m.page]])}

Creating(m) ==
    IF m.slot.start \in Starts(m.page)
    THEN {Refused(tasks[m.page])}
    ELSE {Done(m, tasks[m.page] \cup {m.slot})}

Deleting(m) ==
    IF m.start \in Starts(m.page)
    THEN {Done(m, Without(m.page, {m.start}))}
    ELSE {Refused(tasks[m.page])}

\* Mutant of OldHours: the conflicts are not sent.
OldHoursOnly(m) == {m.start}

\* uniqConflicts: the task's own hour comes first, then its conflicts in the
\* order of the view.
OldHours(m) == {m.start} \cup m.overlaps

\* What the update's loop has deleted when it meets an hour that is not there.
DeletedBefore(m) ==
    IF m.start \notin Starts(m.page) THEN {{}}
    ELSE {{m.start} \cup H : H \in SUBSET (OldHours(m) \cap Starts(m.page))}

Updating(m) ==
    LET rest == Without(m.page, OldHours(m))
    IN  IF ~(OldHours(m) \subseteq Starts(m.page))
        THEN {Refused(Without(m.page, H)) : H \in DeletedBefore(m)}
        ELSE IF \E s \in rest : s.start = m.slot.start
             THEN {Refused(rest)}
             ELSE {Done(m, rest \cup {m.slot})}

Outcomes(m) ==
    CASE m.type = "ReadSchedule" -> Reading(m)
      [] m.type = "CreateTask" -> Creating(m)
      [] m.type = "DeleteTask" -> Deleting(m)
      [] m.type = "UpdateTask" -> Updating(m)

Leaves(m, o) == tasks' = [tasks EXCEPT ![m.page] = o.tasks]

Respond(m, r) == inFlight' = (inFlight (-) SetToBag({m})) (+) SetToBag({r})

Serve(m) ==
    /\ m \in Requests
    /\ \E o \in Outcomes(m) : Leaves(m, o) /\ Respond(m, o.answer)
    /\ overtaken' = (overtaken /\ m.type # "ReadSchedule")
    /\ UNCHANGED <<page, schedule, modal, late, user>>

\* The fetch fails, or the response does not get back.  The request may have
\* been served (the response is lost), may never be, or may be served when the
\* browser has taken it for failed.
Lose(m) ==
    /\ m.type # "error"
    /\ Respond(m, [type |-> "error"])
    /\ careful' = FALSE
    /\ \/ UNCHANGED late
       \/ /\ m \in Writes /\ Cardinality(Copies(late)) < MaxInFlight
          /\ late' = late (+) SetToBag({m})
    /\ UNCHANGED <<tasks, page, schedule, modal, patient, overtaken>>

\* Nobody waits for the answer.  The schedule of the selected page, if it has
\* been read, has been overtaken by the change.
ServeLate(m) ==
    /\ \E o \in Outcomes(m) : Leaves(m, o)
    /\ late' = late (-) SetToBag({m})
    /\ overtaken' = (overtaken \/ tasks'[page] # tasks[page])
    /\ UNCHANGED <<page, schedule, modal, inFlight, user>>

-----------------------------------------------------------------------------
\* The answers, in useRPC.

ReceiveSchedule(m) ==
    /\ m.type = "schedule"
    /\ schedule' \in Views(m.slots)
    /\ inFlight' = inFlight (-) SetToBag({m})
    /\ UNCHANGED <<server, page, modal, user>>

\* Mutant of ReceiveDone: the schedule is not read again.
ReceiveDoneOnly(m) ==
    /\ m.type = "done"
    /\ inFlight' = inFlight (-) SetToBag({m})
    /\ UNCHANGED <<server, page, schedule, modal, user>>

\* getSchedule(driver, week), for those of the request
ReceiveDone(m) ==
    /\ m.type = "done"
    /\ Respond(m, [type |-> "ReadSchedule", page |-> m.page])
    /\ UNCHANGED <<server, page, schedule, modal, user>>

\* Mutant of ReceiveError: what was shown stays.
ReceiveErrorOnly(m) ==
    /\ m.type = "error"
    /\ inFlight' = inFlight (-) SetToBag({m})
    /\ UNCHANGED <<server, page, schedule, modal, user>>

ReceiveError(m) ==
    /\ m.type = "error"
    /\ schedule' = EmptyView
    /\ inFlight' = inFlight (-) SetToBag({m})
    /\ UNCHANGED <<server, page, modal, user>>

-----------------------------------------------------------------------------
User ==
    \/ \E p \in Page : Select(p)
    \/ \E start, end \in Hour :
         \/ Submit(start, end)
         \/ SubmitUpdate(start, end)
         \/ \E h \in Hour : ClickEdit(h, start, end)
    \/ \E h \in Hour : ClickDelete(h)
    \/ CloseModal

Next ==
    \/ User
    \/ \E m \in BagToSet(inFlight) :
         \/ Serve(m)
         \/ Lose(m)
         \/ ReceiveSchedule(m)
         \/ ReceiveDone(m)
         \/ ReceiveError(m)
    \/ \E m \in BagToSet(late) : ServeLate(m)

Spec == Init /\ [][Next]_vars

-----------------------------------------------------------------------------
\* Properties.

\* A careful user waits for the answers, does not plan until midnight (whose
\* conflicts the check does not find), and updates with the hours the modal
\* opened with (for which it computed the conflicts).  For such a user, and
\* with nothing lost, tasks of a page never overlap, although the server does
\* not look at durations ...
NoOverlaps == careful => \A p \in Page : Disjoint(tasks[p])

\* ... no request is refused, so that no update loses tasks half way ...
NothingRefused == careful => [type |-> "error"] \notin BagToSet(inFlight)

\* ... and when everything is answered the timetable shows the tasks of the
\* selected page, and no others.
SettledShowsPage ==
    careful /\ inFlight = EmptyBag => Views(tasks[page]) = {schedule}

\* Whatever is refused or lost on the way: to a user who waits the timetable
\* shows, once everything is answered, the tasks of the selected page or
\* nothing.  It may hide tasks, and shows none that are not there, but for what
\* a request that has failed does to them after they were read.
NothingFalseShown ==
    patient /\ inFlight = EmptyBag /\ ~overtaken =>
      schedule \in Views(tasks[page]) \cup {EmptyView}
=============================================================================
