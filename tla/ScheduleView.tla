---------------------------- MODULE ScheduleView ----------------------------
(***************************************************************************)
(* The client's conversions of one day of a schedule                       *)
(* (react-client/src/components/utils.js).  A slot of a response is a      *)
(* start hour and a duration, its operation is left out; a view has for    *)
(* each hour that a task starts at its duration, and 0 for the hours that  *)
(* it goes on.  Hours are whole, as the step of the time inputs makes them.*)
(***************************************************************************)
EXTENDS Integers, SequencesExt

CONSTANT Hours  \* hours of a day (24)

ASSUME HoursAssumption == Hours \in Nat \ {0}

Hour == 0..(Hours - 1)

\* What the client stores: tasks that end by midnight.
Slot == {s \in [start : Hour, duration : 1..Hours] : s.start + s.duration <= Hours}

EmptyView == [h \in {} |-> 0]

\* Mutant of Filled: the hour after the task is taken too.
FilledTooFar(s) == {(s.start + i) % Hours : i \in 1..s.duration}

\* Mutant of Filled: one hour too many, and midnight comes after the last.
FilledPastMidnight(s) == {s.start + i : i \in 1..s.duration}

\* nextTimeSlot, and again, from a slot's start
Filled(s) == {(s.start + i) % Hours : i \in 1..(s.duration - 1)}

\* createViewSchedule: what one slot does to the view
PutSlot(view, s) ==
    [h \in DOMAIN view \cup {s.start} \cup Filled(s) |->
       IF h \in Filled(s) THEN 0 ELSE IF h = s.start THEN s.duration ELSE view[h]]

\* createViewSchedule: what the loop makes of the slots of q
ViewOf(q) ==
    LET view[i \in 0..Len(q)] ==
          IF i = 0 THEN EmptyView ELSE PutSlot(view[i - 1], q[i])
    IN  view[Len(q)]

\* The slots of a response come in any order.
Views(slots) == {ViewOf(q) : q \in SetToSeqs(slots)}

\* Mutant of Overlaps: ranges that touch overlap.
OverlapsOrTouches(a, b) == a.end >= b.start /\ a.start <= b.end

\* twix' overlaps, on ranges of hours
Overlaps(a, b) == a.end > b.start /\ a.start < b.end

Period(start, end) == [start |-> start, end |-> end]

\* Mutant of Conflicts: only the tasks that start in the new one's hours.
ConflictsByStart(view, start, end) ==
    {h \in DOMAIN view : view[h] # 0 /\ h \in start..(end - 1)}

\* validateTask: the starts of the shown tasks that a new one would overlap.
\* An end of 00:00 is hour 0 here, before every start.
Conflicts(view, start, end) ==
    {h \in DOMAIN view :
       view[h] # 0 /\ Overlaps(Period(start, end), Period(h, h + view[h]))}

\* getTaskDuration: not positive when the hours are refused
TaskDuration(start, end) ==
    IF end = 0 /\ start # 0 THEN Hours - start ELSE end - start

-----------------------------------------------------------------------------
\* What the definitions above are held against.

Occupies(s) == s.start..(s.start + s.duration - 1)

Meet(s, t) == Occupies(s) \cap Occupies(t) # {}

Disjoint(S) == \A s, t \in S : s = t \/ ~Meet(s, t)

\* Each task with its duration; every hour they last is taken and no other is.
ShowsExactly(view, S) ==
    /\ DOMAIN view = UNION {Occupies(s) : s \in S}
    /\ \A h \in DOMAIN view : view[h] = 0 <=> \A s \in S : s.start # h
    /\ \A s \in S : view[s.start] = s.duration

\* The start hours of the tasks that share an hour with s.
StartsMeeting(S, s) == {t.start : t \in {u \in S : Meet(u, s)}}

IsView(view) == DOMAIN view \subseteq Hour /\ view \in [DOMAIN view -> 0..Hours]

=============================================================================
