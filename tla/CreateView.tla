----------------------------- MODULE CreateView -----------------------------
(***************************************************************************)
(* The loop of createViewSchedule (react-client/src/components/utils.js)   *)
(* over the slots of one day, in whatever order the response has them, and *)
(* what validateTask then finds in its result.                             *)
(***************************************************************************)
EXTENDS ScheduleView

VARIABLES
    slots,  \* the slots that have been handled
    view    \* newSchedule[day]

vars == <<slots, view>>

TypeOK == slots \subseteq Slot /\ IsView(view)

Init == slots = {} /\ view = EmptyView

\* The store holds one task per start hour.
Handle(s) ==
    /\ \A t \in slots : t.start # s.start
    /\ slots' = slots \cup {s}
    /\ view' = PutSlot(view, s)

Next == \E s \in Slot : Handle(s)

Spec == Init /\ [][Next]_vars

-----------------------------------------------------------------------------
\* Properties.

\* Tasks that do not overlap are all shown, with their durations, whatever the
\* order they come in; every hour they last is taken and no other is.
ViewExact == Disjoint(slots) => ShowsExactly(view, slots)

\* For a new task that ends before midnight, the client's check finds exactly
\* the tasks that share an hour with it.
ConflictsExact ==
    Disjoint(slots) =>
      \A start \in Hour, end \in 1..(Hours - 1) :
        start < end =>
          Conflicts(view, start, end) =
            StartsMeeting(slots, [start |-> start, duration |-> end - start])

=============================================================================
