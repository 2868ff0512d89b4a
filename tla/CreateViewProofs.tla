-------------------------- MODULE CreateViewProofs --------------------------
(***************************************************************************)
(* Proofs about CreateView, for a day of any length and any number of      *)
(* slots in any order.                                                     *)
(***************************************************************************)
EXTENDS CreateView, ScheduleViewProofs

\* createViewSchedule only ever writes hours of the day, and durations.
THEOREM TypeCorrect == Spec => []TypeOK
  <1>1. Init => TypeOK
    BY DEF Init, TypeOK, IsView, EmptyView
  <1>2. TypeOK /\ [Next]_vars => TypeOK'
    <2> SUFFICES ASSUME TypeOK, [Next]_vars PROVE TypeOK'
      OBVIOUS
    <2>1. CASE UNCHANGED vars
      BY <2>1 DEF vars, TypeOK, IsView
    <2>2. ASSUME NEW s \in Slot, Handle(s) PROVE TypeOK'
      <3>1. IsView(PutSlot(view, s))
        BY PutSlotIsView DEF TypeOK
      <3> QED BY <2>2, <3>1 DEF TypeOK, Handle, IsView
    <2> QED BY <2>1, <2>2 DEF Next
  <1> QED BY <1>1, <1>2, PTL DEF Spec

\* Tasks that do not overlap are all shown exactly, whatever order the response
\* has them in (createViewSchedule).
THEOREM ViewIsExact == Spec => []ViewExact
  <1>1. Init => ViewExact
    BY DEF Init, ViewExact, ShowsExactly, EmptyView
  <1>2. TypeOK /\ ViewExact /\ [Next]_vars => ViewExact'
    <2> SUFFICES ASSUME TypeOK, ViewExact, [Next]_vars PROVE ViewExact'
      OBVIOUS
    <2>1. CASE UNCHANGED vars
      BY <2>1 DEF vars, ViewExact, ShowsExactly, Disjoint
    <2>2. ASSUME NEW s \in Slot, Handle(s) PROVE ViewExact'
      <3>1. /\ slots' = slots \cup {s} /\ \A t \in slots : t.start # s.start
            /\ view' = PutSlot(view, s) /\ slots \in SUBSET Slot
        BY <2>2 DEF Handle, TypeOK
      <3>2. ASSUME Disjoint(slots \cup {s})
            PROVE  ShowsExactly(PutSlot(view, s), slots \cup {s})
        <4>1. Disjoint(slots)
          BY <3>2 DEF Disjoint
        <4> QED BY <4>1, <3>1, <3>2, PutSlotExact DEF ViewExact
      <3> QED BY <3>1, <3>2 DEF ViewExact, ShowsExactly, Disjoint
    <2> QED BY <2>1, <2>2 DEF Next
  <1> QED BY <1>1, <1>2, TypeCorrect, PTL DEF Spec

\* For a new task that ends before midnight, validateTask finds exactly the
\* tasks that share an hour with it.
THEOREM ChecksAreExact == Spec => []ConflictsExact
  <1>1. TypeOK /\ ViewExact => ConflictsExact
    BY ConflictsAreMeetings, HoursAssumption DEF TypeOK, ViewExact, ConflictsExact, Hour
  <1> QED BY <1>1, TypeCorrect, ViewIsExact, PTL

=============================================================================
