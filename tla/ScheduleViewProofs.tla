-------------------------- MODULE ScheduleViewProofs --------------------------
(***************************************************************************)
(* What the client's conversions of ScheduleView compute, for a day of any *)
(* length and any number of slots in any order: facts about the operators, *)
(* for the proofs about the modules that use them.                         *)
(***************************************************************************)
EXTENDS ScheduleView, FiniteSetTheorems, TLAPS

\* The clock of nextTimeSlot does not wrap before midnight.
LEMMA SmallMod == ASSUME NEW n \in Nat \ {0}, NEW x \in 0..(n - 1) PROVE x % n = x
  OBVIOUS

\* A slot takes its start hour and fills the others that it lasts.
LEMMA FilledRest ==
  ASSUME NEW s \in Slot
  PROVE  /\ s.start \in Hour /\ s.duration \in 1..Hours
         /\ s.start + s.duration <= Hours
         /\ Filled(s) = (s.start + 1)..(s.start + s.duration - 1)
         /\ Occupies(s) = {s.start} \cup Filled(s)
  <1>1. /\ s.start \in Hour /\ s.duration \in 1..Hours
        /\ s.start + s.duration <= Hours
    BY DEF Slot
  <1>2. ASSUME NEW i \in 1..(s.duration - 1) PROVE (s.start + i) % Hours = s.start + i
    <2>1. s.start + i \in 0..(Hours - 1)
      BY <1>1, HoursAssumption DEF Hour
    <2> QED BY <2>1, SmallMod, HoursAssumption
  <1>3. Filled(s) = (s.start + 1)..(s.start + s.duration - 1)
    <2>1. Filled(s) = {s.start + i : i \in 1..(s.duration - 1)}
      BY <1>2 DEF Filled
    <2>2. ASSUME NEW h \in (s.start + 1)..(s.start + s.duration - 1)
          PROVE  h \in {s.start + i : i \in 1..(s.duration - 1)}
      <3>1. h - s.start \in 1..(s.duration - 1) /\ h = s.start + (h - s.start)
        BY <1>1, HoursAssumption DEF Hour
      <3> QED BY <3>1
    <2>3. ASSUME NEW i \in 1..(s.duration - 1)
          PROVE  s.start + i \in (s.start + 1)..(s.start + s.duration - 1)
      BY <1>1, HoursAssumption DEF Hour
    <2> QED BY <2>1, <2>2, <2>3
  <1>4. Occupies(s) = {s.start} \cup Filled(s)
    BY <1>1, <1>3, HoursAssumption DEF Occupies, Hour
  <1> QED BY <1>1, <1>3, <1>4

-----------------------------------------------------------------------------
\* One slot

\* A slot keeps a view a view.
LEMMA PutSlotIsView ==
  ASSUME NEW view, IsView(view), NEW s \in Slot
  PROVE  IsView(PutSlot(view, s))
  <1> DEFINE new == PutSlot(view, s)
  <1>1. Filled(s) \subseteq Hour /\ s.start \in Hour /\ s.duration \in 0..Hours
    BY FilledRest, HoursAssumption DEF Hour
  <1>2. DOMAIN new = DOMAIN view \cup {s.start} \cup Filled(s)
    BY DEF PutSlot
  <1>3. ASSUME NEW h \in DOMAIN new PROVE new[h] \in 0..Hours
    <2>1. new[h] = IF h \in Filled(s) THEN 0
                   ELSE IF h = s.start THEN s.duration ELSE view[h]
      BY <1>2, <1>3 DEF PutSlot
    <2>2. h \notin Filled(s) /\ h # s.start => view[h] \in 0..Hours
      BY <1>2, <1>3 DEF IsView
    <2> QED BY <2>1, <2>2, <1>1, HoursAssumption
  <1>4. new \in [DOMAIN new -> 0..Hours]
    BY <1>2, <1>3 DEF PutSlot
  <1> QED BY <1>1, <1>2, <1>4 DEF IsView

\* One more slot, which overlaps no other, keeps an exact view exact.
LEMMA PutSlotExact ==
  ASSUME NEW S \in SUBSET Slot, NEW view, ShowsExactly(view, S), NEW s \in Slot,
         \A t \in S : t.start # s.start, Disjoint(S \cup {s})
  PROVE  ShowsExactly(PutSlot(view, s), S \cup {s})
  <1> DEFINE new == PutSlot(view, s)
  <1>1. /\ DOMAIN view = UNION {Occupies(t) : t \in S}
        /\ \A h \in DOMAIN view : view[h] = 0 <=> \A t \in S : t.start # h
        /\ \A t \in S : view[t.start] = t.duration
    BY DEF ShowsExactly
  <1>2. ASSUME NEW t \in S
        PROVE  t.start \in DOMAIN view /\ t.start \notin Occupies(s)
    <2>1. t.start \in Occupies(t) /\ t.duration \in 1..Hours
      BY FilledRest
    <2>2. ~Meet(t, s) \/ t = s
      BY DEF Disjoint
    <2> QED BY <1>1, <2>1, <2>2 DEF Meet
  <1>3. /\ DOMAIN new = DOMAIN view \cup Occupies(s)
        /\ Occupies(s) = {s.start} \cup Filled(s) /\ s.start \notin Filled(s)
        /\ s.duration # 0
    <2>1. Occupies(s) = {s.start} \cup Filled(s) /\ s.duration # 0
      BY FilledRest, HoursAssumption
    <2>2. s.start \notin Filled(s)
      BY FilledRest, HoursAssumption DEF Hour
    <2>3. DOMAIN new = DOMAIN view \cup {s.start} \cup Filled(s)
      BY DEF PutSlot
    <2> QED BY <2>1, <2>2, <2>3
  <1>4. \A h \in DOMAIN new :
          new[h] = IF h \in Filled(s) THEN 0
                   ELSE IF h = s.start THEN s.duration ELSE view[h]
    BY DEF PutSlot
  <1> HIDE DEF new
  <1>5. DOMAIN new = UNION {Occupies(t) : t \in S \cup {s}}
    BY <1>1, <1>3
  <1>6. ASSUME NEW h \in DOMAIN new
        PROVE  new[h] = 0 <=> \A t \in S \cup {s} : t.start # h
    <2>1. CASE h \in Filled(s)
      BY <2>1, <1>2, <1>3, <1>4
    <2>2. CASE h = s.start
      BY <2>2, <1>3, <1>4
    <2>3. CASE h \notin Occupies(s)
      BY <2>3, <1>1, <1>3, <1>4
    <2> QED BY <2>1, <2>2, <2>3, <1>3
  <1>7. ASSUME NEW t \in S \cup {s} PROVE new[t.start] = t.duration
    <2>1. CASE t = s
      BY <2>1, <1>3, <1>4
    <2>2. CASE t \in S
      BY <2>2, <1>1, <1>2, <1>3, <1>4
    <2> QED BY <2>1, <2>2
  <1> QED BY <1>5, <1>6, <1>7 DEF ShowsExactly, new

-----------------------------------------------------------------------------
\* The check of a new task

\* Two tasks share an hour exactly when the client's check says that their
\* ranges overlap.
LEMMA MeetIsOverlap ==
  ASSUME NEW t \in Slot, NEW start \in Hour, NEW end \in Hour, start < end
  PROVE  Meet(t, [start |-> start, duration |-> end - start])
           <=> Overlaps(Period(start, end), Period(t.start, t.start + t.duration))
  <1> DEFINE new == [start |-> start, duration |-> end - start]
  <1>1. /\ t.start \in Hour /\ t.duration \in 1..Hours
        /\ Occupies(t) = t.start..(t.start + t.duration - 1)
        /\ Occupies(new) = start..(end - 1)
    BY FilledRest DEF Occupies, Hour
  <1>2. ASSUME end > t.start, start < t.start + t.duration PROVE Meet(t, new)
    <2>1. CASE start >= t.start
      <3>1. start \in Occupies(t) \cap Occupies(new)
        BY <1>1, <1>2, <2>1, HoursAssumption DEF Hour
      <3> QED BY <3>1 DEF Meet
    <2>2. CASE start < t.start
      <3>1. t.start \in Occupies(t) \cap Occupies(new)
        BY <1>1, <1>2, <2>2, HoursAssumption DEF Hour
      <3> QED BY <3>1 DEF Meet
    <2> QED BY <2>1, <2>2, <1>1, HoursAssumption DEF Hour
  <1>3. ASSUME Meet(t, new) PROVE end > t.start /\ start < t.start + t.duration
    <2>1. PICK h \in Occupies(t) : h \in Occupies(new)
      BY <1>3 DEF Meet
    <2> QED BY <2>1, <1>1, HoursAssumption DEF Hour
  <1> QED BY <1>2, <1>3 DEF Overlaps, Period

\* In an exact view validateTask finds exactly the tasks that share an hour with
\* a new one that ends before midnight.
LEMMA ConflictsAreMeetings ==
  ASSUME NEW S \in SUBSET Slot, NEW view, ShowsExactly(view, S),
         NEW start \in Hour, NEW end \in Hour, start < end
  PROVE  Conflicts(view, start, end) =
           StartsMeeting(S, [start |-> start, duration |-> end - start])
  <1> DEFINE Hits(t) == Meet(t, [start |-> start, duration |-> end - start])
  <1>1. /\ DOMAIN view = UNION {Occupies(s) : s \in S}
        /\ \A h \in DOMAIN view : view[h] = 0 <=> \A s \in S : s.start # h
        /\ \A s \in S : view[s.start] = s.duration
    BY DEF ShowsExactly
  <1>2. \A t \in S : t.start \in DOMAIN view /\ view[t.start] # 0
    BY <1>1, FilledRest
  <1>3. \A t \in S :
          Hits(t) <=> Overlaps(Period(start, end),
                               Period(t.start, t.start + view[t.start]))
    BY <1>1, MeetIsOverlap
  <1>4. ASSUME NEW t \in S, Hits(t) PROVE t.start \in Conflicts(view, start, end)
    BY <1>2, <1>3, <1>4 DEF Conflicts
  <1>5. ASSUME NEW h \in Conflicts(view, start, end)
        PROVE  \E t \in S : Hits(t) /\ t.start = h
    <2>1. /\ h \in DOMAIN view /\ view[h] # 0
          /\ Overlaps(Period(start, end), Period(h, h + view[h]))
      BY <1>5 DEF Conflicts
    <2>2. PICK t \in S : t.start = h
      BY <2>1, <1>1
    <2> QED BY <2>1, <2>2, <1>3
  <1> QED BY <1>4, <1>5 DEF StartsMeeting

-----------------------------------------------------------------------------
\* The whole loop.  Induction is over sets of numbers: of those a fact does not
\* hold for there would be a least one.

LEMMA NatSetInduction ==
  ASSUME NEW T \in SUBSET Nat, 0 \in T, \A n \in T : n + 1 \in T
  PROVE  T = Nat
  <1> SUFFICES ASSUME Nat \ T # {} PROVE FALSE
    OBVIOUS
  <1>1. PICK n \in Nat \ T : \A k \in Nat \ T : ~(<<k, n>> \in OpToRel(<, Nat))
    <2>1. Nat \ T \subseteq Nat
      OBVIOUS
    <2> HIDE DEF OpToRel
    <2> QED BY <2>1, WFMin, NatLessThanWellFounded
  <1>2. \A k \in Nat \ T : ~(k < n)
    BY <1>1 DEF OpToRel
  <1>3. n - 1 \in T
    BY <1>2
  <1> QED BY <1>3

LEMMA Induction ==
  ASSUME NEW N \in Nat, NEW T \in SUBSET (0..N),
         0 \in T, \A n \in T : n < N => n + 1 \in T
  PROVE  T = 0..N
  <1>1. T \cup {n \in Nat : n > N} = Nat
    <2> DEFINE All == T \cup {n \in Nat : n > N}
    <2>1. \A n \in 0..N : n \in Nat /\ n <= N
      OBVIOUS
    <2>2. All \in SUBSET Nat /\ 0 \in All
      BY <2>1
    <2>3. ASSUME NEW n \in All PROVE n + 1 \in All
      <3>1. CASE n \in T /\ n < N
        BY <3>1
      <3>2. CASE n \in T /\ n = N
        BY <3>2
      <3>3. CASE n \in Nat /\ n > N
        BY <3>3
      <3>4. n \in T => n <= N
        BY <2>1
      <3> QED BY <2>1, <3>1, <3>2, <3>3, <3>4
    <2> HIDE DEF All
    <2>4. All = Nat
      BY <2>2, <2>3, NatSetInduction
    <2> QED BY <2>4 DEF All
  <1>2. ASSUME NEW n \in 0..N PROVE n \in T
    <2>1. n \in Nat /\ ~(n > N)
      OBVIOUS
    <2> QED BY <2>1, <1>1
  <1> QED BY <1>2

\* The loop has a view after each slot.
LEMMA ViewOfSteps ==
  ASSUME NEW q, Len(q) \in Nat
  PROVE  \E f : /\ f = [i \in 0..Len(q) |->
                          IF i = 0 THEN EmptyView ELSE PutSlot(f[i - 1], q[i])]
                /\ ViewOf(q) = f[Len(q)]
  <1> DEFINE N == Len(q)
             Loop(n, f) == f = [i \in 0..n |->
                                 IF i = 0 THEN EmptyView ELSE PutSlot(f[i - 1], q[i])]
             Does == {n \in 0..N : \E f : Loop(n, f)}
  <1>1. 0 \in Does
    <2>1. Loop(0, [i \in 0..0 |-> EmptyView])
      OBVIOUS
    <2> HIDE DEF Loop
    <2> QED BY <2>1
  <1>2. ASSUME NEW n \in Does, n < N PROVE n + 1 \in Does
    <2>1. n \in Nat /\ n + 1 \in 0..N
      BY <1>2
    <2>2. PICK f : Loop(n, f)
      OBVIOUS
    <2> DEFINE g == [i \in 0..(n + 1) |->
                       IF i = n + 1 THEN PutSlot(f[n], q[n + 1]) ELSE f[i]]
    <2>3. ASSUME NEW i \in 0..(n + 1)
          PROVE  g[i] = IF i = 0 THEN EmptyView ELSE PutSlot(g[i - 1], q[i])
      <3>1. CASE i = n + 1
        BY <2>1, <3>1
      <3>2. CASE i \in 0..n
        BY <2>1, <2>2, <3>2
      <3> QED BY <2>1, <3>1, <3>2
    <2>4. Loop(n + 1, g)
      BY <2>3
    <2> HIDE DEF Loop, g
    <2> QED BY <2>1, <2>4
  <1>3. \E f : Loop(N, f)
    <2> HIDE DEF Loop
    <2>1. Does = 0..N
      BY <1>1, <1>2, Induction
    <2> QED BY <2>1
  <1> QED BY <1>3 DEF ViewOf

LEMMA ViewOfIsView ==
  ASSUME NEW n \in Nat, NEW q \in [1..n -> Slot]
  PROVE  IsView(ViewOf(q))
  <1>1. q \in Seq(Slot) /\ Len(q) = n
    OBVIOUS
  <1>2. PICK f : /\ f = [i \in 0..n |->
                           IF i = 0 THEN EmptyView ELSE PutSlot(f[i - 1], q[i])]
                 /\ ViewOf(q) = f[n]
    BY <1>1, ViewOfSteps
  <1> DEFINE Does == {i \in 0..n : IsView(f[i])}
  <1>3. 0 \in Does
    <2>1. IsView(EmptyView)
      BY DEF IsView, EmptyView
    <2> QED BY <1>2, <2>1
  <1>4. ASSUME NEW i \in Does, i < n PROVE i + 1 \in Does
    <2>1. f[i + 1] = PutSlot(f[i], q[i + 1]) /\ q[i + 1] \in Slot /\ i + 1 \in 0..n
      BY <1>2, <1>4
    <2> QED BY <2>1, PutSlotIsView
  <1>5. Does = 0..n
    BY <1>3, <1>4, Induction
  <1>6. n \in Does
    BY <1>5
  <1> QED BY <1>2, <1>6

\* The view of tasks that do not overlap is exact, in whatever order they come.
LEMMA ViewOfIsExact ==
  ASSUME NEW S \in SUBSET Slot, IsFiniteSet(S), Disjoint(S), NEW q \in SetToSeqs(S)
  PROVE  ShowsExactly(ViewOf(q), S)
  <1> DEFINE n == Cardinality(S)
             First(i) == {q[j] : j \in 1..i}
  <1>1. /\ n \in Nat /\ q \in [1..n -> S] /\ q \in Seq(S) /\ Len(q) = n
        /\ \A i, j \in 1..n : i # j => q[i] # q[j]
    BY FS_CardinalityType DEF SetToSeqs
  <1> HIDE DEF n
  <1>2. PICK f : /\ f = [i \in 0..n |->
                           IF i = 0 THEN EmptyView ELSE PutSlot(f[i - 1], q[i])]
                 /\ ViewOf(q) = f[n]
    BY <1>1, ViewOfSteps
  <1> DEFINE Does == {i \in 0..n : ShowsExactly(f[i], First(i))}
  <1>3. 0 \in Does
    <2>1. ShowsExactly(EmptyView, First(0))
      BY DEF ShowsExactly, EmptyView
    <2> QED BY <1>1, <1>2, <2>1
  <1>4. ASSUME NEW i \in Does, i < n PROVE i + 1 \in Does
    <2>1. f[i + 1] = PutSlot(f[i], q[i + 1]) /\ q[i + 1] \in Slot /\ i + 1 \in 0..n
      BY <1>1, <1>2, <1>4
    <2>2. First(i + 1) = First(i) \cup {q[i + 1]} /\ First(i + 1) \subseteq S
      BY <1>1, <1>4
    <2>3. \A t \in First(i) : t # q[i + 1]
      BY <1>1, <1>4
    <2>4. ASSUME NEW t \in First(i) PROVE t.start # q[i + 1].start
      <3>1. ~Meet(t, q[i + 1]) /\ t \in Slot
        BY <2>2, <2>3 DEF Disjoint
      <3>2. t.start \in Occupies(t) /\ q[i + 1].start \in Occupies(q[i + 1])
        BY <2>1, <3>1, FilledRest
      <3> QED BY <3>1, <3>2 DEF Meet
    <2>5. Disjoint(First(i + 1))
      BY <2>2 DEF Disjoint
    <2>6. First(i) \in SUBSET Slot /\ ShowsExactly(f[i], First(i))
      BY <2>2
    <2>7. ShowsExactly(f[i + 1], First(i + 1))
      <3> HIDE DEF First
      <3> QED BY <2>1, <2>2, <2>4, <2>5, <2>6, PutSlotExact
    <2> QED BY <2>1, <2>7
  <1>5. Does = 0..n
    BY <1>1, <1>3, <1>4, Induction
  <1>6. First(n) = S
    <2>1. q \in Injection(1..n, S)
      BY <1>1 DEF Injection, IsInjective
    <2>2. IsFiniteSet(1..n) /\ Cardinality(1..n) = Cardinality(S)
      BY <1>1, FS_Interval DEF n
    <2>3. q \in Surjection(1..n, S)
      BY <2>1, <2>2, FS_Injection
    <2> QED BY <1>1, <2>3 DEF Surjection
  <1> QED BY <1>1, <1>2, <1>5, <1>6

-----------------------------------------------------------------------------
\* The views of a response

LEMMA SlotIsFinite == IsFiniteSet(Slot)
  <1> DEFINE f == [s \in Slot |-> <<s.start, s.duration>>]
  <1>1. IsFiniteSet(Hour \X (1..Hours))
    <2>1. IsFiniteSet(Hour) /\ IsFiniteSet(1..Hours)
      BY FS_Interval, HoursAssumption DEF Hour
    <2> QED BY <2>1, FS_Product
  <1>2. f \in [Slot -> Hour \X (1..Hours)]
    BY DEF Slot
  <1>3. ASSUME NEW s \in Slot, NEW t \in Slot, f[s] = f[t] PROVE s = t
    BY <1>3 DEF Slot
  <1>4. f \in Injection(Slot, Hour \X (1..Hours))
    BY <1>2, <1>3 DEF Injection, IsInjective
  <1> QED BY <1>1, <1>4, FS_Injection

LEMMA ViewsAreViews ==
  ASSUME NEW S \in SUBSET Slot
  PROVE  \A view \in Views(S) : IsView(view)
  <1> SUFFICES ASSUME NEW q \in SetToSeqs(S) PROVE IsView(ViewOf(q))
    BY DEF Views
  <1>1. IsFiniteSet(S)
    BY SlotIsFinite, FS_Subset
  <1>2. Cardinality(S) \in Nat /\ q \in [1..Cardinality(S) -> Slot]
    BY <1>1, FS_CardinalityType DEF SetToSeqs
  <1> QED BY <1>2, ViewOfIsView

LEMMA ExactViewsAreEqual ==
  ASSUME NEW S \in SUBSET Slot, NEW v, NEW w, IsView(v), IsView(w),
         ShowsExactly(v, S), ShowsExactly(w, S)
  PROVE  v = w
  <1>1. DOMAIN v = DOMAIN w
    BY DEF ShowsExactly
  <1>2. ASSUME NEW h \in DOMAIN v PROVE v[h] = w[h]
    <2>1. CASE \A s \in S : s.start # h
      BY <2>1, <1>1 DEF ShowsExactly
    <2>2. ASSUME NEW s \in S, s.start = h PROVE v[h] = w[h]
      BY <2>2 DEF ShowsExactly
    <2> QED BY <2>1, <2>2
  <1> QED BY <1>1, <1>2 DEF IsView

\* Tasks that do not overlap have one view, in whatever order they come.
LEMMA OneView ==
  ASSUME NEW S \in SUBSET Slot, Disjoint(S), NEW view \in Views(S)
  PROVE  ShowsExactly(view, S) /\ Views(S) = {view}
  <1>1. IsFiniteSet(S)
    BY SlotIsFinite, FS_Subset
  <1>2. ASSUME NEW v \in Views(S) PROVE ShowsExactly(v, S) /\ IsView(v)
    BY <1>1, <1>2, ViewOfIsExact, ViewsAreViews DEF Views
  <1>3. \A v \in Views(S) : v = view
    BY <1>2, ExactViewsAreEqual
  <1> QED BY <1>2, <1>3

=============================================================================
