--------------------------- MODULE DashboardProofs ---------------------------
(***************************************************************************)
(* Theorems about Dashboard, for any pages, a day of any length and any    *)
(* number of requests and responses under way and of late requests.        *)
(***************************************************************************)
EXTENDS ScheduleViewProofs, Dashboard

-----------------------------------------------------------------------------
\* Bags of messages.

LEMMA InCopies ==
  ASSUME NEW b
  PROVE  \A x : x \in Copies(b) <=> \E e \in DOMAIN b : \E i \in 1..b[e] : x = <<e, i>>
  BY DEF Copies, BagToSet

LEMMA AddedFacts ==
  ASSUME NEW b, IsABag(b), NEW m
  PROVE  /\ IsABag(b (+) SetToBag({m}))
         /\ BagToSet(b (+) SetToBag({m})) = BagToSet(b) \cup {m}
         /\ \E c : /\ c \notin Copies(b)
                  /\ Copies(b (+) SetToBag({m})) = Copies(b) \cup {c}
  <1> DEFINE count(e) == IF e \in DOMAIN b THEN b[e] ELSE 0
             new == b (+) SetToBag({m})
             c == <<m, count(m) + 1>>
  <1>1. \A e \in DOMAIN b : b[e] \in Nat /\ b[e] > 0
    BY DEF IsABag
  <1>2. /\ DOMAIN new = DOMAIN b \cup {m}
        /\ \A e \in DOMAIN b : e # m => new[e] = b[e]
        /\ new[m] = count(m) + 1
        /\ new = [e \in DOMAIN new |-> new[e]]
    BY <1>1 DEF (+), SetToBag
  <1>3. count(m) \in Nat
    BY <1>1
  <1> HIDE DEF new, count
  <1>4. c \notin Copies(b)
    <2>1. m \in DOMAIN b => count(m) = b[m]
      BY DEF count
    <2>2. \A i \in 1..count(m) : i # count(m) + 1
      BY <1>3
    <2> QED BY <2>1, <2>2, InCopies
  <1>5. IsABag(new)
    BY <1>1, <1>2, <1>3 DEF IsABag
  <1>6. ASSUME NEW e \in DOMAIN new, NEW i \in 1..new[e]
        PROVE  <<e, i>> \in Copies(b) \cup {c}
    <2>1. CASE e # m
      BY <2>1, <1>2, <1>6, InCopies
    <2>2. CASE e = m /\ i = count(m) + 1
      BY <2>2
    <2>3. CASE e = m /\ i # count(m) + 1
      <3>1. i \in 1..count(m)
        BY <2>3, <1>2, <1>3
      <3>2. m \in DOMAIN b /\ count(m) = b[m]
        BY <3>1 DEF count
      <3> QED BY <3>1, <3>2, <2>3, InCopies
    <2> QED BY <2>1, <2>2, <2>3
  <1>7. ASSUME NEW e \in DOMAIN b, NEW i \in 1..b[e]
        PROVE  <<e, i>> \in Copies(new)
    <2>1. e \in DOMAIN new /\ i \in 1..new[e]
      <3>1. e = m => new[e] = b[e] + 1
        BY <1>2 DEF count
      <3> QED BY <3>1, <1>1, <1>2, <1>7
    <2> QED BY <2>1, InCopies
  <1>8. c \in Copies(new)
    <2>1. count(m) + 1 \in 1..new[m] /\ m \in DOMAIN new
      BY <1>2, <1>3
    <2> QED BY <2>1, InCopies
  <1>9. Copies(new) = Copies(b) \cup {c}
    <2>1. \A x \in Copies(new) : x \in Copies(b) \cup {c}
      BY <1>6, InCopies
    <2>2. \A x \in Copies(b) : x \in Copies(new)
      BY <1>7, InCopies
    <2> QED BY <2>1, <2>2, <1>8
  <1> QED BY <1>2, <1>4, <1>5, <1>9 DEF BagToSet, new

LEMMA RemovedFacts ==
  ASSUME NEW b, IsABag(b), NEW m \in BagToSet(b)
  PROVE  /\ IsABag(b (-) SetToBag({m}))
         /\ BagToSet(b (-) SetToBag({m})) \subseteq BagToSet(b)
         /\ \E c \in Copies(b) : Copies(b (-) SetToBag({m})) = Copies(b) \ {c}
  <1> DEFINE new == b (-) SetToBag({m})
             c == <<m, b[m]>>
  <1>1. /\ m \in DOMAIN b
        /\ \A e \in DOMAIN b : b[e] \in Nat /\ b[e] > 0
    BY DEF IsABag, BagToSet
  <1>2. /\ DOMAIN new = {e \in DOMAIN b : e = m => b[m] > 1}
        /\ \A e \in DOMAIN new : new[e] = IF e = m THEN b[m] - 1 ELSE b[e]
        /\ new = [e \in DOMAIN new |-> new[e]]
    BY <1>1 DEF (-), SetToBag
  <1>3. c \in Copies(b)
    BY <1>1 DEF Copies, BagToSet
  <1> HIDE DEF new
  <1>4. IsABag(new)
    BY <1>1, <1>2 DEF IsABag
  <1>5. ASSUME NEW e \in DOMAIN new, NEW i \in 1..new[e]
        PROVE  <<e, i>> \in Copies(b) \ {c}
    <2>1. e \in DOMAIN b /\ i \in 1..b[e] /\ (e = m => i # b[m])
      BY <1>1, <1>2, <1>5
    <2> QED BY <2>1, InCopies
  <1>6. ASSUME NEW e \in DOMAIN b, NEW i \in 1..b[e], <<e, i>> # c
        PROVE  <<e, i>> \in Copies(new)
    <2>1. CASE e # m
      BY <2>1, <1>2, <1>6, InCopies
    <2>2. CASE e = m
      <3>1. i # b[m]
        BY <2>2, <1>6
      <3>2. m \in DOMAIN new /\ i \in 1..new[m]
        BY <3>1, <2>2, <1>1, <1>2
      <3> QED BY <2>2, <3>2, InCopies
    <2> QED BY <2>1, <2>2
  <1>7. Copies(new) = Copies(b) \ {c}
    <2>1. \A x \in Copies(new) : x \in Copies(b) \ {c}
      BY <1>5, InCopies
    <2>2. \A x \in Copies(b) \ {c} : x \in Copies(new)
      BY <1>6, InCopies
    <2> QED BY <2>1, <2>2
  <1> QED BY <1>2, <1>3, <1>4, <1>7 DEF BagToSet, new

\* What TypeOK says of the bag, and that it can be counted.
Counted(b) ==
    /\ IsABag(b) /\ BagToSet(b) \subseteq Requests \cup Responses
    /\ IsFiniteSet(Copies(b)) /\ Cardinality(Copies(b)) <= MaxInFlight

LEMMA AddCounted ==
  ASSUME NEW b, Counted(b), Cardinality(Copies(b)) < MaxInFlight,
         NEW m \in Requests \cup Responses
  PROVE  Counted(b (+) SetToBag({m}))
  <1>1. PICK c : c \notin Copies(b) /\ Copies(b (+) SetToBag({m})) = Copies(b) \cup {c}
    BY AddedFacts DEF Counted
  <1>2. /\ IsFiniteSet(Copies(b (+) SetToBag({m})))
        /\ Cardinality(Copies(b (+) SetToBag({m}))) = Cardinality(Copies(b)) + 1
        /\ Cardinality(Copies(b)) \in Nat
    <2> DEFINE C == Copies(b)
               D == Copies(b (+) SetToBag({m}))
    <2>1. IsFiniteSet(C) /\ c \notin C /\ D = C \cup {c}
      BY <1>1 DEF Counted
    <2> HIDE DEF C, D
    <2>2. IsFiniteSet(D) /\ Cardinality(D) = Cardinality(C) + 1 /\ Cardinality(C) \in Nat
      BY <2>1, FS_AddElement, FS_CardinalityType
    <2> QED BY <2>2 DEF C, D
  <1>3. IsABag(b (+) SetToBag({m})) /\ BagToSet(b (+) SetToBag({m})) = BagToSet(b) \cup {m}
    BY AddedFacts DEF Counted, BagToSet
  <1> QED BY <1>2, <1>3, MaxInFlightAssumption DEF Counted

LEMMA RemoveCounted ==
  ASSUME NEW b, Counted(b), NEW m \in BagToSet(b)
  PROVE  Counted(b (-) SetToBag({m})) /\ Cardinality(Copies(b (-) SetToBag({m}))) < MaxInFlight
  <1>1. PICK c \in Copies(b) : Copies(b (-) SetToBag({m})) = Copies(b) \ {c}
    BY RemovedFacts DEF Counted, BagToSet
  <1>2. /\ IsFiniteSet(Copies(b (-) SetToBag({m})))
        /\ Cardinality(Copies(b (-) SetToBag({m}))) = Cardinality(Copies(b)) - 1
        /\ Cardinality(Copies(b)) \in Nat
    <2> DEFINE C == Copies(b)
               D == Copies(b (-) SetToBag({m}))
    <2>1. IsFiniteSet(C) /\ c \in C /\ D = C \ {c}
      BY <1>1 DEF Counted
    <2> HIDE DEF C, D
    <2>2. IsFiniteSet(D) /\ Cardinality(D) = Cardinality(C) - 1 /\ Cardinality(C) \in Nat
      BY <2>1, FS_RemoveElement, FS_CardinalityType
    <2> QED BY <2>2 DEF C, D
  <1>3. IsABag(b (-) SetToBag({m})) /\ BagToSet(b (-) SetToBag({m})) \subseteq BagToSet(b)
    BY RemovedFacts DEF Counted, BagToSet
  <1>4. Cardinality(Copies(b)) <= MaxInFlight
    BY DEF Counted
  <1>5. /\ Cardinality(Copies(b (-) SetToBag({m}))) <= MaxInFlight
        /\ Cardinality(Copies(b (-) SetToBag({m}))) < MaxInFlight
    BY <1>2, <1>4, MaxInFlightAssumption
  <1> QED BY <1>2, <1>3, <1>5 DEF Counted

LEMMA RespondCounted ==
  ASSUME Counted(inFlight), NEW m \in BagToSet(inFlight),
         NEW r \in Requests \cup Responses, Respond(m, r)
  PROVE  Counted(inFlight)'
  <1>1. Counted((inFlight (-) SetToBag({m})) (+) SetToBag({r}))
    BY RemoveCounted, AddCounted
  <1>2. PICK b : b = (inFlight (-) SetToBag({m})) (+) SetToBag({r})
    OBVIOUS
  <1>3. Counted(b) /\ inFlight' = b
    BY <1>1, <1>2 DEF Respond
  <1> QED BY <1>3 DEF Counted, Copies, BagToSet, IsABag

LEMMA SendCounted ==
  ASSUME Counted(inFlight), NEW m \in Requests, Send(m)
  PROVE  Counted(inFlight)'
  <1>1. Counted(inFlight (+) SetToBag({m}))
    BY AddCounted DEF Send
  <1>2. PICK b : b = inFlight (+) SetToBag({m})
    OBVIOUS
  <1>3. Counted(b) /\ inFlight' = b
    BY <1>1, <1>2 DEF Send
  <1> QED BY <1>3 DEF Counted, Copies, BagToSet, IsABag

LEMMA ReceiveCounted ==
  ASSUME Counted(inFlight), NEW m \in BagToSet(inFlight),
         inFlight' = inFlight (-) SetToBag({m})
  PROVE  Counted(inFlight)'
  <1>1. Counted(inFlight (-) SetToBag({m}))
    BY RemoveCounted
  <1>2. PICK b : b = inFlight (-) SetToBag({m})
    OBVIOUS
  <1>3. Counted(b) /\ inFlight' = b
    BY <1>1, <1>2
  <1> QED BY <1>3 DEF Counted, Copies, BagToSet, IsABag

LEMMA SameCounted ==
  ASSUME Counted(inFlight), UNCHANGED inFlight
  PROVE  Counted(inFlight)'
  BY DEF Counted, Copies, BagToSet, IsABag

\* What TypeOK says of the late requests.
LateOK == Counted(late) /\ BagToSet(late) \subseteq Writes

LEMMA SameLate == LateOK /\ UNCHANGED late => LateOK'
  BY DEF LateOK, Counted, Copies, BagToSet, IsABag

LEMMA MoreLate ==
  ASSUME LateOK, NEW m \in Writes, Cardinality(Copies(late)) < MaxInFlight,
         late' = late (+) SetToBag({m})
  PROVE  LateOK'
  <1>1. PICK b : b = late (+) SetToBag({m})
    OBVIOUS
  <1>2. Counted(b)
    BY <1>1, AddCounted DEF LateOK, Requests
  <1>3. BagToSet(b) = BagToSet(late) \cup {m}
    BY <1>1, AddedFacts DEF LateOK, Counted
  <1>4. Counted(b) /\ BagToSet(b) \subseteq Writes /\ late' = b
    BY <1>1, <1>2, <1>3 DEF LateOK
  <1> QED BY <1>4 DEF LateOK, Counted, Copies, BagToSet, IsABag

LEMMA FewerLate ==
  ASSUME LateOK, NEW m \in BagToSet(late), late' = late (-) SetToBag({m})
  PROVE  LateOK'
  <1>1. PICK b : b = late (-) SetToBag({m})
    OBVIOUS
  <1>2. Counted(b)
    BY <1>1, RemoveCounted DEF LateOK
  <1>3. BagToSet(b) \subseteq BagToSet(late)
    BY <1>1, RemovedFacts DEF LateOK, Counted
  <1>4. Counted(b) /\ BagToSet(b) \subseteq Writes /\ late' = b
    BY <1>1, <1>2, <1>3 DEF LateOK
  <1> QED BY <1>4 DEF LateOK, Counted, Copies, BagToSet, IsABag

-----------------------------------------------------------------------------
\* Types

\* TypeOK alone is not inductive: an open modal has a task, whose hour goes into
\* the request.
Typed ==
    /\ tasks \in [Page -> TaskSet]
    /\ page \in Page
    /\ IsView(schedule)
    /\ modal \in [start : Hour \cup {Closed}, overlaps : SUBSET Hour,
                  hours : Hour \X Hour]
    /\ AtTable \/ modal.start \in Hour
    /\ Counted(inFlight) /\ LateOK
    /\ careful \in BOOLEAN /\ patient \in BOOLEAN /\ overtaken \in BOOLEAN

LEMMA TypedIsTypeOK == Typed => TypeOK
  BY DEF Typed, TypeOK, LateOK, Counted

LEMMA MessageTypes ==
  ASSUME NEW m \in Requests \cup Responses
  PROVE  /\ m.type \in {"ReadSchedule", "CreateTask", "DeleteTask", "UpdateTask",
                        "schedule", "done", "error"}
         /\ m.type \notin {"schedule", "error"} => m.page \in Page
         /\ m.type \in {"CreateTask", "UpdateTask"} => m.slot \in Slot
         /\ m.type \in {"DeleteTask", "UpdateTask"} => m.start \in Hour
         /\ m.type = "UpdateTask" => m.overlaps \in SUBSET Hour
         /\ m.type = "schedule" => m.slots \in SUBSET Slot
  BY DEF Requests, Writes, Responses

LEMMA NewSlotIsSlot ==
  ASSUME NEW start \in Hour, NEW end \in Hour, TaskDuration(start, end) > 0
  PROVE  /\ NewSlot(start, end) \in Slot
         /\ NewSlot(start, end).start = start
         /\ end # 0 => /\ start < end
                       /\ NewSlot(start, end) = [start |-> start, duration |-> end - start]
  BY HoursAssumption DEF NewSlot, TaskDuration, Slot, Hour

LEMMA FewerTasks ==
  ASSUME NEW S \in TaskSet, NEW T \in SUBSET S
  PROVE  T \in TaskSet
  BY DEF TaskSet, OnePerHour

LEMMA OneMoreTask ==
  ASSUME NEW S \in TaskSet, NEW s \in Slot, \A t \in S : t.start # s.start
  PROVE  S \cup {s} \in TaskSet
  BY DEF TaskSet, OnePerHour

LEMMA InitTyped == Init => Typed
  <1> SUFFICES ASSUME Init PROVE Typed
    OBVIOUS
  <1> DEFINE m == [type |-> "ReadSchedule", page |-> page]
  <1>1. inFlight = [e \in {m} |-> 1] /\ page \in Page
    BY DEF Init, SetToBag
  <1>2. m \in Requests
    BY <1>1 DEF Requests
  <1> HIDE DEF m
  <1>3. IsABag(inFlight) /\ BagToSet(inFlight) \subseteq Requests \cup Responses
    BY <1>1, <1>2 DEF IsABag, BagToSet
  <1>4. Copies(inFlight) = {<<m, 1>>}
    <2>1. 1..1 = {1}
      OBVIOUS
    <2> QED BY <1>1, <2>1, InCopies
  <1>5. IsFiniteSet(Copies(inFlight)) /\ Cardinality(Copies(inFlight)) <= MaxInFlight
    <2>1. IsFiniteSet({<<m, 1>>}) /\ Cardinality({<<m, 1>>}) = 1
      BY FS_Singleton
    <2> QED BY <1>4, <2>1, MaxInFlightAssumption
  <1>6. tasks \in [Page -> TaskSet] /\ IsView(schedule)
    BY DEF Init, TaskSet, OnePerHour, IsView, EmptyView
  <1>7. modal \in [start : Hour \cup {Closed}, overlaps : SUBSET Hour,
                   hours : Hour \X Hour]
    BY HoursAssumption DEF Init, NoModal, Hour
  <1>8. LateOK
    <2>1. DOMAIN late = {} /\ late = [e \in DOMAIN late |-> 1]
      BY DEF Init, EmptyBag, SetToBag
    <2>2. IsABag(late) /\ BagToSet(late) = {}
      BY <2>1 DEF IsABag, BagToSet
    <2>3. Copies(late) = {}
      BY <2>1, InCopies
    <2>4. IsFiniteSet(Copies(late)) /\ Cardinality(Copies(late)) = 0
      BY <2>3, FS_EmptySet
    <2> QED BY <2>2, <2>4, MaxInFlightAssumption DEF LateOK, Counted
  <1> QED BY <1>1, <1>3, <1>5, <1>6, <1>7, <1>8 DEF Typed, Counted, AtTable, Init

\* What the user does leaves the server's tasks alone.
LEMMA UserTyped == Typed /\ User => Typed'
  <1> SUFFICES ASSUME Typed, User PROVE Typed'
    OBVIOUS
  <1>1. NoModal \in [start : Hour \cup {Closed}, overlaps : SUBSET Hour,
                     hours : Hour \X Hour]
    BY HoursAssumption DEF NoModal, Hour
  <1>2. \A h \in Shown : h \in Hour
    BY DEF Shown, Typed, IsView
  <1>9. LateOK /\ (UNCHANGED late => LateOK')
    BY SameLate DEF Typed
  <1>3. ASSUME NEW p \in Page, Select(p) PROVE Typed'
    <2>1. [type |-> "ReadSchedule", page |-> p] \in Requests
      BY DEF Requests
    <2>2. Counted(inFlight)'
      BY <1>3, <2>1, SendCounted DEF Select, Typed
    <2> QED BY <1>9, <1>3, <2>2 DEF Select, server, Careful, Typed, AtTable, IsView
  <1>4. ASSUME NEW start \in Hour, NEW end \in Hour, Submit(start, end) PROVE Typed'
    <2>1. [type |-> "CreateTask", page |-> page, slot |-> NewSlot(start, end)] \in Requests
      BY <1>4, NewSlotIsSlot DEF Requests, Writes, Submit, CanCreate, Typed
    <2>2. Counted(inFlight)'
      BY <1>4, <2>1, SendCounted DEF Submit, Typed
    <2> QED BY <1>9, <1>4, <2>2 DEF Submit, server, Careful, Typed, AtTable, IsView
  <1>5. ASSUME NEW h \in Hour, ClickDelete(h) PROVE Typed'
    <2>1. [type |-> "DeleteTask", page |-> page, start |-> h] \in Requests
      BY DEF Requests, Writes, Typed
    <2>2. Counted(inFlight)'
      BY <1>5, <2>1, SendCounted DEF ClickDelete, Typed
    <2> QED BY <1>9, <1>5, <2>2 DEF ClickDelete, server, Careful, Typed, AtTable, IsView
  <1>6. ASSUME NEW start \in Hour, NEW end \in Hour, NEW h \in Hour,
               ClickEdit(h, start, end)
        PROVE  Typed'
    <2>1. Conflicts(schedule, start, end) \subseteq Hour
      BY DEF Conflicts, Typed, IsView
    <2>2. modal' \in [start : Hour \cup {Closed}, overlaps : SUBSET Hour,
                      hours : Hour \X Hour]
          /\ modal'.start \in Hour
      BY <1>1, <1>6, <2>1 DEF ClickEdit, NoModal
    <2>3. Counted(inFlight)'
      BY <1>6, SameCounted DEF ClickEdit, Typed
    <2> QED BY <1>9, <1>6, <2>2, <2>3 DEF ClickEdit, server, Careful, Typed, IsView
  <1>7. ASSUME NEW start \in Hour, NEW end \in Hour, SubmitUpdate(start, end)
        PROVE  Typed'
    <2>1. modal.start \in Hour /\ modal.overlaps \in SUBSET Hour
      BY <1>7 DEF SubmitUpdate, Typed
    <2>2. [type |-> "UpdateTask", page |-> page, start |-> modal.start,
           overlaps |-> modal.overlaps, slot |-> NewSlot(start, end)] \in Requests
      BY <1>7, <2>1, NewSlotIsSlot DEF Requests, Writes, SubmitUpdate, Typed
    <2>3. Counted(inFlight)'
      BY <1>7, <2>2, SendCounted DEF SubmitUpdate, Typed
    <2> QED BY <1>9, <1>1, <1>7, <2>3 DEF SubmitUpdate, server, Careful, Typed, AtTable, IsView, NoModal
  <1>8. ASSUME CloseModal PROVE Typed'
    <2>1. Counted(inFlight)'
      BY <1>8, SameCounted DEF CloseModal, Typed
    <2> QED BY <1>9, <1>1, <1>8, <2>1 DEF CloseModal, server, Typed, AtTable, IsView, user, NoModal
  <1> QED BY <1>3, <1>4, <1>5, <1>6, <1>7, <1>8 DEF User

\* What the server may make of a request.
LEMMA OutcomeTypes ==
  ASSUME Typed, NEW m \in Requests, NEW o \in Outcomes(m)
  PROVE  m.page \in Page /\ o.tasks \in TaskSet /\ o.answer \in Responses
  <1>1. /\ m.type \in {"ReadSchedule", "CreateTask", "DeleteTask", "UpdateTask"}
        /\ m.page \in Page
    BY MessageTypes DEF Requests, Writes
  <1>2. tasks[m.page] \in TaskSet
    BY <1>1 DEF Typed
  <1>3. \A H : Without(m.page, H) \in TaskSet
    BY <1>2, FewerTasks DEF Without
  <1>4. \A S \in TaskSet : \A r \in {Done(m, S), Refused(S)} :
          r.tasks \in TaskSet /\ r.answer \in Responses
    BY <1>1 DEF Done, Refused, Outcome, Responses
  <1>5. CASE m.type = "ReadSchedule"
    <2>1. o = Outcome(tasks[m.page], [type |-> "schedule", slots |-> tasks[m.page]])
      BY <1>5 DEF Outcomes, Reading
    <2>2. [type |-> "schedule", slots |-> tasks[m.page]] \in Responses
      BY <1>2 DEF Responses, TaskSet
    <2> QED BY <1>1, <1>2, <2>1, <2>2 DEF Outcome
  <1>6. CASE m.type = "CreateTask"
    <2>1. m.slot \in Slot
      BY <1>6, MessageTypes
    <2>2. m.slot.start \notin Starts(m.page) => tasks[m.page] \cup {m.slot} \in TaskSet
      BY <1>2, <2>1, OneMoreTask DEF Starts
    <2>3. o \in Creating(m)
      BY <1>6 DEF Outcomes
    <2> QED BY <1>1, <1>2, <1>4, <2>2, <2>3 DEF Creating
  <1>7. CASE m.type = "DeleteTask"
    <2>1. o \in Deleting(m)
      BY <1>7 DEF Outcomes
    <2> QED BY <1>1, <1>2, <1>3, <1>4, <2>1 DEF Deleting
  <1>8. CASE m.type = "UpdateTask"
    <2> DEFINE rest == Without(m.page, OldHours(m))
    <2>1. m.slot \in Slot /\ rest \in TaskSet /\ o \in Updating(m)
      BY <1>3, <1>8, MessageTypes DEF Outcomes
    <2>2. \/ \E H : o = Refused(Without(m.page, H))
          \/ o = Refused(rest)
          \/ (~\E t \in rest : t.start = m.slot.start) /\ o = Done(m, rest \cup {m.slot})
      BY <2>1 DEF Updating
    <2> HIDE DEF rest
    <2>3. (~\E t \in rest : t.start = m.slot.start) => rest \cup {m.slot} \in TaskSet
      BY <2>1, OneMoreTask
    <2> QED BY <1>1, <1>3, <1>4, <2>1, <2>2, <2>3
  <1> QED BY <1>1, <1>5, <1>6, <1>7, <1>8

LEMMA LeavesTyped ==
  ASSUME Typed, NEW m \in Requests, NEW o \in Outcomes(m), Leaves(m, o)
  PROVE  tasks' \in [Page -> TaskSet]
  BY OutcomeTypes DEF Leaves, Typed

LEMMA ServeTyped ==
  ASSUME Typed, NEW m \in BagToSet(inFlight), Serve(m)
  PROVE  Typed'
  <1>1. PICK o \in Outcomes(m) : Leaves(m, o) /\ Respond(m, o.answer)
    BY DEF Serve
  <1>2. m \in Requests /\ o.answer \in Responses
    BY OutcomeTypes DEF Serve
  <1>3. tasks' \in [Page -> TaskSet]
    BY <1>1, <1>2, LeavesTyped
  <1>4. Counted(inFlight)'
    BY <1>1, <1>2, RespondCounted DEF Typed
  <1>5. LateOK'
    BY SameLate DEF Serve, Typed
  <1> QED BY <1>3, <1>4, <1>5 DEF Serve, Typed, AtTable, IsView, user

LEMMA ServeLateTyped ==
  ASSUME Typed, NEW m \in BagToSet(late), ServeLate(m)
  PROVE  Typed'
  <1>1. PICK o \in Outcomes(m) : Leaves(m, o)
    BY DEF ServeLate
  <1>2. m \in Requests
    BY DEF Typed, LateOK, Requests
  <1>3. tasks' \in [Page -> TaskSet]
    BY <1>1, <1>2, LeavesTyped
  <1>4. Counted(inFlight)'
    BY SameCounted DEF ServeLate, Typed
  <1>5. LateOK'
    BY FewerLate DEF ServeLate, Typed
  <1> QED BY <1>3, <1>4, <1>5 DEF ServeLate, Typed, AtTable, IsView, user

LEMMA AnswerTyped ==
  ASSUME Typed, NEW m \in BagToSet(inFlight),
         Lose(m) \/ ReceiveSchedule(m) \/ ReceiveDone(m) \/ ReceiveError(m)
  PROVE  Typed'
  <1>1. m \in Requests \cup Responses /\ Counted(inFlight)
    BY DEF Typed, Counted
  <1>6. LateOK /\ (UNCHANGED late => LateOK')
    BY SameLate DEF Typed
  <1>2. CASE Lose(m)
    <2>3. LateOK'
      <3>1. CASE UNCHANGED late
        BY <1>6, <3>1
      <3>2. CASE /\ m \in Writes /\ Cardinality(Copies(late)) < MaxInFlight
                 /\ late' = late (+) SetToBag({m})
        BY <1>6, <3>2, MoreLate
      <3> QED BY <1>2, <3>1, <3>2 DEF Lose
    <2>1. [type |-> "error"] \in Responses
      BY DEF Responses
    <2>2. Counted(inFlight)'
      BY <1>1, <1>2, <2>1, RespondCounted DEF Lose
    <2> QED BY <1>2, <2>2, <2>3 DEF Lose, Typed, AtTable, IsView
  <1>3. CASE ReceiveSchedule(m)
    <2>1. m.slots \in SUBSET Slot
      BY <1>1, <1>3, MessageTypes DEF ReceiveSchedule
    <2>2. PICK view \in Views(m.slots) : schedule' = view
      BY <1>3 DEF ReceiveSchedule
    <2>3. IsView(view)
      BY <2>1, <2>2, ViewsAreViews
    <2>4. IsView(schedule)'
      BY <2>2, <2>3 DEF IsView
    <2>5. Counted(inFlight)'
      BY <1>1, <1>3, ReceiveCounted DEF ReceiveSchedule
    <2> QED BY <1>3, <1>6, <2>4, <2>5 DEF ReceiveSchedule, server, Typed, AtTable, user
  <1>4. CASE ReceiveDone(m)
    <2>1. [type |-> "ReadSchedule", page |-> m.page] \in Requests
      BY <1>1, <1>4, MessageTypes DEF ReceiveDone, Requests
    <2>2. Counted(inFlight)'
      BY <1>1, <1>4, <2>1, RespondCounted DEF ReceiveDone
    <2> QED BY <1>4, <1>6, <2>2 DEF ReceiveDone, server, Typed, AtTable, IsView, user
  <1>5. CASE ReceiveError(m)
    <2>1. IsView(schedule)'
      BY <1>5 DEF ReceiveError, IsView, EmptyView
    <2>2. Counted(inFlight)'
      BY <1>1, <1>5, ReceiveCounted DEF ReceiveError
    <2> QED BY <1>5, <1>6, <2>1, <2>2 DEF ReceiveError, server, Typed, AtTable, user
  <1> QED BY <1>2, <1>3, <1>4, <1>5

LEMMA NextTyped == Typed /\ [Next]_vars => Typed'
  <1> SUFFICES ASSUME Typed, [Next]_vars PROVE Typed'
    OBVIOUS
  <1>1. CASE UNCHANGED vars
    <2>1. Counted(inFlight)'
      BY <1>1, SameCounted DEF vars, Typed
    <2>2. LateOK'
      BY <1>1, SameLate DEF vars, server, Typed
    <2> QED BY <1>1, <2>1, <2>2 DEF vars, server, user, Typed, AtTable, IsView
  <1> QED BY <1>1, UserTyped, ServeTyped, AnswerTyped, ServeLateTyped DEF Next

\* What TypeOK needs to be inductive: beside the types, the messages under way are
\* counted by numbers (the late requests too) and an open modal of the page is about an hour of its day.
THEOREM TypedHolds == Spec => []Typed
  BY InitTyped, NextTyped, PTL DEF Spec

\* The types of the page, of the server's tasks and of the messages under way, of
\* which there are at most MaxInFlight.
THEOREM TypeCorrect == Spec => []TypeOK
  BY TypedHolds, TypedIsTypeOK, PTL

-----------------------------------------------------------------------------
\* A user who waits

LEMMA OneMessage ==
  ASSUME NEW m
  PROVE  /\ EmptyBag (+) SetToBag({m}) = SetToBag({m})
         /\ SetToBag({m}) (-) SetToBag({m}) = EmptyBag
         /\ BagToSet(SetToBag({m})) = {m} /\ SetToBag({m}) # EmptyBag
         /\ BagToSet(EmptyBag) = {}
  <1>1. /\ SetToBag({m}) = [e \in {m} |-> 1]
        /\ EmptyBag = [e \in {} |-> 1]
    BY DEF SetToBag, EmptyBag
  <1>2. EmptyBag (+) SetToBag({m}) = SetToBag({m})
    <2> DEFINE new == EmptyBag (+) SetToBag({m})
    <2>1. \A A, B : A = EmptyBag /\ B = SetToBag({m}) =>
            /\ DOMAIN A = {} /\ DOMAIN B = {m} /\ B[m] = 1
            /\ DOMAIN A \cup DOMAIN B = {m}
      BY <1>1
    <2>2. new = [e \in {m} |-> 0 + 1]
      BY <2>1 DEF (+)
    <2> HIDE DEF new
    <2>3. new = [e \in {m} |-> 1]
      BY <2>2
    <2> QED BY <1>1, <2>3 DEF new
  <1>3. SetToBag({m}) (-) SetToBag({m}) = EmptyBag
    BY <1>1 DEF (-)
  <1> QED BY <1>1, <1>2, <1>3 DEF BagToSet

\* The message under way is about the page that is selected; a schedule is that of
\* the page, unless a late request has changed it since.
Concerns(m) ==
    /\ m.type \notin {"schedule", "error"} => m.page = page
    /\ m.type = "schedule" /\ ~overtaken => m.slots = tasks[page]

\* To a user who waits there is at most one message under way.
PatientInv ==
    patient =>
      /\ inFlight = EmptyBag /\ ~overtaken =>
           schedule \in Views(tasks[page]) \cup {EmptyView}
      /\ inFlight # EmptyBag =>
           \E m \in BagToSet(inFlight) : inFlight = SetToBag({m}) /\ Concerns(m)

LEMMA TheMessage ==
  ASSUME PatientInv, patient, NEW m \in BagToSet(inFlight)
  PROVE  inFlight = SetToBag({m}) /\ Concerns(m)
  <1>1. inFlight # EmptyBag
    BY OneMessage
  <1>2. PICK n \in BagToSet(inFlight) : inFlight = SetToBag({n}) /\ Concerns(n)
    BY <1>1 DEF PatientInv
  <1>3. BagToSet(SetToBag({n})) = {n}
    BY OneMessage
  <1> QED BY <1>2, <1>3

\* What is enough after a step that leaves a message.
LEMMA OneLeft ==
  ASSUME NEW r, inFlight' = SetToBag({r}), Concerns(r)'
  PROVE  PatientInv'
  BY OneMessage DEF PatientInv

LEMMA SendAlone ==
  ASSUME inFlight = EmptyBag, NEW m, Send(m)
  PROVE  inFlight' = SetToBag({m})
  BY OneMessage DEF Send

LEMMA RespondAlone ==
  ASSUME NEW m, inFlight = SetToBag({m}), NEW r, Respond(m, r)
  PROVE  inFlight' = SetToBag({r})
  BY OneMessage DEF Respond

LEMMA UserPatient == Typed /\ PatientInv /\ User => PatientInv'
  <1> SUFFICES ASSUME Typed, PatientInv, User, patient' PROVE PatientInv'
    BY DEF PatientInv
  <1>1. ASSUME NEW p \in Page, Select(p) PROVE PatientInv'
    <2> DEFINE m == [type |-> "ReadSchedule", page |-> p]
    <2>1. inFlight' = SetToBag({m})
      BY <1>1, SendAlone DEF Select, Careful
    <2>2. Concerns(m)'
      BY <1>1 DEF Select, Concerns
    <2> QED BY <2>1, <2>2, OneLeft
  <1>2. ASSUME NEW start \in Hour, NEW end \in Hour, Submit(start, end) PROVE PatientInv'
    <2> DEFINE m == [type |-> "CreateTask", page |-> page, slot |-> NewSlot(start, end)]
    <2>1. PICK r : r = m
      OBVIOUS
    <2>2. inFlight' = SetToBag({r})
      BY <1>2, <2>1, SendAlone DEF Submit, Careful
    <2>3. Concerns(r)'
      BY <1>2, <2>1 DEF Submit, Concerns
    <2> QED BY <2>2, <2>3, OneLeft
  <1>3. ASSUME NEW h \in Hour, ClickDelete(h) PROVE PatientInv'
    <2> DEFINE m == [type |-> "DeleteTask", page |-> page, start |-> h]
    <2>1. PICK r : r = m
      OBVIOUS
    <2>2. inFlight' = SetToBag({r})
      BY <1>3, <2>1, SendAlone DEF ClickDelete, Careful
    <2>3. Concerns(r)'
      BY <1>3, <2>1 DEF ClickDelete, Concerns
    <2> QED BY <2>2, <2>3, OneLeft
  <1>4. ASSUME NEW start \in Hour, NEW end \in Hour, NEW h \in Hour,
               ClickEdit(h, start, end)
        PROVE  PatientInv'
    BY <1>4 DEF ClickEdit, server, Careful, PatientInv
  <1>5. ASSUME NEW start \in Hour, NEW end \in Hour, SubmitUpdate(start, end)
        PROVE  PatientInv'
    <2> DEFINE m == [type |-> "UpdateTask", page |-> page, start |-> modal.start,
                     overlaps |-> modal.overlaps, slot |-> NewSlot(start, end)]
    <2>1. PICK r : r = m
      OBVIOUS
    <2>2. inFlight' = SetToBag({r})
      BY <1>5, <2>1, SendAlone DEF SubmitUpdate, Careful
    <2>3. Concerns(r)'
      BY <1>5, <2>1 DEF SubmitUpdate, Concerns
    <2> QED BY <2>2, <2>3, OneLeft
  <1>6. ASSUME CloseModal PROVE PatientInv'
    BY <1>6 DEF CloseModal, server, user, PatientInv, Concerns
  <1> QED BY <1>1, <1>2, <1>3, <1>4, <1>5, <1>6 DEF User

\* The answers a request may have.
LEMMA OutcomeAnswers ==
  ASSUME NEW m \in Requests, NEW o \in Outcomes(m)
  PROVE  \/ o.answer = [type |-> "error"]
         \/ /\ m.type # "ReadSchedule"
            /\ o.answer = [type |-> "done", page |-> m.page]
         \/ /\ m.type = "ReadSchedule"
            /\ o.tasks = tasks[m.page]
            /\ o.answer = [type |-> "schedule", slots |-> tasks[m.page]]
  <1>1. m.type \in {"ReadSchedule", "CreateTask", "DeleteTask", "UpdateTask"}
    BY DEF Requests, Writes
  <1>2. \A S : /\ Refused(S).answer = [type |-> "error"]
              /\ Done(m, S).answer = [type |-> "done", page |-> m.page]
    BY DEF Refused, Done, Outcome
  <1>3. CASE m.type = "ReadSchedule"
    BY <1>3 DEF Outcomes, Reading, Outcome
  <1>4. CASE m.type = "CreateTask"
    BY <1>2, <1>4 DEF Outcomes, Creating
  <1>5. CASE m.type = "DeleteTask"
    BY <1>2, <1>5 DEF Outcomes, Deleting
  <1>6. CASE m.type = "UpdateTask"
    <2>1. o \in Updating(m)
      BY <1>6 DEF Outcomes
    <2>2. \E S : o = Refused(S) \/ o = Done(m, S)
      BY <2>1 DEF Updating
    <2> QED BY <1>2, <1>6, <2>2
  <1> QED BY <1>1, <1>3, <1>4, <1>5, <1>6

\* The server's answer takes the place of the request, and a schedule is the page's.
LEMMA ServePatient ==
  ASSUME Typed, PatientInv, patient, NEW m \in BagToSet(inFlight), Serve(m)
  PROVE  PatientInv'
  <1>1. inFlight = SetToBag({m}) /\ Concerns(m)
    BY TheMessage
  <1>2. PICK o \in Outcomes(m) : Leaves(m, o) /\ Respond(m, o.answer)
    BY DEF Serve
  <1>3. PICK r : r = o.answer
    OBVIOUS
  <1>4. inFlight' = SetToBag({r})
    BY <1>1, <1>2, <1>3, RespondAlone
  <1>5. UNCHANGED page /\ m \in Requests
    BY DEF Serve
  <1>6. m.page = page
    <2>1. m.type \notin {"schedule", "error"}
      BY <1>5 DEF Requests, Writes
    <2> QED BY <1>1, <2>1 DEF Concerns
  <1>7. CASE r = [type |-> "error"]
    BY <1>4, <1>7, OneLeft DEF Concerns
  <1>8. CASE r = [type |-> "done", page |-> m.page]
    BY <1>4, <1>5, <1>6, <1>8, OneLeft DEF Concerns
  <1>9. CASE /\ o.tasks = tasks[m.page]
             /\ r = [type |-> "schedule", slots |-> tasks[m.page]]
    <2>1. tasks'[page] = tasks[page]
      BY <1>2, <1>6, <1>9 DEF Leaves, Typed
    <2>2. Concerns(r)'
      BY <1>5, <1>6, <1>9, <2>1 DEF Concerns
    <2> QED BY <1>4, <2>2, OneLeft
  <1> QED BY <1>3, <1>5, <1>7, <1>8, <1>9, OutcomeAnswers

\* What a late request changes has been overtaken.
LEMMA ServeLatePatient ==
  ASSUME PatientInv, NEW m \in BagToSet(late), ServeLate(m)
  PROVE  PatientInv'
  <1>1. /\ UNCHANGED <<page, schedule, inFlight, patient>>
        /\ ~overtaken' => ~overtaken /\ tasks'[page] = tasks[page]
    BY DEF ServeLate, user
  <1>2. \A n : Concerns(n) => Concerns(n)'
    BY <1>1 DEF Concerns
  <1> QED BY <1>1, <1>2 DEF PatientInv

LEMMA AnswerPatient ==
  ASSUME Typed, PatientInv, patient, NEW m \in BagToSet(inFlight),
         Lose(m) \/ ReceiveSchedule(m) \/ ReceiveDone(m) \/ ReceiveError(m)
  PROVE  PatientInv'
  <1>1. inFlight = SetToBag({m}) /\ Concerns(m)
    BY TheMessage
  <1>2. CASE Lose(m)
    <2>1. Concerns([type |-> "error"])'
      BY DEF Concerns
    <2> QED BY <1>1, <1>2, <2>1, RespondAlone, OneLeft DEF Lose
  <1>3. CASE ReceiveSchedule(m)
    <2>1. inFlight' = EmptyBag
      BY <1>1, <1>3, OneMessage DEF ReceiveSchedule
    <2>2. /\ ~overtaken => schedule' \in Views(tasks[page])
          /\ UNCHANGED <<tasks, page, overtaken>>
      BY <1>1, <1>3 DEF ReceiveSchedule, server, Concerns
    <2> QED BY <2>1, <2>2 DEF PatientInv
  <1>4. CASE ReceiveDone(m)
    <2> DEFINE r == [type |-> "ReadSchedule", page |-> m.page]
    <2>1. Concerns(r)'
      BY <1>1, <1>4 DEF ReceiveDone, Concerns
    <2> QED BY <1>1, <1>4, <2>1, RespondAlone, OneLeft DEF ReceiveDone
  <1>5. CASE ReceiveError(m)
    <2>1. inFlight' = EmptyBag
      BY <1>1, <1>5, OneMessage DEF ReceiveError
    <2> QED BY <1>5, <2>1 DEF ReceiveError, PatientInv
  <1> QED BY <1>2, <1>3, <1>4, <1>5

LEMMA InitPatient == Init => PatientInv
  <1> SUFFICES ASSUME Init PROVE PatientInv
    OBVIOUS
  <1> DEFINE m == [type |-> "ReadSchedule", page |-> page]
  <1>1. inFlight = SetToBag({m}) /\ Concerns(m)
    BY DEF Init, Concerns
  <1> HIDE DEF m
  <1> QED BY <1>1, OneMessage DEF PatientInv

LEMMA NextPatient == Typed /\ PatientInv /\ [Next]_vars => PatientInv'
  <1> SUFFICES ASSUME Typed, PatientInv, [Next]_vars, patient' PROVE PatientInv'
    BY DEF PatientInv
  <1>1. CASE UNCHANGED vars
    BY <1>1 DEF vars, server, user, PatientInv, Concerns
  <1>2. CASE User
    BY <1>2, UserPatient
  <1>3. ASSUME NEW m \in BagToSet(inFlight), Serve(m) PROVE PatientInv'
    <2>1. patient
      BY <1>3 DEF Serve, user
    <2> QED BY <1>3, <2>1, ServePatient
  <1>4. ASSUME NEW m \in BagToSet(inFlight),
               Lose(m) \/ ReceiveSchedule(m) \/ ReceiveDone(m) \/ ReceiveError(m)
        PROVE  PatientInv'
    <2>1. patient
      BY <1>4 DEF Lose, ReceiveSchedule, ReceiveDone, ReceiveError, user
    <2> QED BY <1>4, <2>1, AnswerPatient
  <1>5. ASSUME NEW m \in BagToSet(late), ServeLate(m) PROVE PatientInv'
    BY <1>5, ServeLatePatient
  <1> QED BY <1>1, <1>2, <1>3, <1>4, <1>5 DEF Next

\* A user who waits has at most one message under way, and it is about the page they
\* have selected (the page asks again only after the answer).
THEOREM PatientHolds == Spec => []PatientInv
  BY InitPatient, NextPatient, TypedHolds, PTL DEF Spec

\* To a user who waits, a settled timetable shows the tasks of the selected page or
\* nothing, whatever was refused, was lost or was served after it had been reported
\* failed (useRPC empties it after an error), unless a request served that late has
\* changed the page since it was last read: then it may be false, until it is read
\* again.
THEOREM ShownIsTrue == Spec => []NothingFalseShown
  <1>1. PatientInv => NothingFalseShown
    BY DEF PatientInv, NothingFalseShown
  <1> QED BY <1>1, PatientHolds, PTL

-----------------------------------------------------------------------------
\* A careful user

Fits(s, S) == \A t \in S : ~Meet(t, s)

\* No message is refused, and none makes tasks overlap: what it asks for is still
\* right when it is served.
Harmless(m) ==
    /\ m.type # "error"
    /\ m.type = "CreateTask" => Fits(m.slot, tasks[page])
    /\ m.type = "DeleteTask" => m.start \in Starts(page)
    /\ m.type = "UpdateTask" => /\ OldHours(m) \subseteq Starts(page)
                               /\ Fits(m.slot, Without(page, OldHours(m)))

\* While the modal is open nothing is under way, and its conflicts are those of the
\* hours it opened with.
ModalRight ==
    ~AtTable => /\ inFlight = EmptyBag
                /\ modal.start \in Starts(page)
                /\ modal.overlaps = Conflicts(schedule, modal.hours[1], modal.hours[2])

CarefulInv ==
    careful =>
      /\ patient
      /\ late = EmptyBag /\ ~overtaken
      /\ \A p \in Page : Disjoint(tasks[p])
      /\ inFlight = EmptyBag => schedule \in Views(tasks[page])
      /\ ModalRight
      /\ \A m \in BagToSet(inFlight) : Harmless(m)

LEMMA SettledTimetable ==
  ASSUME Typed, CarefulInv, careful, inFlight = EmptyBag
  PROVE  /\ tasks[page] \in SUBSET Slot /\ ShowsExactly(schedule, tasks[page])
         /\ Views(tasks[page]) = {schedule}
  <1>1. tasks[page] \in SUBSET Slot /\ Disjoint(tasks[page])
    BY DEF Typed, CarefulInv, TaskSet
  <1>2. schedule \in Views(tasks[page])
    BY DEF CarefulInv
  <1> QED BY <1>1, <1>2, OneView

\* The button of an hour is that of a task that starts there.
LEMMA ShownStarts ==
  ASSUME NEW S \in SUBSET Slot, ShowsExactly(schedule, S)
  PROVE  \A h \in Shown : \E s \in S : s.start = h
  BY DEF ShowsExactly, Shown

\* A task that shares no hour with another starts at another hour.
LEMMA FitStart ==
  ASSUME NEW S \in SUBSET Slot, NEW s \in Slot, Fits(s, S)
  PROVE  \A t \in S : t.start # s.start
  <1> SUFFICES ASSUME NEW t \in S, t.start = s.start PROVE FALSE
    OBVIOUS
  <1>1. t.start \in Occupies(t) /\ s.start \in Occupies(s)
    BY FilledRest
  <1> QED BY <1>1 DEF Fits, Meet

LEMMA FitDisjoint ==
  ASSUME NEW S, Disjoint(S), NEW s, Fits(s, S)
  PROVE  Disjoint(S \cup {s})
  BY DEF Disjoint, Fits, Meet

LEMMA FewerDisjoint ==
  ASSUME NEW S, Disjoint(S), NEW T \in SUBSET S
  PROVE  Disjoint(T)
  BY DEF Disjoint

\* What is enough after a step that leaves a message and no modal.
LEMMA OneHarmlessLeft ==
  ASSUME NEW r, inFlight' = SetToBag({r}), Harmless(r)', modal' = NoModal, patient',
         late' = EmptyBag, ~overtaken',
         \A p \in Page : Disjoint(tasks'[p])
  PROVE  CarefulInv'
  <1>1. BagToSet(inFlight)' = {r} /\ inFlight' # EmptyBag
    BY OneMessage DEF BagToSet
  <1>2. \A m : m = r => Harmless(m)'
    OBVIOUS
  <1>3. \A m \in BagToSet(inFlight)' : Harmless(m)'
    BY <1>1, <1>2
  <1> QED BY <1>1, <1>3 DEF CarefulInv, ModalRight, AtTable

LEMMA UserCareful == Typed /\ CarefulInv /\ User => CarefulInv'
  <1> SUFFICES ASSUME Typed, CarefulInv, User, careful' PROVE CarefulInv'
    BY DEF CarefulInv
  <1>1. careful => late = EmptyBag /\ ~overtaken /\ \A p \in Page : Disjoint(tasks[p])
    BY DEF CarefulInv
  <1>2. ASSUME NEW p \in Page, Select(p) PROVE CarefulInv'
    <2> DEFINE m == [type |-> "ReadSchedule", page |-> p]
    <2>1. inFlight' = SetToBag({m}) /\ careful /\ patient'
      BY <1>2, SendAlone DEF server, Select, Careful
    <2>2. Harmless(m)'
      BY DEF Harmless
    <2> QED BY <1>1, <1>2, <2>1, <2>2, OneHarmlessLeft DEF server, Select, AtTable
  <1>3. ASSUME NEW start \in Hour, NEW end \in Hour, Submit(start, end) PROVE CarefulInv'
    <2> DEFINE new == NewSlot(start, end)
               S == tasks[page]
    <2>1. PICK r : r = [type |-> "CreateTask", page |-> page, slot |-> new]
      OBVIOUS
    <2>2. inFlight' = SetToBag({r}) /\ careful /\ patient' /\ inFlight = EmptyBag /\ end # 0
      BY <1>3, <2>1, SendAlone DEF server, Submit, Careful
    <2>3. S \in SUBSET Slot /\ ShowsExactly(schedule, S)
      BY <2>2, SettledTimetable
    <2>4. Conflicts(schedule, start, end) = {} /\ TaskDuration(start, end) > 0
      BY <1>3 DEF server, Submit, CanCreate
    <2>5. start < end /\ new = [start |-> start, duration |-> end - start]
      BY <2>2, <2>4, NewSlotIsSlot
    <2> HIDE DEF S, new
    <2>6. StartsMeeting(S, new) = {}
      BY <2>3, <2>4, <2>5, ConflictsAreMeetings
    <2>7. Fits(new, S)
      BY <2>6 DEF StartsMeeting, Fits
    <2>8. Harmless(r)'
      BY <1>3, <2>1, <2>7 DEF server, Harmless, Submit, S, Fits
    <2> QED BY <1>1, <1>3, <2>2, <2>8, OneHarmlessLeft DEF server, Submit, AtTable
  <1>4. ASSUME NEW h \in Hour, ClickDelete(h) PROVE CarefulInv'
    <2>1. PICK r : r = [type |-> "DeleteTask", page |-> page, start |-> h]
      OBVIOUS
    <2>2. inFlight' = SetToBag({r}) /\ careful /\ patient' /\ inFlight = EmptyBag
      BY <1>4, <2>1, SendAlone DEF server, ClickDelete, Careful
    <2>3. h \in Starts(page)
      BY <1>4, <2>2, SettledTimetable, ShownStarts DEF server, ClickDelete, Starts
    <2>4. Starts(page)' = Starts(page)
      BY <1>4 DEF server, ClickDelete, Starts
    <2>5. Harmless(r)'
      BY <2>1, <2>3, <2>4 DEF Harmless
    <2> QED BY <1>1, <1>4, <2>2, <2>5, OneHarmlessLeft DEF server, ClickDelete, AtTable
  <1>5. ASSUME NEW start \in Hour, NEW end \in Hour, NEW h \in Hour,
               ClickEdit(h, start, end)
        PROVE  CarefulInv'
    <2>1. careful /\ patient' /\ inFlight = EmptyBag
      BY <1>5 DEF server, ClickEdit, Careful
    <2>2. h \in Starts(page) /\ Starts(page)' = Starts(page)
      BY <1>5, <2>1, SettledTimetable, ShownStarts DEF server, ClickEdit, Starts
    <2>3. PICK found : found = Conflicts(schedule, start, end)
      OBVIOUS
    <2>4. /\ modal' = [start |-> h, overlaps |-> found, hours |-> <<start, end>>]
          /\ found = Conflicts(schedule', start, end)
      BY <1>5, <2>3 DEF server, ClickEdit
    <2>5. ModalRight'
      BY <1>5, <2>1, <2>2, <2>4 DEF server, ModalRight, ClickEdit
    <2> QED BY <1>1, <1>5, <2>1, <2>5, OneMessage DEF server, CarefulInv, ClickEdit
  <1>6. ASSUME NEW start \in Hour, NEW end \in Hour, SubmitUpdate(start, end)
        PROVE  CarefulInv'
    <2> DEFINE new == NewSlot(start, end)
               S == tasks[page]
    <2>1. PICK r : r = [type |-> "UpdateTask", page |-> page, start |-> modal.start,
                        overlaps |-> modal.overlaps, slot |-> new]
      OBVIOUS
    <2>2. /\ inFlight' = SetToBag({r}) /\ careful /\ patient' /\ inFlight = EmptyBag
          /\ end # 0 /\ modal.hours = <<start, end>>
      BY <1>6, <2>1, SendAlone DEF server, SubmitUpdate, Careful
    <2>3. S \in SUBSET Slot /\ ShowsExactly(schedule, S)
      BY <2>2, SettledTimetable
    <2>4. start < end /\ new = [start |-> start, duration |-> end - start]
      BY <1>6, <2>2, NewSlotIsSlot DEF server, SubmitUpdate
    <2>5. modal.start \in Starts(page) /\ modal.overlaps = Conflicts(schedule, start, end)
      BY <1>6, <2>2 DEF server, SubmitUpdate, CarefulInv, ModalRight
    <2> HIDE DEF S, new
    <2>6. modal.overlaps = StartsMeeting(S, new)
      BY <2>3, <2>4, <2>5, ConflictsAreMeetings
    <2>7. OldHours(r) \subseteq Starts(page)
      BY <2>1, <2>5, <2>6 DEF OldHours, StartsMeeting, Starts, S
    <2>8. Fits(new, Without(page, OldHours(r)))
      BY <2>1, <2>6 DEF OldHours, StartsMeeting, Without, Fits, S
    <2>9. Starts(page)' = Starts(page) /\ Without(page, OldHours(r))' = Without(page, OldHours(r))
      BY <1>6 DEF server, SubmitUpdate, Starts, Without
    <2>10. Harmless(r)'
      BY <2>1, <2>7, <2>8, <2>9 DEF Harmless
    <2> QED BY <1>1, <1>6, <2>2, <2>10, OneHarmlessLeft DEF server, SubmitUpdate
  <1>7. ASSUME CloseModal PROVE CarefulInv'
    <2>1. \A m : Harmless(m)' <=> Harmless(m)
      BY <1>7 DEF server, CloseModal, Harmless, Starts, Without
    <2> QED BY <1>7, <2>1 DEF server, CloseModal, user, CarefulInv, ModalRight, AtTable
  <1> QED BY <1>2, <1>3, <1>4, <1>5, <1>6, <1>7 DEF User

\* The server does what it is asked, and no tasks overlap then.
LEMMA OutcomeCareful ==
  ASSUME Typed, NEW m \in Requests, m.page = page, Harmless(m), Disjoint(tasks[page]),
         NEW o \in Outcomes(m)
  PROVE  o.answer # [type |-> "error"] /\ Disjoint(o.tasks)
  <1>1. /\ m.type \in {"ReadSchedule", "CreateTask", "DeleteTask", "UpdateTask"}
        /\ tasks[page] \in SUBSET Slot
    BY DEF Requests, Writes, Typed, TaskSet
  <1>2. \A S : Done(m, S).answer # [type |-> "error"] /\ Done(m, S).tasks = S
    <2>1. \A S : Done(m, S).answer.type = "done"
      BY DEF Done, Outcome
    <2> QED BY <2>1 DEF Done, Outcome
  <1>3. CASE m.type = "ReadSchedule"
    <2>1. o = Outcome(tasks[page], [type |-> "schedule", slots |-> tasks[page]])
      BY <1>3 DEF Outcomes, Reading
    <2>2. o.tasks = tasks[page] /\ o.answer.type = "schedule"
      BY <2>1 DEF Outcome
    <2> QED BY <2>2
  <1>4. CASE m.type = "CreateTask"
    <2>1. m.slot \in Slot /\ Fits(m.slot, tasks[page])
      BY <1>4, MessageTypes DEF Harmless
    <2>2. m.slot.start \notin Starts(page)
      BY <1>1, <2>1, FitStart DEF Starts
    <2>3. o = Done(m, tasks[page] \cup {m.slot})
      BY <1>4, <2>2 DEF Outcomes, Creating
    <2> QED BY <1>2, <2>1, <2>3, FitDisjoint
  <1>5. CASE m.type = "DeleteTask"
    <2>1. o = Done(m, Without(page, {m.start}))
      BY <1>5 DEF Outcomes, Deleting, Harmless
    <2>2. Disjoint(Without(page, {m.start}))
      BY FewerDisjoint DEF Without
    <2> QED BY <1>2, <2>1, <2>2
  <1>6. CASE m.type = "UpdateTask"
    <2> DEFINE rest == Without(page, OldHours(m))
    <2>1. /\ m.slot \in Slot
          /\ OldHours(m) \subseteq Starts(page) /\ Fits(m.slot, rest)
      BY <1>6, MessageTypes DEF Harmless
    <2>2. rest \in SUBSET Slot /\ Disjoint(rest)
      BY <1>1, FewerDisjoint DEF Without
    <2>3. o \in Updating(m)
      BY <1>6 DEF Outcomes
    <2>4. (~\E s \in rest : s.start = m.slot.start) => o = Done(m, rest \cup {m.slot})
      BY <2>1, <2>3 DEF Updating
    <2> HIDE DEF rest
    <2>5. ~\E s \in rest : s.start = m.slot.start
      BY <2>1, <2>2, FitStart
    <2>6. Disjoint(rest \cup {m.slot})
      BY <2>1, <2>2, FitDisjoint
    <2> QED BY <1>2, <2>4, <2>5, <2>6
  <1> QED BY <1>1, <1>3, <1>4, <1>5, <1>6

LEMMA ServeCareful ==
  ASSUME Typed, PatientInv, CarefulInv, careful, NEW m \in BagToSet(inFlight), Serve(m)
  PROVE  CarefulInv'
  <1>1. /\ inFlight = SetToBag({m}) /\ Concerns(m) /\ Harmless(m)
        /\ patient /\ late = EmptyBag /\ ~overtaken /\ \A p \in Page : Disjoint(tasks[p])
    BY TheMessage DEF CarefulInv
  <1>2. modal = NoModal
    BY <1>1, OneMessage DEF CarefulInv, ModalRight, AtTable
  <1>3. /\ UNCHANGED <<page, modal, patient, late>> /\ m \in Requests
        /\ ~overtaken'
        /\ tasks \in [Page -> TaskSet] /\ page \in Page
    BY <1>1 DEF Serve, user, Typed
  <1>4. m.page = page
    <2>1. m.type \notin {"schedule", "error"}
      BY <1>3 DEF Requests, Writes
    <2> QED BY <1>1, <2>1 DEF Concerns
  <1>5. PICK o \in Outcomes(m) : Leaves(m, o) /\ Respond(m, o.answer)
    BY DEF Serve
  <1>6. o.answer # [type |-> "error"] /\ Disjoint(o.tasks)
    BY <1>1, <1>3, <1>4, OutcomeCareful
  <1>7. PICK r : r = o.answer
    OBVIOUS
  <1>8. inFlight' = SetToBag({r})
    BY <1>1, <1>5, <1>7, RespondAlone
  <1>9. Harmless(r)'
    <2>1. \/ o.answer = [type |-> "done", page |-> m.page]
          \/ o.answer = [type |-> "schedule", slots |-> tasks[m.page]]
      BY <1>3, <1>6, OutcomeAnswers
    <2>2. r.type \in {"done", "schedule"}
      BY <1>7, <2>1
    <2> QED BY <2>2 DEF Harmless
  <1>10. \A p \in Page : Disjoint(tasks'[p])
    BY <1>1, <1>3, <1>4, <1>5, <1>6 DEF Leaves
  <1> QED BY <1>1, <1>2, <1>3, <1>8, <1>9, <1>10, OneHarmlessLeft

LEMMA ReceiveCareful ==
  ASSUME Typed, PatientInv, CarefulInv, careful, NEW m \in BagToSet(inFlight),
         ReceiveSchedule(m) \/ ReceiveDone(m) \/ ReceiveError(m)
  PROVE  CarefulInv'
  <1>1. /\ inFlight = SetToBag({m}) /\ Concerns(m) /\ Harmless(m)
        /\ patient /\ late = EmptyBag /\ ~overtaken /\ \A p \in Page : Disjoint(tasks[p])
    BY TheMessage DEF CarefulInv
  <1>2. modal = NoModal
    BY <1>1, OneMessage DEF CarefulInv, ModalRight, AtTable
  <1>3. CASE ReceiveSchedule(m)
    <2>1. inFlight' = EmptyBag /\ UNCHANGED <<tasks, page, modal, patient, late, overtaken>>
      BY <1>1, <1>3, OneMessage DEF ReceiveSchedule, server, user
    <2>2. schedule' \in Views(tasks[page])
      BY <1>1, <1>3 DEF ReceiveSchedule, Concerns
    <2> QED BY <1>1, <1>2, <2>1, <2>2, OneMessage DEF CarefulInv, ModalRight, AtTable
  <1>4. CASE ReceiveDone(m)
    <2> DEFINE r == [type |-> "ReadSchedule", page |-> m.page]
    <2>1. inFlight' = SetToBag({r}) /\ UNCHANGED <<tasks, modal, patient, late, overtaken>>
      BY <1>1, <1>4, RespondAlone DEF ReceiveDone, server, user
    <2>2. Harmless(r)'
      BY DEF Harmless
    <2> QED BY <1>1, <1>2, <2>1, <2>2, OneHarmlessLeft
  <1>5. CASE ReceiveError(m)
    BY <1>1, <1>5 DEF ReceiveError, Harmless
  <1> QED BY <1>3, <1>4, <1>5

LEMMA InitCareful == Init => CarefulInv
  <1> SUFFICES ASSUME Init PROVE CarefulInv
    OBVIOUS
  <1> DEFINE m == [type |-> "ReadSchedule", page |-> page]
  <1>1. inFlight = SetToBag({m}) /\ Harmless(m)
    BY DEF Init, Harmless
  <1>2. patient /\ late = EmptyBag /\ ~overtaken /\ modal = NoModal /\ \A p \in Page : Disjoint(tasks[p])
    BY DEF Init, Disjoint
  <1> HIDE DEF m
  <1>3. BagToSet(inFlight) = {m} /\ inFlight # EmptyBag
    BY <1>1, OneMessage
  <1> QED BY <1>1, <1>2, <1>3 DEF CarefulInv, ModalRight, AtTable

LEMMA NextCareful == Typed /\ PatientInv /\ CarefulInv /\ [Next]_vars => CarefulInv'
  <1> SUFFICES ASSUME Typed, PatientInv, CarefulInv, [Next]_vars, careful'
               PROVE  CarefulInv'
    BY DEF CarefulInv
  <1>1. CASE UNCHANGED vars
    <2>1. \A m : Harmless(m)' <=> Harmless(m)
      BY <1>1 DEF vars, server, Harmless, Starts, Without
    <2>2. ModalRight' <=> ModalRight
      BY <1>1 DEF vars, server, ModalRight, AtTable, Starts
    <2> QED BY <1>1, <2>1, <2>2 DEF vars, server, user, CarefulInv
  <1>2. CASE User
    BY <1>2, UserCareful
  <1>3. ASSUME NEW m \in BagToSet(inFlight), Serve(m) PROVE CarefulInv'
    BY <1>3, ServeCareful DEF Serve, user
  <1>4. ASSUME NEW m \in BagToSet(inFlight), Lose(m) PROVE CarefulInv'
    BY <1>4 DEF Lose
  <1>5. ASSUME NEW m \in BagToSet(inFlight),
               ReceiveSchedule(m) \/ ReceiveDone(m) \/ ReceiveError(m)
        PROVE  CarefulInv'
    BY <1>5, ReceiveCareful DEF ReceiveSchedule, ReceiveDone, ReceiveError, user
  <1>6. ASSUME NEW m \in BagToSet(late), ServeLate(m) PROVE CarefulInv'
    <2>1. careful
      BY <1>6 DEF ServeLate, user
    <2>2. late = EmptyBag
      BY <2>1 DEF CarefulInv
    <2> QED BY <1>6, <2>2, OneMessage
  <1> QED BY <1>1, <1>2, <1>3, <1>4, <1>5, <1>6 DEF Next

\* What a careful user asks for is still right when the server gets to it: nothing
\* happened in between to the tasks the page was showing.
THEOREM CarefulHolds == Spec => []CarefulInv
  BY InitCareful, NextCareful, TypedHolds, PatientHolds, PTL DEF Spec

\* Tasks of a careful user never overlap, although the server compares no more than
\* start hours: the client's check, on an exact timetable, finds what they overlap.
THEOREM TasksStayApart == Spec => []NoOverlaps
  <1>1. CarefulInv => NoOverlaps
    BY DEF CarefulInv, NoOverlaps
  <1> QED BY <1>1, CarefulHolds, PTL

\* The server refuses a careful user nothing, so that no update of theirs is left half
\* done.
THEOREM CarefulIsServed == Spec => []NothingRefused
  <1>1. CarefulInv => NothingRefused
    BY DEF CarefulInv, NothingRefused, Harmless
  <1> QED BY <1>1, CarefulHolds, PTL

\* When everything is answered a careful user is shown the tasks of the selected page,
\* exactly, in whatever order the response had them.
THEOREM PageIsShown == Spec => []SettledShowsPage
  <1>1. Typed /\ CarefulInv => SettledShowsPage
    BY SettledTimetable DEF SettledShowsPage
  <1> QED BY <1>1, TypedHolds, CarefulHolds, PTL

=============================================================================
