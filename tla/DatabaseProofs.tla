---------------------------- MODULE DatabaseProofs ----------------------------
(***************************************************************************)
(* Theorems about Database, for every set of callers, keys and tasks and   *)
(* every capacity of the action channel: types and calls, the answers, the *)
(* stored tasks, Stop, and at last that the actor implements TaskStore.    *)
(***************************************************************************)
EXTENDS Database, SequenceTheorems, TLAPS

-----------------------------------------------------------------------------
\* Go maps: writing and deleting a key of a map gives a map again.

LEMMA MapFacts ==
    ASSUME NEW K, NEW V, NEW m \in PartialMaps(K, V)
    PROVE  DOMAIN m \subseteq K /\ m \in [DOMAIN m -> V]
BY DEF PartialMaps

LEMMA PutIsMap ==
    ASSUME NEW K, NEW V, NEW m \in PartialMaps(K, V), NEW k \in K, NEW v \in V
    PROVE  Put(m, k, v) \in PartialMaps(K, V)
<1>1. DOMAIN m \cup {k} \in SUBSET K
  BY MapFacts
<1>2. Put(m, k, v) \in [DOMAIN m \cup {k} -> V]
  BY MapFacts DEF Put
<1> QED
  BY <1>1, <1>2 DEF PartialMaps

LEMMA WithoutIsMap ==
    ASSUME NEW K, NEW V, NEW m \in PartialMaps(K, V), NEW k
    PROVE  Without(m, k) \in PartialMaps(K, V)
<1>1. DOMAIN m \ {k} \in SUBSET K
  BY MapFacts
<1>2. Without(m, k) \in [DOMAIN m \ {k} -> V]
  BY MapFacts DEF Without
<1> QED
  BY <1>1, <1>2 DEF PartialMaps

LEMMA EmptyMapIsMap ==
    ASSUME NEW K, NEW V, NEW e(_)
    PROVE  [k \in {} |-> e(k)] \in PartialMaps(K, V)
<1>1. {} \in SUBSET K
  OBVIOUS
<1>2. [k \in {} |-> e(k)] \in [{} -> V]
  OBVIOUS
<1> QED
  BY <1>1, <1>2 DEF PartialMaps

\* The tasks of a partition are a map whether or not it is allocated.
LEMMA TasksIsMap ==
    ASSUME Schedule \in PartialMaps(PartitionKey, PartialMaps(SortKey, Task)),
           NEW p
    PROVE  Tasks(p) \in PartialMaps(SortKey, Task)
<1>1. CASE p \in DOMAIN Schedule
  BY <1>1, MapFacts DEF Tasks
<1>2. CASE p \notin DOMAIN Schedule
  <2>1. [k \in {} |-> NoTask] \in PartialMaps(SortKey, Task)
    BY EmptyMapIsMap
  <2> QED
    BY <1>2, <2>1 DEF Tasks
<1> QED
  BY <1>1, <1>2

LEMMA AnswersAreAnswers ==
    /\ Done \in Answer
    /\ Err("Task already exists") \in Answer
    /\ Err("Task doesnt exists") \in Answer
    /\ Err("Schedule doesnt exist") \in Answer
    /\ \A t \in Task : Got(t) \in Answer
BY DEF Done, Err, Got, Answer, Error

LEMMA ClosureParts ==
    ASSUME NEW f \in Closure
    PROVE  /\ f.op \in Methods
           /\ f.op \in Op
           /\ f.partitionKey \in PartitionKey
           /\ f.op # "ReadSchedule" => f.sortKey \in SortKey
           /\ f.op = "CreateTask" => f.task \in Task
BY OpAssumption DEF Closure, Methods

-----------------------------------------------------------------------------
\* TypeOK

LEMMA InitTypeOK == Init => TypeOK
<1> SUFFICES ASSUME Init PROVE TypeOK
  OBVIOUS
<1>1. Schedule \in PartialMaps(PartitionKey, PartialMaps(SortKey, Task))
  BY EmptyMapIsMap DEF Init
<1>2. actionCh \in Seq(Caller) /\ Len(actionCh) <= ActionCap
  BY ActionCapAssumption DEF Init
<1> QED
  BY <1>1, <1>2 DEF Init, TypeOK

\* A caller inside a method is running one of the closures.
CallsRun == \A c \in Caller : pc[c] # "idle" => call[c] \in Closure

\* The inductive invariant.  TypeOK alone is not inductive: that the closure
\* at the head of the queue is one of a caller that is still waiting, and not
\* NoCall, is what OneAnswerPerCall and CallsRun say.
IInv == TypeOK /\ CallsRun /\ OneAnswerPerCall

LEMMA BufferedType ==
    ASSUME TypeOK, NEW c \in Caller, NEW a \in Answer, Buffered(c, a)
    PROVE  /\ reply' \in [Caller -> Seq(Answer)]
           /\ reply' = [reply EXCEPT ![c] = Append(reply[c], a)]
           /\ serving' = serving /\ sends' = sends
<1>1. Append(reply[c], a) \in Seq(Answer)
  BY AppendProperties DEF TypeOK
<1> QED
  BY <1>1 DEF TypeOK, Buffered

Stored == Schedule \in PartialMaps(PartitionKey, PartialMaps(SortKey, Task))

\* What one execution of a closure does: it sends one answer on a buffered
\* channel of its caller, or leaves the actor sending to its caller.
LEMMA ExecuteFacts ==
    ASSUME TypeOK, NEW c \in Caller, NEW f \in Closure, Execute(c, f)
    PROVE  /\ Stored'
           /\ \/ /\ \E a \in Answer :
                       reply' = [reply EXCEPT ![c] = Append(reply[c], a)]
                 /\ reply' \in [Caller -> Seq(Answer)]
                 /\ serving' = serving /\ sends' = sends
              \/ /\ reply' = reply
                 /\ serving' = c
                 /\ sends' \in Seq(Answer) /\ sends' # <<>>
<1> DEFINE p == f.partitionKey
           k == f.sortKey
<1>0. Stored /\ p \in PartitionKey
  BY ClosureParts DEF TypeOK, Stored
<1>t. ASSUME NEW q PROVE Tasks(q) \in PartialMaps(SortKey, Task)
  BY <1>0, TasksIsMap DEF Stored
<1>1. ASSUME f.op = "CreateTask", CreateTask(c, p, k, f.task)
      PROVE  /\ Stored'
             /\ \E a \in Answer : Buffered(c, a)
  <2>1. CASE Found(p, k)
    BY <1>0, <1>1, <2>1, AnswersAreAnswers DEF CreateTask, Stored
  <2>2. CASE ~Found(p, k)
    <3>0. k \in SortKey /\ f.task \in Task
      BY <1>1, ClosureParts
    <3>1. Put(Tasks(p), k, f.task) \in PartialMaps(SortKey, Task)
      BY <1>t, <3>0, PutIsMap
    <3>2. Put(Schedule, p, Put(Tasks(p), k, f.task))
            \in PartialMaps(PartitionKey, PartialMaps(SortKey, Task))
      BY <1>0, <3>1, PutIsMap DEF Stored
    <3> QED
      BY <1>1, <2>2, <3>2, AnswersAreAnswers DEF CreateTask, Stored
  <2> QED
    BY <2>1, <2>2
<1>2. ASSUME f.op = "DeleteTask", DeleteTask(c, p, k)
      PROVE  Stored' /\ \E a \in Answer : Direct(c, <<a>>)
  <2>1. CASE Found(p, k)
    <3>1. Without(Tasks(p), k) \in PartialMaps(SortKey, Task)
      BY <1>t, WithoutIsMap
    <3>2. Put(Schedule, p, Without(Tasks(p), k))
            \in PartialMaps(PartitionKey, PartialMaps(SortKey, Task))
      BY <1>0, <3>1, PutIsMap DEF Stored
    <3> QED
      BY <1>2, <2>1, <3>2, AnswersAreAnswers DEF DeleteTask, Deleted, Stored
  <2>2. CASE ~Found(p, k)
    BY <1>0, <1>2, <2>2, AnswersAreAnswers DEF DeleteTask, Deleted, Stored
  <2> QED
    BY <2>1, <2>2
<1>3. ASSUME f.op = "ReadTask", ReadTask(c, p, k)
      PROVE  /\ Stored'
             /\ \E s \in Seq(Answer) : s # <<>> /\ Direct(c, s)
  <2> DEFINE missing == Err("Task doesnt exists")
             one == IF Found(p, k) THEN <<Got(Tasks(p)[k])>> ELSE <<>>
             two == IF p \in DOMAIN Schedule THEN <<missing>> ELSE <<>>
  <2>1. ASSUME Found(p, k) PROVE Got(Tasks(p)[k]) \in Answer
    <3>1. Tasks(p) \in [DOMAIN Tasks(p) -> Task]
      BY <1>t, MapFacts
    <3>2. Tasks(p)[k] \in Task
      BY <2>1, <3>1 DEF Found
    <3> QED
      BY <3>2, AnswersAreAnswers
  <2>2. /\ one \in Seq(Answer)
        /\ two \in Seq(Answer)
        /\ <<missing>> \in Seq(Answer) /\ Len(<<missing>>) = 1
    <3>1. missing \in Answer
      BY AnswersAreAnswers
    <3> HIDE DEF missing
    <3> QED
      BY <2>1, <3>1
  <2> HIDE DEF one, two, missing
  <2>3. one \o two \in Seq(Answer)
    BY <2>2, ConcatProperties
  <2>4. /\ (one \o two) \o <<missing>> \in Seq(Answer)
        /\ Len((one \o two) \o <<missing>>) = Len(one \o two) + 1
    BY <2>2, <2>3, ConcatProperties
  <2>5. (one \o two) \o <<missing>> # <<>>
    BY <2>3, <2>4, LenProperties, EmptySeq
  <2>6. Direct(c, (one \o two) \o <<missing>>) /\ Schedule' = Schedule
    BY <1>3 DEF ReadTask, one, two, missing
  <2> QED
    BY <1>0, <2>4, <2>5, <2>6 DEF Stored
<1>4. ASSUME f.op = "ReadSchedule", ReadSchedule(c, p)
      PROVE  Stored' /\ \E a \in Answer : Buffered(c, a)
  BY <1>0, <1>4, AnswersAreAnswers DEF ReadSchedule, Stored
<1>5. ASSUME NEW a \in Answer, Direct(c, <<a>>)
      PROVE  reply' = reply /\ serving' = c
             /\ sends' \in Seq(Answer) /\ sends' # <<>>
  BY <1>5 DEF Direct
<1> QED
  <2>1. CASE \E a \in Answer : Buffered(c, a)
    <3>1. PICK a \in Answer : Buffered(c, a)
      BY <2>1
    <3> QED
      BY <1>1, <1>2, <1>3, <1>4, <3>1, BufferedType DEF Execute
  <2>2. CASE \E s \in Seq(Answer) : s # <<>> /\ Direct(c, s)
    BY <1>1, <1>2, <1>3, <1>4, <2>2 DEF Execute, Direct
  <2>3. CASE \E a \in Answer : Direct(c, <<a>>)
    <3>1. PICK a \in Answer : Direct(c, <<a>>)
      BY <2>3
    <3> QED
      BY <1>1, <1>2, <1>3, <1>4, <1>5, <3>1 DEF Execute
  <2> QED
    BY <1>1, <1>2, <1>3, <1>4, <2>1, <2>2, <2>3 DEF Execute

-----------------------------------------------------------------------------
\* A queue without repetitions: joining it and leaving it.

Holds(q, x) == \E i \in DOMAIN q : q[i] = x
Distinct(q) == \A i, j \in DOMAIN q : q[i] = q[j] => i = j

LEMMA JoinQueue ==
    ASSUME NEW S, NEW q \in Seq(S), NEW x \in S, Distinct(q), ~Holds(q, x)
    PROVE  /\ Distinct(Append(q, x))
           /\ \A y : Holds(Append(q, x), y) <=> (Holds(q, y) \/ y = x)
<1> DEFINE r == Append(q, x)
           n == Len(q)
<1>1. n \in Nat /\ DOMAIN q = 1..n /\ DOMAIN r = 1..(n + 1)
  BY LenProperties, AppendProperties
<1>2. (\A i \in 1..n : r[i] = q[i]) /\ r[n + 1] = x
  BY AppendProperties
<1> HIDE DEF r, n
<1>3. \A i \in DOMAIN r : i \in DOMAIN q \/ i = n + 1
  BY <1>1
<1>4. Distinct(r)
  BY <1>1, <1>2, <1>3 DEF Distinct, Holds
<1>5. ASSUME NEW y PROVE Holds(r, y) <=> (Holds(q, y) \/ y = x)
  <2>1. Holds(q, y) => Holds(r, y)
    BY <1>1, <1>2 DEF Holds
  <2>2. Holds(r, x)
    BY <1>1, <1>2 DEF Holds
  <2>3. Holds(r, y) => Holds(q, y) \/ y = x
    BY <1>1, <1>2, <1>3 DEF Holds
  <2> QED
    BY <2>1, <2>2, <2>3
<1> QED
  BY <1>4, <1>5 DEF r

LEMMA LeaveQueue ==
    ASSUME NEW S, NEW q \in Seq(S), q # <<>>, Distinct(q)
    PROVE  /\ Distinct(Tail(q))
           /\ Holds(q, Head(q))
           /\ \A y : Holds(Tail(q), y) <=> (Holds(q, y) /\ y # Head(q))
<1> DEFINE r == Tail(q)
           n == Len(q)
<1>1. n \in Nat \ {0} /\ DOMAIN q = 1..n
  BY LenProperties, EmptySeq
<1>2. /\ r \in Seq(S) /\ Len(r) = n - 1 /\ DOMAIN r = 1..(n - 1)
      /\ \A i \in 1..(n - 1) : r[i] = q[i + 1]
  BY HeadTailProperties, LenProperties
<1>3. Head(q) = q[1]
  OBVIOUS
<1> HIDE DEF r, n
<1>4. Distinct(r)
  <2>1. SUFFICES ASSUME NEW i \in 1..(n - 1), NEW j \in 1..(n - 1), r[i] = r[j]
                 PROVE  i = j
    BY <1>2 DEF Distinct
  <2>2. /\ i + 1 \in DOMAIN q /\ j + 1 \in DOMAIN q
        /\ q[i + 1] = r[i] /\ q[j + 1] = r[j]
    BY <1>1, <1>2
  <2>3. i + 1 = j + 1
    BY <2>1, <2>2 DEF Distinct
  <2> QED
    BY <1>1, <2>3
<1>5. Holds(q, Head(q))
  BY <1>1, <1>3 DEF Holds
<1>6. ASSUME NEW y PROVE Holds(r, y) <=> (Holds(q, y) /\ y # Head(q))
  <2>1. ASSUME Holds(r, y) PROVE Holds(q, y) /\ y # Head(q)
    <3>1. PICK i \in DOMAIN r : r[i] = y
      BY <2>1 DEF Holds
    <3>2. i + 1 \in DOMAIN q /\ 1 \in DOMAIN q /\ i + 1 # 1 /\ q[i + 1] = y
      BY <1>1, <1>2, <3>1
    <3> QED
      BY <1>3, <3>2 DEF Holds, Distinct
  <2>2. ASSUME Holds(q, y), y # Head(q) PROVE Holds(r, y)
    <3>1. PICK i \in DOMAIN q : q[i] = y
      BY <2>2 DEF Holds
    <3>2. i # 1
      BY <1>3, <2>2, <3>1
    <3>3. i - 1 \in DOMAIN r /\ r[i - 1] = y
      BY <1>1, <1>2, <3>1, <3>2
    <3> QED
      BY <3>3 DEF Holds
  <2> QED
    BY <2>1, <2>2
<1> QED
  BY <1>4, <1>5, <1>6 DEF r

-----------------------------------------------------------------------------
\* The inductive invariant

LEMMA InitIInv == Init => IInv
<1> SUFFICES ASSUME Init PROVE IInv
  OBVIOUS
<1>1. TypeOK
  BY InitTypeOK
<1>2. CallsRun
  BY DEF Init, CallsRun
<1>3. OneAnswerPerCall
  BY NoCallerAssumption DEF Init, OneAnswerPerCall, OnceQueued, Queued
<1> QED
  BY <1>1, <1>2, <1>3 DEF IInv

\* Where the call of one caller is.
Place(c) ==
    IF pc[c] = "waiting"
    THEN \/ Queued(c) /\ reply[c] = <<>> /\ serving # c
         \/ ~Queued(c) /\ Len(reply[c]) = 1 /\ serving # c
         \/ ~Queued(c) /\ reply[c] = <<>> /\ serving = c /\ sends # <<>>
    ELSE ~Queued(c) /\ reply[c] = <<>> /\ serving # c

LEMMA Places == OneAnswerPerCall <=> OnceQueued /\ \A c \in Caller : Place(c)
BY DEF OneAnswerPerCall, Place

LEMMA CallIInv ==
    ASSUME IInv, NEW c \in Caller, NEW f \in Closure, Call(c, f)
    PROVE  IInv'
<1> USE DEF Call, storeVars
<1>1. TypeOK'
  BY DEF IInv, TypeOK
<1>2. CallsRun'
  BY DEF IInv, TypeOK, CallsRun
<1>3. OneAnswerPerCall'
  <2>1. OnceQueued' /\ \A d \in Caller : Queued(d)' = Queued(d)
    BY Places DEF IInv, OnceQueued, Queued
  <2>2. ASSUME NEW d \in Caller PROVE Place(d)'
    <3>1. Place(d)
      BY Places DEF IInv
    <3>2. pc'[d] = IF d = c THEN "sending" ELSE pc[d]
      BY DEF IInv, TypeOK
    <3> QED
      BY <2>1, <3>1, <3>2 DEF Place
  <2> QED
    BY <2>1, <2>2 DEF OneAnswerPerCall, Place
<1> QED
  BY <1>1, <1>2, <1>3 DEF IInv

LEMMA SendIInv ==
    ASSUME IInv, NEW c \in Caller, Send(c)
    PROVE  IInv'
<1> USE DEF storeVars
<1>1. TypeOK /\ OnceQueued /\ \A d \in Caller : Place(d)
  BY Places DEF IInv
<1>2. ~Queued(c) /\ reply[c] = <<>> /\ serving # c
  BY <1>1 DEF Send, Place
<1>3. /\ Distinct(actionCh')
      /\ \A d : Holds(actionCh', d) <=> (Holds(actionCh, d) \/ d = c)
      /\ actionCh' \in Seq(Caller) /\ Len(actionCh') = Len(actionCh) + 1
  <2>1. Distinct(actionCh) /\ ~Holds(actionCh, c) /\ actionCh \in Seq(Caller)
    BY <1>1, <1>2 DEF OnceQueued, Queued, Distinct, Holds, TypeOK
  <2> QED
    BY <2>1, JoinQueue, AppendProperties DEF Send
<1>4. OnceQueued' /\ \A d \in Caller : Queued(d)' <=> (Queued(d) \/ d = c)
  BY <1>3 DEF OnceQueued, Queued, Distinct, Holds
<1>5. pc' = [pc EXCEPT ![c] = "waiting"]
  BY DEF Send
<1>6. TypeOK'
  <2>1. Len(actionCh') <= ActionCap
    BY <1>1, <1>3, ActionCapAssumption, LenProperties DEF Send, Room, TypeOK
  <2> QED
    BY <1>1, <1>3, <2>1 DEF Send, TypeOK
<1>7. CallsRun'
  BY <1>1, <1>5 DEF Send, IInv, TypeOK, CallsRun
<1>8. ASSUME NEW d \in Caller PROVE Place(d)'
  <2>1. CASE d = c
    BY <1>1, <1>2, <1>4, <1>5, <2>1 DEF Send, Place, TypeOK
  <2>2. CASE d # c
    <3>1. Place(d) /\ pc'[d] = pc[d] /\ (Queued(d)' <=> Queued(d))
      BY <1>1, <1>4, <1>5, <2>2 DEF TypeOK
    <3> QED
      BY <3>1 DEF Send, Place
  <2> QED
    BY <2>1, <2>2
<1> QED
  BY <1>4, <1>6, <1>7, <1>8 DEF IInv, OneAnswerPerCall, Place

LEMMA ReceiveIInv ==
    ASSUME IInv, NEW c \in Caller, NEW a \in Answer, Receive(c, a)
    PROVE  IInv'
<1>1. TypeOK /\ OnceQueued /\ \A d \in Caller : Place(d)
  BY Places DEF IInv
<1>2. /\ pc' = [pc EXCEPT ![c] = "idle"]
      /\ call' = [call EXCEPT ![c] = NoCall]
      /\ UNCHANGED <<Schedule, actionCh, run, stop>>
      /\ pc[c] = "waiting"
  BY DEF Receive, ReceiveBuffered, ReceiveDirect, Return
<1>3. OnceQueued' /\ \A d \in Caller : Queued(d)' <=> Queued(d)
  BY <1>1, <1>2 DEF OnceQueued, Queued
<1>4. CallsRun'
  BY <1>1, <1>2 DEF IInv, TypeOK, CallsRun
<1>5. CASE ReceiveBuffered(c, a)
  <2>1. TypeOK'
    BY <1>1, <1>5 DEF ReceiveBuffered, Return, TypeOK
  <2>2. /\ serving' = serving /\ sends' = sends
        /\ reply' = [reply EXCEPT ![c] = <<>>]
        /\ reply[c] # <<>>
    BY <1>5 DEF ReceiveBuffered
  <2>3. ~Queued(c) /\ serving # c
    BY <1>1, <1>2, <2>2 DEF Place
  <2>4. ASSUME NEW d \in Caller PROVE Place(d)'
    <3>1. CASE d = c
      BY <1>1, <1>2, <1>3, <2>2, <2>3, <3>1 DEF Place, TypeOK
    <3>2. CASE d # c
      <4>1. Place(d) /\ pc'[d] = pc[d] /\ reply'[d] = reply[d]
        BY <1>1, <1>2, <2>2, <3>2 DEF TypeOK
      <4> QED
        BY <1>3, <2>2, <4>1 DEF Place
    <3> QED
      BY <3>1, <3>2
  <2> QED
    BY <1>3, <1>4, <2>1, <2>4 DEF IInv, OneAnswerPerCall, Place
<1>6. CASE ReceiveDirect(c, a)
  <2>1. TypeOK'
    <3>1. sends' \in Seq(Answer)
      BY <1>1, <1>6, HeadTailProperties DEF ReceiveDirect, TypeOK
    <3> QED
      BY <1>1, <1>6, <3>1 DEF ReceiveDirect, Return, TypeOK
  <2>2. serving = c /\ serving' = NoCaller /\ reply' = reply
    BY <1>6 DEF ReceiveDirect
  <2>3. ~Queued(c) /\ reply[c] = <<>>
    BY <1>1, <1>2, <2>2 DEF Place
  <2>4. ASSUME NEW d \in Caller PROVE Place(d)'
    <3>0. serving' # d
      BY <2>2, NoCallerAssumption
    <3>1. CASE d = c
      BY <1>1, <1>2, <1>3, <2>2, <2>3, <3>0, <3>1 DEF Place, TypeOK
    <3>2. CASE d # c
      <4>1. Place(d) /\ pc'[d] = pc[d] /\ serving # d
        BY <1>1, <1>2, <2>2, <3>2 DEF TypeOK
      <4> QED
        BY <1>3, <2>2, <3>0, <4>1 DEF Place
    <3> QED
      BY <3>1, <3>2
  <2> QED
    BY <1>3, <1>4, <2>1, <2>4 DEF IInv, OneAnswerPerCall, Place
<1> QED
  BY <1>5, <1>6 DEF Receive

\* While the actor is at its select it serves nobody.
LEMMA AtSelectServesNobody ==
    ASSUME IInv, AtSelect
    PROVE  serving = NoCaller
BY Places DEF IInv, TypeOK, AtSelect, Place

LEMMA RunActionIInv ==
    ASSUME IInv, NEW c \in Caller, RunAction(c)
    PROVE  IInv'
<1>1. TypeOK /\ OnceQueued /\ \A d \in Caller : Place(d)
  BY Places DEF IInv
<1>2. serving = NoCaller
  BY AtSelectServesNobody DEF RunAction
<1>3. /\ actionCh' \in Seq(Caller) /\ Len(actionCh') = Len(actionCh) - 1
      /\ Distinct(actionCh')
      /\ Holds(actionCh, c)
      /\ \A d : Holds(actionCh', d) <=> (Holds(actionCh, d) /\ d # c)
  <2>1. actionCh \in Seq(Caller) /\ Distinct(actionCh)
    BY <1>1 DEF TypeOK, OnceQueued, Distinct
  <2> QED
    BY <2>1, LeaveQueue, HeadTailProperties DEF RunAction
<1>4. /\ OnceQueued' /\ Queued(c)
      /\ \A d \in Caller : Queued(d)' <=> (Queued(d) /\ d # c)
  BY <1>3 DEF OnceQueued, Queued, Distinct, Holds
<1>5. pc[c] = "waiting" /\ reply[c] = <<>>
  BY <1>1, <1>4 DEF Place
<1>6. call[c] \in Closure
  BY <1>5 DEF IInv, CallsRun
<1>7. UNCHANGED <<pc, call, run, stop>> /\ Execute(c, call[c])
  BY DEF RunAction
<1>8. /\ Stored'
      /\ \/ /\ \E a \in Answer :
                  reply' = [reply EXCEPT ![c] = Append(reply[c], a)]
            /\ reply' \in [Caller -> Seq(Answer)]
            /\ serving' = serving /\ sends' = sends
         \/ /\ reply' = reply
            /\ serving' = c
            /\ sends' \in Seq(Answer) /\ sends' # <<>>
  BY <1>1, <1>6, <1>7, ExecuteFacts
<1>9. TypeOK'
  <2>1. Len(actionCh') <= ActionCap
    BY <1>1, <1>3, LenProperties, ActionCapAssumption DEF TypeOK
  <2> QED
    BY <1>1, <1>3, <1>7, <1>8, <2>1 DEF TypeOK, Stored
<1>10. CallsRun'
  BY <1>7 DEF IInv, CallsRun
<1>11. ASSUME NEW d \in Caller PROVE Place(d)'
  <2>0. Place(d) /\ serving # d
    BY <1>1, <1>2, NoCallerAssumption
  <2>1. CASE d = c
    <3>1. CASE serving' = serving
      <4>1. PICK a \in Answer :
              reply' = [reply EXCEPT ![c] = Append(reply[c], a)]
        BY <1>2, <1>8, <3>1, NoCallerAssumption
      <4>2. reply'[c] = Append(<<>>, a) /\ Len(Append(<<>>, a)) = 1
        BY <1>1, <1>5, <4>1 DEF TypeOK
      <4> QED
        BY <1>4, <1>5, <1>7, <2>0, <2>1, <3>1, <4>2 DEF Place
    <3>2. CASE serving' # serving
      BY <1>4, <1>5, <1>7, <1>8, <2>1, <3>2 DEF Place
    <3> QED
      BY <3>1, <3>2
  <2>2. CASE d # c
    <3>1. serving' # d /\ reply'[d] = reply[d]
      BY <1>1, <1>8, <2>0, <2>2 DEF TypeOK
    <3> QED
      BY <1>4, <1>7, <2>0, <2>2, <3>1 DEF Place
  <2> QED
    BY <2>1, <2>2
<1> QED
  BY <1>4, <1>9, <1>10, <1>11 DEF IInv, OneAnswerPerCall, Place

\* Stopping moves no call.
LEMMA ControlIInv ==
    ASSUME IInv, UNCHANGED <<storeVars, actionCh, pc, call>>,
           run' \in {"select", "closing", "returned"},
           stop' \in {"none", "sending", "waiting", "returned"}
    PROVE  IInv'
<1>1. TypeOK'
  BY DEF IInv, TypeOK, storeVars
<1>2. CallsRun'
  BY DEF IInv, CallsRun
<1>3. OneAnswerPerCall'
  BY DEF IInv, OneAnswerPerCall, OnceQueued, Queued, storeVars
<1> QED
  BY <1>1, <1>2, <1>3 DEF IInv

LEMMA NextIInv == IInv /\ [Next]_vars => IInv'
<1> SUFFICES ASSUME IInv, [Next]_vars PROVE IInv'
  OBVIOUS
<1>1. ASSUME NEW c \in Caller, NEW f \in Closure, Call(c, f) PROVE IInv'
  BY <1>1, CallIInv
<1>2. ASSUME NEW c \in Caller, Send(c) PROVE IInv'
  BY <1>2, SendIInv
<1>3. ASSUME NEW c \in Caller, NEW a \in Answer, Receive(c, a) PROVE IInv'
  BY <1>3, ReceiveIInv
<1>4. ASSUME NEW c \in Caller, RunAction(c) PROVE IInv'
  BY <1>4, RunActionIInv
<1>5. CASE RunQuit
  BY <1>5, ControlIInv DEF RunQuit, IInv, TypeOK
<1>6. CASE RunReturn
  BY <1>6, ControlIInv DEF RunReturn, IInv, TypeOK
<1>7. CASE StopCall
  BY <1>7, ControlIInv DEF StopCall, IInv, TypeOK
<1>8. CASE StopReturn
  BY <1>8, ControlIInv DEF StopReturn, IInv, TypeOK
<1>9. CASE UNCHANGED vars
  BY <1>9, ControlIInv DEF vars, storeVars, IInv, TypeOK
<1> QED
  BY <1>1, <1>2, <1>3, <1>4, <1>5, <1>6, <1>7, <1>8, <1>9 DEF Next

\* Every reachable state of the store satisfies the inductive invariant.
THEOREM IInvHolds == Spec => []IInv
BY InitIInv, NextIInv, PTL DEF Spec

\* The variables always have their types: above all, the action channel never
\* exceeds its capacity and the schedule is always a map of maps of tasks.
THEOREM TypeCorrect == Spec => []TypeOK
BY IInvHolds, PTL DEF IInv

\* No closure and no answer of the store is ever lost, duplicated or left for
\* another call, whatever the methods used (ReadTask too).
THEOREM AnswersConserved == Spec => []OneAnswerPerCall
BY IInvHolds, PTL DEF IInv

-----------------------------------------------------------------------------
\* The actor and its callers

\* Only the closure of ReadTask has more to send than its caller receives.
Surplus ==
    serving \in Caller /\ sends # <<>> /\ Tail(sends) # <<>>
      => call[serving].op = "ReadTask"

LEMMA OneLeavesNone ==
    ASSUME NEW a \in Answer
    PROVE  Tail(<<a>>) = <<>>
<1>1. <<a>> \in Seq(Answer) /\ <<a>> # <<>> /\ Len(<<a>>) = 1
  OBVIOUS
<1>2. Tail(<<a>>) \in Seq(Answer) /\ Len(Tail(<<a>>)) = 0
  BY <1>1, HeadTailProperties
<1> QED
  BY <1>2, EmptySeq

LEMMA SurplusInductive == IInv /\ Surplus /\ [Next]_vars => Surplus'
<1> SUFFICES ASSUME IInv, Surplus, [Next]_vars PROVE Surplus'
  OBVIOUS
<1>0. TypeOK /\ \A d \in Caller : Place(d)
  BY Places DEF IInv
<1>1. ASSUME NEW c \in Caller, RunAction(c) PROVE Surplus'
  <2>1. sends = <<>> /\ TypeOK /\ call' = call
    BY <1>1 DEF RunAction, AtSelect, IInv
  <2>2. c = actionCh[1] /\ 1 \in DOMAIN actionCh
    BY <1>1, <2>1, EmptySeq, LenProperties DEF RunAction, TypeOK
  <2>3. call[c] \in Closure
    BY <2>2, Places DEF Queued, IInv, Place, CallsRun
  <2>4. CASE call[c].op = "ReadTask"
    <3>1. sends' = sends \/ serving' = c
      BY <1>1, <2>3, <2>4, ClosureParts DEF RunAction, Execute, ReadTask, Direct
    <3> QED
      BY <2>1, <2>4, <3>1 DEF Surplus
  <2>5. CASE call[c].op # "ReadTask"
    <3>1. sends' = sends \/ \E a \in Answer : serving' = c /\ sends' = <<a>>
      BY <1>1, <2>5, AnswersAreAnswers
         DEF RunAction, Execute, CreateTask, DeleteTask, ReadSchedule, Buffered, Direct
    <3>2. \A a \in Answer : Tail(<<a>>) = <<>>
      BY OneLeavesNone
    <3> QED
      BY <2>1, <3>1, <3>2 DEF Surplus
  <2> QED
    BY <2>4, <2>5
<1>2. ASSUME NEW c \in Caller, NEW a \in Answer, Receive(c, a) PROVE Surplus'
  <2>1. CASE ReceiveBuffered(c, a)
    <3>1. serving # c
      BY <1>0, <2>1 DEF ReceiveBuffered, Place
    <3>2. serving' = serving /\ sends' = sends
      BY <2>1 DEF ReceiveBuffered
    <3>3. \A d \in Caller : d # c => call'[d] = call[d]
      BY <1>0, <2>1 DEF ReceiveBuffered, Return, TypeOK
    <3> QED
      BY <3>1, <3>2, <3>3 DEF Surplus
  <2>2. CASE ReceiveDirect(c, a)
    BY <2>2, NoCallerAssumption DEF ReceiveDirect, Surplus
  <2> QED
    BY <1>2, <2>1, <2>2 DEF Receive
<1>3. ASSUME NEW c \in Caller, NEW f \in Closure, Call(c, f) PROVE Surplus'
  <2>1. serving # c
    BY <1>0, <1>3 DEF Call, Place
  <2>2. serving' = serving /\ sends' = sends
    BY <1>3 DEF Call, storeVars
  <2>3. \A d \in Caller : d # c => call'[d] = call[d]
    BY <1>0, <1>3 DEF Call, TypeOK
  <2> QED
    BY <2>1, <2>2, <2>3 DEF Surplus
<1>4. ASSUME UNCHANGED <<serving, sends, call>> PROVE Surplus'
  BY <1>4 DEF Surplus
<1> QED
  BY <1>1, <1>2, <1>3, <1>4
     DEF Next, Send, RunQuit, RunReturn, StopCall, StopReturn, vars, storeVars

\* A step that leaves the actor sending to nobody takes the one answer its
\* caller waits for, out of several.
LEMMA WedgeStep ==
    ASSUME IInv, Surplus, [Next]_vars, ~Wedged, Wedged'
    PROVE  serving \in Caller /\ call[serving].op = "ReadTask"
<1>1. sends' # <<>> /\ serving' = NoCaller
  BY DEF Wedged
<1>2. ASSUME NEW c \in Caller, RunAction(c) PROVE FALSE
  <2>1. sends = <<>>
    BY <1>2 DEF RunAction, AtSelect
  <2>2. sends' = sends \/ serving' = c
    BY <1>2 DEF RunAction, Execute, CreateTask, DeleteTask, ReadTask,
                ReadSchedule, Buffered, Direct
  <2> QED
    BY <1>1, <2>1, <2>2, NoCallerAssumption
<1>3. ASSUME NEW c \in Caller, NEW a \in Answer, ReceiveDirect(c, a)
      PROVE  serving \in Caller /\ call[serving].op = "ReadTask"
  <2>1. serving = c /\ sends' = Tail(sends) /\ sends # <<>>
    BY <1>3 DEF ReceiveDirect
  <2> QED
    BY <1>1, <2>1 DEF Surplus
<1>4. ASSUME UNCHANGED <<serving, sends>> PROVE FALSE
  BY <1>4 DEF Wedged
<1> QED
  BY <1>2, <1>3, <1>4
     DEF Next, Call, Send, Receive, ReceiveBuffered, RunQuit, RunReturn,
         StopCall, StopReturn, vars, storeVars

\* Of the store's methods only ReadTask can leave the actor waiting for a
\* caller that has gone, however many callers there are.
THEOREM OnlyReadTaskWedgesTheActor == Spec => OnlyReadTaskWedges
<1>1. Init => Surplus
  BY DEF Init, Surplus
<1>2. IInv /\ Surplus /\ [Next]_vars =>
        [~Wedged /\ Wedged' =>
           serving \in Caller /\ call[serving].op = "ReadTask"]_vars
  BY WedgeStep
<1> QED
  BY <1>1, <1>2, SurplusInductive, IInvHolds, PTL DEF Spec, OnlyReadTaskWedges

LEMMA NotWedgedInductive ==
    ASSUME "ReadTask" \notin Op
    PROVE  IInv /\ Surplus /\ ~Wedged /\ [Next]_vars => ~Wedged'
<1> SUFFICES ASSUME IInv, Surplus, ~Wedged, [Next]_vars, Wedged' PROVE FALSE
  OBVIOUS
<1>1. serving \in Caller /\ call[serving].op = "ReadTask"
  BY WedgeStep
<1>2. pc[serving] # "idle"
  BY <1>1, Places DEF IInv, Place
<1>3. call[serving] \in Closure
  BY <1>1, <1>2 DEF IInv, CallsRun
<1> QED
  BY <1>1, <1>3, ClosureParts

\* As long as nobody uses ReadTask (nobody in the repository does), the actor
\* is never stuck sending to a caller that has gone.
THEOREM ActorIsNotWedged ==
    ASSUME "ReadTask" \notin Op
    PROVE  Spec => []~Wedged
<1>1. Init => Surplus /\ ~Wedged
  BY DEF Init, Surplus, Wedged
<1> QED
  BY <1>1, SurplusInductive, NotWedgedInductive, IInvHolds, PTL DEF Spec

-----------------------------------------------------------------------------
\* The tasks

\* A partition's map survives the step, with the tasks that both have.
Kept(p) ==
    /\ p \in DOMAIN Schedule'
    /\ \A k \in DOMAIN Schedule[p] \cap DOMAIN Schedule'[p] :
         Schedule'[p][k] = Schedule[p][k]

LEMMA NextNeverOverwrites ==
    ASSUME [Next]_vars, NEW p \in DOMAIN Schedule
    PROVE  Kept(p)
<1>1. ASSUME NEW c \in Caller, NEW q, NEW k, NEW t, CreateTask(c, q, k, t)
      PROVE  Kept(p)
  <2>1. CASE Found(q, k)
    BY <1>1, <2>1 DEF CreateTask, Kept
  <2>2. CASE ~Found(q, k)
    <3>1. Schedule' = Put(Schedule, q, Put(Tasks(q), k, t))
      BY <1>1, <2>2 DEF CreateTask
    <3>2. CASE p = q
      <4>1. Schedule'[p] = Put(Schedule[p], k, t) /\ p \in DOMAIN Schedule'
        BY <3>1, <3>2 DEF Put, Tasks
      <4>2. k \notin DOMAIN Schedule[p]
        BY <2>2, <3>2 DEF Found, Tasks
      <4> QED
        BY <4>1, <4>2 DEF Kept, Put
    <3>3. CASE p # q
      BY <3>1, <3>3 DEF Put, Kept
    <3> QED
      BY <3>2, <3>3
  <2> QED
    BY <2>1, <2>2
<1>2. ASSUME NEW c \in Caller, NEW q, NEW k, DeleteTask(c, q, k)
      PROVE  Kept(p)
  <2>1. CASE ~Found(q, k)
    BY <1>2, <2>1 DEF DeleteTask, Deleted, Kept
  <2>2. CASE Found(q, k)
    <3>1. Schedule' = Put(Schedule, q, Without(Tasks(q), k))
      BY <1>2, <2>2 DEF DeleteTask, Deleted
    <3>2. CASE p = q
      <4>1. Schedule'[p] = Without(Schedule[p], k) /\ p \in DOMAIN Schedule'
        BY <3>1, <3>2 DEF Put, Tasks
      <4> QED
        BY <4>1 DEF Kept, Without
    <3>3. CASE p # q
      BY <3>1, <3>3 DEF Put, Kept
    <3> QED
      BY <3>2, <3>3
  <2> QED
    BY <2>1, <2>2
<1>3. CASE Schedule' = Schedule
  BY <1>3 DEF Kept
<1>4. ASSUME NEW c \in Caller, RunAction(c) PROVE Kept(p)
  BY <1>1, <1>2, <1>3, <1>4 DEF RunAction, Execute, ReadTask, ReadSchedule
<1> QED
  BY <1>3, <1>4
     DEF Next, Call, Send, Receive, ReceiveBuffered, ReceiveDirect,
         RunQuit, RunReturn, StopCall, StopReturn, vars, storeVars

\* No interleaving of callers replaces a stored task without deleting it first.
THEOREM TasksNeverOverwritten == Spec => NeverOverwrites
<1>1. [Next]_vars =>
        [\A p \in DOMAIN Schedule :
           /\ p \in DOMAIN Schedule'
           /\ \A k \in DOMAIN Schedule[p] \cap DOMAIN Schedule'[p] :
                Schedule'[p][k] = Schedule[p][k]]_vars
  BY NextNeverOverwrites DEF Kept
<1> QED
  BY <1>1, PTL DEF Spec, NeverOverwrites

\* Run has left its loop before Stop gets the confirmation it waits for.
StopOrder == stop \in {"waiting", "returned"} => run # "select"

LEMMA StopOrderInductive ==
    ASSUME StopOrder, [Next]_vars
    PROVE  StopOrder' /\ (stop = "returned" => Schedule' = Schedule)
BY DEF StopOrder, Next, Call, Send, Receive, ReceiveBuffered, ReceiveDirect,
       RunAction, AtSelect, RunQuit, RunReturn, StopCall, StopReturn, vars, storeVars

\* After Stop has returned no closure that is still queued takes effect.
THEOREM NoEffectAfterStop == Spec => NothingAfterStop
<1>1. Init => StopOrder
  BY DEF Init, StopOrder
<1>2. StopOrder /\ [Next]_vars => StopOrder'
  BY StopOrderInductive
<1>3. StopOrder /\ [Next]_vars => [stop = "returned" => Schedule' = Schedule]_vars
  BY StopOrderInductive
<1> QED
  BY <1>1, <1>2, <1>3, PTL DEF Spec, NothingAfterStop

-----------------------------------------------------------------------------
(***************************************************************************)
(* The actor of Database implements the abstract store of TaskStore: its   *)
(* initial state is one of the store's, and under the inductive invariant  *)
(* every step of it is a step of the store or changes nothing the store    *)
(* sees.                                                                   *)
(***************************************************************************)

\* A step that leaves these alone leaves the store's view of a caller alone.
LEMMA SameCaller ==
    ASSUME NEW c, pc'[c] = pc[c], call'[c] = call[c], reply'[c] = reply[c],
           (serving' = c) = (serving = c), serving = c => sends' = sends
    PROVE  /\ Status(c)' = Status(c)
           /\ Asked(c)' = Asked(c)
           /\ Answered(c)' = Answered(c)
BY DEF Status, Asked, Answered, HasAnswer

LEMMA SameTasks ==
    ASSUME Schedule' = Schedule
    PROVE  Entries' = Entries /\ (DOMAIN Schedule)' = DOMAIN Schedule
BY DEF Entries, Found, Tasks

\* Under the invariant, the three kinds of place are the three statuses.
LEMMA StatusOfPlace ==
    ASSUME IInv, NEW c \in Caller
    PROVE  /\ pc[c] = "idle" => ~HasAnswer(c)
           /\ pc[c] = "sending" => ~HasAnswer(c)
           /\ Queued(c) => pc[c] = "waiting" /\ ~HasAnswer(c)
           /\ HasAnswer(c) => pc[c] = "waiting"
BY Places, EmptySeq DEF IInv, TypeOK, Place, HasAnswer

LEMMA InitRefines == Init => Store!Init
<1> SUFFICES ASSUME Init PROVE Store!Init
  OBVIOUS
<1>1. Entries = {}
  BY DEF Init, Entries, Found, Tasks
<1>2. DOMAIN Schedule = {}
  BY DEF Init
<1>3. \A c \in Caller : Status(c) = "idle" /\ Asked(c) = NoCall /\ Answered(c) = Done
  BY NoCallerAssumption DEF Init, Status, Asked, Answered, HasAnswer
<1> QED
  BY <1>1, <1>2, <1>3 DEF Init, Store!Init, Store!Done, Store!Err, Done, Err

LEMMA CallRefines ==
    ASSUME IInv, NEW c \in Caller, NEW f \in Closure, Call(c, f)
    PROVE  Store!Ask(c, f)
<1>1. Entries' = Entries /\ DOMAIN Schedule' = DOMAIN Schedule /\ run' = run
  BY SameTasks DEF Call, storeVars
<1>2. /\ Status(c) = "idle" /\ Status(c)' = "asking"
      /\ Asked(c)' = f
      /\ Answered(c)' = Answered(c)
  BY StatusOfPlace DEF Call, storeVars, Status, Asked, Answered, HasAnswer, IInv, TypeOK
<1>3. ASSUME NEW d \in Caller, d # c
      PROVE  Status(d)' = Status(d) /\ Asked(d)' = Asked(d) /\ Answered(d)' = Answered(d)
  BY <1>3, SameCaller DEF Call, storeVars, IInv, TypeOK
<1> QED
  BY <1>1, <1>2, <1>3 DEF Store!Ask

LEMMA SendRefines ==
    ASSUME IInv, NEW c \in Caller, Send(c)
    PROVE  UNCHANGED Store!vars
<1>1. Entries' = Entries /\ DOMAIN Schedule' = DOMAIN Schedule /\ run' = run
  BY SameTasks DEF Send, storeVars
<1>2. ASSUME NEW d \in Caller
      PROVE  Status(d)' = Status(d) /\ Asked(d)' = Asked(d) /\ Answered(d)' = Answered(d)
  <2>1. CASE d = c
    BY <2>1 DEF Send, storeVars, Status, Asked, Answered, HasAnswer, IInv, TypeOK
  <2>2. CASE d # c
    BY <2>2, SameCaller DEF Send, storeVars, IInv, TypeOK
  <2> QED
    BY <2>1, <2>2
<1> QED
  BY <1>1, <1>2 DEF Store!vars

LEMMA ReceiveRefines ==
    ASSUME IInv, NEW c \in Caller, NEW a \in Answer, Receive(c, a)
    PROVE  Store!Return(c)
<1>1. Entries' = Entries /\ DOMAIN Schedule' = DOMAIN Schedule /\ run' = run
  BY SameTasks DEF Receive, ReceiveBuffered, ReceiveDirect
<1>2. HasAnswer(c) /\ pc[c] = "waiting" /\ Status(c) = "answered" /\ Asked(c) = NoCall
  BY DEF Receive, ReceiveBuffered, ReceiveDirect, HasAnswer, Status, Asked
<1>3. pc' = [pc EXCEPT ![c] = "idle"] /\ call' = [call EXCEPT ![c] = NoCall]
  BY DEF Receive, ReceiveBuffered, ReceiveDirect, Return
<1>4. reply'[c] = <<>> /\ serving' # c
  <2>1. CASE ReceiveBuffered(c, a)
    BY <2>1, Places DEF ReceiveBuffered, IInv, TypeOK, Place
  <2>2. CASE ReceiveDirect(c, a)
    BY <2>2, Places, NoCallerAssumption DEF ReceiveDirect, IInv, TypeOK, Place
  <2> QED
    BY <2>1, <2>2 DEF Receive
<1>5. Status(c)' = "idle" /\ Asked(c)' = NoCall /\ Answered(c)' = Done
  BY <1>3, <1>4 DEF Status, Asked, Answered, HasAnswer, IInv, TypeOK
<1>6. ASSUME NEW d \in Caller, d # c
      PROVE  Status(d)' = Status(d) /\ Asked(d)' = Asked(d) /\ Answered(d)' = Answered(d)
  <2>1. pc'[d] = pc[d] /\ call'[d] = call[d]
    BY <1>3, <1>6 DEF IInv, TypeOK
  <2>2. CASE ReceiveBuffered(c, a)
    <3>1. reply'[d] = reply[d] /\ serving' = serving /\ sends' = sends
      BY <1>6, <2>2 DEF ReceiveBuffered, IInv, TypeOK
    <3> QED
      BY <2>1, <3>1, SameCaller
  <2>3. CASE ReceiveDirect(c, a)
    <3>1. reply'[d] = reply[d] /\ serving = c /\ serving' = NoCaller
      BY <2>3 DEF ReceiveDirect
    <3>2. (serving' = d) = (serving = d) /\ serving # d
      BY <1>6, <3>1, NoCallerAssumption
    <3> QED
      BY <2>1, <3>1, <3>2, SameCaller
  <2> QED
    BY <2>2, <2>3 DEF Receive
<1> QED
  BY <1>1, <1>2, <1>5, <1>6 DEF Store!Return, Store!Done, Store!Err, Done, Err

\* Executing a closure answers its caller and changes nobody else's status.
LEMMA BufferedAnswers ==
    ASSUME IInv, NEW c \in Caller, RunAction(c), NEW a \in Answer, Buffered(c, a)
    PROVE  /\ Store!Answered(c, a)
           /\ Status(c) = "asking" /\ Asked(c) = call[c]
<1>1. Queued(c) /\ pc[c] = "waiting" /\ reply[c] = <<>> /\ serving = NoCaller
  <2>1. c = actionCh[1] /\ 1 \in DOMAIN actionCh
    BY EmptySeq, LenProperties DEF RunAction, IInv, TypeOK
  <2> QED
    BY <2>1, Places, AtSelectServesNobody DEF Queued, IInv, Place, RunAction
<1>2. /\ reply'[c] = Append(<<>>, a) /\ Append(<<>>, a) # <<>>
      /\ Head(Append(<<>>, a)) = a
      /\ pc' = pc /\ call' = call /\ serving' = serving /\ sends' = sends
  BY <1>1 DEF Buffered, RunAction, IInv, TypeOK
<1>3. /\ Status(c) = "asking" /\ Asked(c) = call[c]
      /\ Status(c)' = "answered" /\ Asked(c)' = NoCall /\ Answered(c)' = a
  BY <1>1, <1>2, NoCallerAssumption DEF Status, Asked, Answered, HasAnswer
<1>4. ASSUME NEW d \in Caller, d # c
      PROVE  Status(d)' = Status(d) /\ Asked(d)' = Asked(d) /\ Answered(d)' = Answered(d)
  <2>1. reply'[d] = reply[d]
    BY <1>4 DEF Buffered, IInv, TypeOK
  <2> QED
    BY <1>2, <2>1, SameCaller
<1> QED
  BY <1>3, <1>4 DEF Store!Answered

LEMMA DirectAnswers ==
    ASSUME IInv, NEW c \in Caller, RunAction(c),
           NEW s \in Seq(Answer), s # <<>>, Direct(c, s)
    PROVE  /\ Store!Answered(c, Head(s))
           /\ Status(c) = "asking" /\ Asked(c) = call[c]
<1>1. Queued(c) /\ pc[c] = "waiting" /\ reply[c] = <<>> /\ serving = NoCaller
  <2>1. c = actionCh[1] /\ 1 \in DOMAIN actionCh
    BY EmptySeq, LenProperties DEF RunAction, IInv, TypeOK
  <2> QED
    BY <2>1, Places, AtSelectServesNobody DEF Queued, IInv, Place, RunAction
<1>2. pc' = pc /\ call' = call /\ serving' = c /\ sends' = s /\ reply' = reply
  BY DEF Direct, RunAction
<1>3. /\ Status(c) = "asking" /\ Asked(c) = call[c]
      /\ Status(c)' = "answered" /\ Asked(c)' = NoCall /\ Answered(c)' = Head(s)
  BY <1>1, <1>2, NoCallerAssumption DEF Status, Asked, Answered, HasAnswer
<1>4. ASSUME NEW d \in Caller, d # c
      PROVE  Status(d)' = Status(d) /\ Asked(d)' = Asked(d) /\ Answered(d)' = Answered(d)
  <2>1. (serving' = d) = (serving = d) /\ serving # d
    BY <1>1, <1>2, <1>4, NoCallerAssumption
  <2> QED
    BY <1>2, <2>1, SameCaller
<1> QED
  BY <1>3, <1>4 DEF Store!Answered

-----------------------------------------------------------------------------
\* The nested maps as a set of triples

LEMMA FoundIsEntry ==
    ASSUME TypeOK, NEW p \in PartitionKey, NEW k \in SortKey
    PROVE  /\ ~Found(p, k) => Store!At(p, k) = {}
           /\ Found(p, k) => /\ Tasks(p)[k] \in Task
                             /\ Store!At(p, k) = {<<p, k, Tasks(p)[k]>>}
<1>1. ASSUME ~Found(p, k) PROVE Store!At(p, k) = {}
  BY <1>1 DEF Store!At, Entries
<1>2. ASSUME Found(p, k)
      PROVE  Tasks(p)[k] \in Task /\ Store!At(p, k) = {<<p, k, Tasks(p)[k]>>}
  <2>1. Tasks(p) \in [DOMAIN Tasks(p) -> Task]
    BY TasksIsMap, MapFacts DEF TypeOK
  <2>2. Tasks(p)[k] \in Task
    BY <1>2, <2>1 DEF Found
  <2>3. ASSUME NEW e \in Store!At(p, k) PROVE e = <<p, k, Tasks(p)[k]>>
    BY <2>3 DEF Store!At, Entries
  <2>4. <<p, k, Tasks(p)[k]>> \in Store!At(p, k)
    BY <1>2, <2>2 DEF Store!At, Entries
  <2> QED
    BY <2>2, <2>3, <2>4
<1> QED
  BY <1>1, <1>2

\* Storing a map for p changes the tasks of p and of no other partition.
LEMMA TasksAfterPut ==
    ASSUME NEW p, NEW m, Schedule' = Put(Schedule, p, m), NEW q
    PROVE  Tasks(q)' = IF q = p THEN m ELSE Tasks(q)
BY DEF Put, Tasks

LEMMA CreateEntries ==
    ASSUME TypeOK, NEW p \in PartitionKey, NEW k \in SortKey, NEW t \in Task,
           ~Found(p, k), Schedule' = Put(Schedule, p, Put(Tasks(p), k, t))
    PROVE  /\ Entries' = Entries \cup {<<p, k, t>>}
           /\ DOMAIN Schedule' = DOMAIN Schedule \cup {p}
<1>1. ASSUME NEW q PROVE Tasks(q)' = IF q = p THEN Put(Tasks(p), k, t) ELSE Tasks(q)
  BY TasksAfterPut
<1>2. ASSUME NEW q \in PartitionKey, NEW j \in SortKey, NEW u \in Task
      PROVE  (Found(q, j)' /\ Tasks(q)'[j] = u)
               <=> (\/ Found(q, j) /\ Tasks(q)[j] = u
                    \/ q = p /\ j = k /\ u = t)
  BY <1>1 DEF Found, Put
<1>3. ASSUME NEW e PROVE e \in Entries' <=> e \in Entries \cup {<<p, k, t>>}
  <2>1. e \in Entries' <=> /\ e \in PartitionKey \X SortKey \X Task
                           /\ Found(e[1], e[2])' /\ Tasks(e[1])'[e[2]] = e[3]
    BY DEF Entries
  <2>2. CASE e \in PartitionKey \X SortKey \X Task
    <3>1. PICK q \in PartitionKey, j \in SortKey, u \in Task : e = <<q, j, u>>
      BY <2>2
    <3> QED
      BY <1>2, <2>1, <3>1 DEF Entries
  <2>3. CASE e \notin PartitionKey \X SortKey \X Task
    BY <2>1, <2>3 DEF Entries
  <2> QED
    BY <2>2, <2>3
<1>4. DOMAIN Schedule' = DOMAIN Schedule \cup {p}
  BY DEF Put
<1> QED
  BY <1>3, <1>4

LEMMA DeleteEntries ==
    ASSUME TypeOK, NEW p \in PartitionKey, NEW k \in SortKey,
           Found(p, k), Schedule' = Put(Schedule, p, Without(Tasks(p), k))
    PROVE  /\ Entries' = Entries \ Store!At(p, k)
           /\ DOMAIN Schedule' = DOMAIN Schedule
<1>1. ASSUME NEW q PROVE Tasks(q)' = IF q = p THEN Without(Tasks(p), k) ELSE Tasks(q)
  BY TasksAfterPut
<1>2. ASSUME NEW q \in PartitionKey, NEW j \in SortKey, NEW u \in Task
      PROVE  (Found(q, j)' /\ Tasks(q)'[j] = u)
               <=> (Found(q, j) /\ Tasks(q)[j] = u /\ ~(q = p /\ j = k))
  BY <1>1 DEF Found, Without
<1>3. ASSUME NEW e PROVE e \in Entries' <=> e \in Entries \ Store!At(p, k)
  <2>1. e \in Entries' <=> /\ e \in PartitionKey \X SortKey \X Task
                           /\ Found(e[1], e[2])' /\ Tasks(e[1])'[e[2]] = e[3]
    BY DEF Entries
  <2>2. CASE e \in PartitionKey \X SortKey \X Task
    <3>1. PICK q \in PartitionKey, j \in SortKey, u \in Task : e = <<q, j, u>>
      BY <2>2
    <3> QED
      BY <1>2, <2>1, <3>1 DEF Entries, Store!At
  <2>3. CASE e \notin PartitionKey \X SortKey \X Task
    BY <2>1, <2>3 DEF Entries
  <2> QED
    BY <2>2, <2>3
<1>4. DOMAIN Schedule' = DOMAIN Schedule
  BY DEF Put, Found, Tasks
<1> QED
  BY <1>3, <1>4

-----------------------------------------------------------------------------
\* The actor's step is the store's commit.

LEMMA RunActionRefines ==
    ASSUME IInv, NEW c \in Caller, RunAction(c)
    PROVE  Store!Commit(c)
<1> DEFINE f == call[c]
           p == f.partitionKey
           k == f.sortKey
<1>1. TypeOK /\ f \in Closure /\ p \in PartitionKey
  <2>1. c = actionCh[1] /\ 1 \in DOMAIN actionCh
    BY EmptySeq, LenProperties DEF RunAction, IInv, TypeOK
  <2>2. pc[c] # "idle"
    BY <2>1, Places DEF Queued, IInv, Place
  <2>3. f \in Closure
    BY <2>2 DEF IInv, CallsRun
  <2> QED
    BY <2>3, ClosureParts DEF IInv
<1>2. run = "select" /\ run' = run /\ Execute(c, f)
  BY DEF RunAction, AtSelect
<1>3. Done \in Answer /\ Store!Done = Done
      /\ \A e \in Error : Err(e) \in Answer /\ Store!Err(e) = Err(e)
  BY DEF Done, Err, Answer, Error, Store!Done, Store!Err
<1>4. CASE f.op = "CreateTask"
  <2>0. k \in SortKey /\ f.task \in Task /\ CreateTask(c, p, k, f.task)
    BY <1>1, <1>2, <1>4, ClosureParts DEF Execute
  <2>1. CASE Found(p, k)
    <3>1. Buffered(c, Err("Task already exists")) /\ Schedule' = Schedule
      BY <2>0, <2>1 DEF CreateTask
    <3>2. /\ Store!Answered(c, Err("Task already exists"))
          /\ Status(c) = "asking" /\ Asked(c) = f
      BY <1>3, <3>1, BufferedAnswers DEF Error
    <3>3. Store!At(p, k) # {}
      BY <1>1, <2>0, <2>1, FoundIsEntry
    <3>4. Entries' = Entries /\ DOMAIN Schedule' = DOMAIN Schedule
      BY <3>1, SameTasks
    <3> QED
      BY <1>2, <1>3, <1>4, <3>2, <3>3, <3>4
         DEF Store!Commit, Store!Create, Store!Asking, Error
  <2>2. CASE ~Found(p, k)
    <3>1. /\ Schedule' = Put(Schedule, p, Put(Tasks(p), k, f.task))
          /\ Buffered(c, Done)
      BY <2>0, <2>2 DEF CreateTask
    <3>2. Store!Answered(c, Done) /\ Status(c) = "asking" /\ Asked(c) = f
      BY <1>3, <3>1, BufferedAnswers
    <3>3. Store!At(p, k) = {}
      BY <1>1, <2>0, <2>2, FoundIsEntry
    <3>4. /\ Entries' = Entries \cup {<<p, k, f.task>>}
          /\ DOMAIN Schedule' = DOMAIN Schedule \cup {p}
      BY <1>1, <2>0, <2>2, <3>1, CreateEntries
    <3> QED
      BY <1>2, <1>3, <1>4, <3>2, <3>3, <3>4
         DEF Store!Commit, Store!Create, Store!Asking
  <2> QED
    BY <2>1, <2>2
<1>5. CASE f.op = "DeleteTask"
  <2>0. k \in SortKey /\ DeleteTask(c, p, k)
    BY <1>1, <1>2, <1>5, ClosureParts DEF Execute
  <2>1. ASSUME NEW a \in Answer, Direct(c, <<a>>)
        PROVE  Store!Answered(c, a) /\ Status(c) = "asking" /\ Asked(c) = f
    <3>1. <<a>> \in Seq(Answer) /\ <<a>> # <<>> /\ Head(<<a>>) = a
      OBVIOUS
    <3> QED
      BY <2>1, <3>1, DirectAnswers
  <2>2. CASE Found(p, k)
    <3>1. /\ Schedule' = Put(Schedule, p, Without(Tasks(p), k))
          /\ Direct(c, <<Done>>)
      BY <2>0, <2>2 DEF DeleteTask, Deleted
    <3>2. Store!Answered(c, Done) /\ Status(c) = "asking" /\ Asked(c) = f
      BY <1>3, <2>1, <3>1
    <3>3. Store!At(p, k) # {}
      BY <1>1, <2>0, <2>2, FoundIsEntry
    <3>4. Entries' = Entries \ Store!At(p, k) /\ DOMAIN Schedule' = DOMAIN Schedule
      BY <1>1, <2>0, <2>2, <3>1, DeleteEntries
    <3> QED
      BY <1>2, <1>3, <1>5, <3>2, <3>3, <3>4
         DEF Store!Commit, Store!Delete, Store!Asking
  <2>3. CASE ~Found(p, k)
    <3>1. Schedule' = Schedule /\ Direct(c, <<Err("Task doesnt exists")>>)
      BY <2>0, <2>3 DEF DeleteTask, Deleted
    <3>2. /\ Store!Answered(c, Err("Task doesnt exists"))
          /\ Status(c) = "asking" /\ Asked(c) = f
      BY <1>3, <2>1, <3>1 DEF Error
    <3>3. Store!At(p, k) = {}
      BY <1>1, <2>0, <2>3, FoundIsEntry
    <3>4. Entries' = Entries \ Store!At(p, k) /\ DOMAIN Schedule' = DOMAIN Schedule
      BY <3>1, <3>3, SameTasks
    <3> QED
      BY <1>2, <1>3, <1>5, <3>2, <3>3, <3>4
         DEF Store!Commit, Store!Delete, Store!Asking, Error
  <2> QED
    BY <2>2, <2>3
<1>6. CASE f.op = "ReadSchedule"
  <2>1. /\ Schedule' = Schedule
        /\ Buffered(c, IF p \in DOMAIN Schedule
                       THEN Done ELSE Err("Schedule doesnt exist"))
    BY <1>2, <1>6 DEF Execute, ReadSchedule
  <2>2. /\ Store!Answered(c, IF p \in DOMAIN Schedule
                             THEN Done ELSE Err("Schedule doesnt exist"))
        /\ Status(c) = "asking" /\ Asked(c) = f
    BY <1>3, <2>1, BufferedAnswers DEF Error
  <2>3. Entries' = Entries /\ DOMAIN Schedule' = DOMAIN Schedule
    BY <2>1, SameTasks
  <2> QED
    BY <1>2, <1>3, <1>6, <2>2, <2>3
       DEF Store!Commit, Store!ReadAll, Store!Asking, Error
<1>7. CASE f.op = "ReadTask"
  <2> DEFINE missing == Err("Task doesnt exists")
             one == IF Found(p, k) THEN <<Got(Tasks(p)[k])>> ELSE <<>>
             two == IF p \in DOMAIN Schedule THEN <<missing>> ELSE <<>>
             s == one \o two \o <<missing>>
  <2>0. k \in SortKey /\ Schedule' = Schedule /\ Direct(c, s)
    BY <1>1, <1>2, <1>7, ClosureParts DEF Execute, ReadTask
  <2>1. Entries' = Entries /\ DOMAIN Schedule' = DOMAIN Schedule
    BY <2>0, SameTasks
  <2>2. missing \in Answer
    BY <1>3 DEF Error
  <2>3. CASE Found(p, k)
    <3>1. /\ Tasks(p)[k] \in Task
          /\ Store!At(p, k) = {<<p, k, Tasks(p)[k]>>}
      BY <1>1, <2>0, <2>3, FoundIsEntry
    <3>2. Got(Tasks(p)[k]) \in Answer
      BY <3>1, AnswersAreAnswers
    <3>3. p \in DOMAIN Schedule
      BY <2>3 DEF Found, Tasks
    <3> DEFINE g == Got(Tasks(p)[k])
    <3>4. s = <<g>> \o <<missing>> \o <<missing>>
      BY <2>3, <3>3
    <3> HIDE DEF s, g, missing
    <3>5. s \in Seq(Answer) /\ s # <<>> /\ Head(s) = g
      BY <2>2, <3>2, <3>4 DEF g
    <3>6. Store!Answered(c, g) /\ Status(c) = "asking" /\ Asked(c) = f
      BY <2>0, <3>5, DirectAnswers
    <3>7. \E e \in Store!At(p, k) : Store!Answered(c, Store!Got(e[3]))
      BY <3>1, <3>6 DEF g, Got, Store!Got
    <3> QED
      BY <1>2, <1>7, <2>1, <3>6, <3>7
         DEF Store!Commit, Store!ReadOne, Store!Asking
  <2>4. CASE ~Found(p, k)
    <3>1. Store!At(p, k) = {}
      BY <1>1, <2>0, <2>4, FoundIsEntry
    <3>2. s = (IF p \in DOMAIN Schedule THEN <<missing>> ELSE <<>>) \o <<missing>>
      <4>1. one = <<>>
        BY <2>4
      <4>0. two \in Seq(Answer)
        <5> HIDE DEF missing
        <5> QED
          BY <2>2
      <4> HIDE DEF one, two, missing
      <4>2. <<>> \o two = two
        BY <4>0, ConcatEmptySeq
      <4> QED
        BY <4>1, <4>2 DEF two
    <3> HIDE DEF s, missing
    <3>3. s \in Seq(Answer) /\ s # <<>> /\ Head(s) = missing
      BY <2>2, <3>2
    <3>4. Store!Answered(c, missing) /\ Status(c) = "asking" /\ Asked(c) = f
      BY <2>0, <3>3, DirectAnswers
    <3> QED
      BY <1>2, <1>3, <1>7, <2>1, <3>1, <3>4
         DEF Store!Commit, Store!ReadOne, Store!Asking, Error, missing
  <2> QED
    BY <2>3, <2>4
<1> QED
  BY <1>1, <1>4, <1>5, <1>6, <1>7, ClosureParts DEF Methods

LEMMA NextRefines == IInv /\ [Next]_vars => [Store!Next]_(Store!vars)
<1> SUFFICES ASSUME IInv, [Next]_vars
             PROVE  Store!Next \/ UNCHANGED Store!vars
  OBVIOUS
<1>1. ASSUME NEW c \in Caller, NEW f \in Closure, Call(c, f) PROVE Store!Next
  <2>1. f \in Store!Closure
    BY DEF Closure, Store!Closure
  <2> QED
    BY <1>1, <2>1, CallRefines DEF Store!Next
<1>2. ASSUME NEW c \in Caller, Send(c) PROVE UNCHANGED Store!vars
  BY <1>2, SendRefines
<1>3. ASSUME NEW c \in Caller, NEW a \in Answer, Receive(c, a) PROVE Store!Next
  BY <1>3, ReceiveRefines DEF Store!Next
<1>4. ASSUME NEW c \in Caller, RunAction(c) PROVE Store!Next
  BY <1>4, RunActionRefines DEF Store!Next
<1>s. ASSUME UNCHANGED <<storeVars, actionCh, pc, call>>
      PROVE  /\ Entries' = Entries /\ DOMAIN Schedule' = DOMAIN Schedule
             /\ \A d \in Caller : /\ Status(d)' = Status(d)
                                  /\ Asked(d)' = Asked(d)
                                  /\ Answered(d)' = Answered(d)
  BY <1>s, SameTasks, SameCaller DEF storeVars
<1>5. CASE RunQuit
  <2>1. run = "select" /\ run' = "closing"
    BY <1>5 DEF RunQuit, AtSelect
  <2> QED
    BY <1>5, <1>s, <2>1 DEF RunQuit, Store!Next, Store!Close
<1>6. CASE RunReturn
  BY <1>6, <1>s DEF RunReturn, Store!vars
<1>7. CASE StopCall
  BY <1>7, <1>s DEF StopCall, Store!vars
<1>8. CASE StopReturn
  BY <1>8, <1>s DEF StopReturn, Store!vars
<1>9. CASE UNCHANGED vars
  BY <1>9, <1>s DEF vars, storeVars, Store!vars
<1> QED
  BY <1>1, <1>2, <1>3, <1>4, <1>5, <1>6, <1>7, <1>8, <1>9 DEF Next

\* The store as it is built, with its actor, its queue and its channels,
\* implements the store its callers rely on: every operation takes effect
\* atomically at one instant between its call and its return.
THEOREM DatabaseImplementsTaskStore == Spec => ImplementsStore
BY InitRefines, NextRefines, IInvHolds, PTL DEF Spec, ImplementsStore, Store!Spec
=============================================================================
