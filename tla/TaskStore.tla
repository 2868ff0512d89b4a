------------------------------ MODULE TaskStore ------------------------------
(***************************************************************************)
(* What internal/data/database.go promises its callers: a store of at most *)
(* one task per partition key and sort key, whose operations take effect   *)
(* one at a time, each at some instant between its call and its return,    *)
(* until the store is closed.  Database.tla is shown to implement this.    *)
(***************************************************************************)
EXTENDS StoreTypes, FiniteSets

VARIABLES
    entries,  \* the tasks: triples of partition key, sort key and task
    known,    \* the partitions that ever held a task
    open,     \* FALSE once the store has been stopped
    status,   \* of each caller: outside the store, asking, or answered
    asked,    \* the closure of each caller that is asking
    answer    \* the answer of each caller that has one, else "none"

vars == <<entries, known, open, status, asked, answer>>

TypeOK ==
    /\ entries \subseteq PartitionKey \X SortKey \X Task
    /\ known \subseteq PartitionKey
    /\ open \in BOOLEAN
    /\ status \in [Caller -> {"idle", "asking", "answered"}]
    /\ asked \in [Caller -> Closure \cup {NoCall}]
    /\ answer \in [Caller -> Answer]

Init ==
    /\ entries = {}
    /\ known = {}
    /\ open = TRUE
    /\ status = [c \in Caller |-> "idle"]
    /\ asked = [c \in Caller |-> NoCall]
    /\ answer = [c \in Caller |-> Done]

At(p, k) == {e \in entries : e[1] = p /\ e[2] = k}

Ask(c, f) ==
    /\ status[c] = "idle"
    /\ status' = [status EXCEPT ![c] = "asking"]
    /\ asked' = [asked EXCEPT ![c] = f]
    /\ UNCHANGED <<entries, known, open, answer>>

Answered(c, a) ==
    /\ status' = [status EXCEPT ![c] = "answered"]
    /\ asked' = [asked EXCEPT ![c] = NoCall]
    /\ answer' = [answer EXCEPT ![c] = a]

Asking(c, op) ==
    /\ open
    /\ status[c] = "asking"
    /\ asked[c].op = op

Create(c) ==
    /\ Asking(c, "CreateTask")
    /\ LET f == asked[c] IN
       \/ /\ At(f.partitionKey, f.sortKey) = {}
          /\ entries' = entries \cup {<<f.partitionKey, f.sortKey, f.task>>}
          /\ known' = known \cup {f.partitionKey}
          /\ Answered(c, Done)
       \/ /\ At(f.partitionKey, f.sortKey) # {}
          /\ Answered(c, Err("Task already exists"))
          /\ UNCHANGED <<entries, known>>
    /\ UNCHANGED open

Delete(c) ==
    /\ Asking(c, "DeleteTask")
    /\ LET f == asked[c] IN
       /\ entries' = entries \ At(f.partitionKey, f.sortKey)
       /\ Answered(c, IF At(f.partitionKey, f.sortKey) = {}
                      THEN Err("Task doesnt exists") ELSE Done)
    /\ UNCHANGED <<known, open>>

ReadOne(c) ==
    /\ Asking(c, "ReadTask")
    /\ LET f == asked[c] IN
       \/ \E e \in At(f.partitionKey, f.sortKey) : Answered(c, Got(e[3]))
       \/ /\ At(f.partitionKey, f.sortKey) = {}
          /\ Answered(c, Err("Task doesnt exists"))
    /\ UNCHANGED <<entries, known, open>>

ReadAll(c) ==
    /\ Asking(c, "ReadSchedule")
    /\ Answered(c, IF asked[c].partitionKey \in known
                   THEN Done ELSE Err("Schedule doesnt exist"))
    /\ UNCHANGED <<entries, known, open>>

Commit(c) == Create(c) \/ Delete(c) \/ ReadOne(c) \/ ReadAll(c)

Return(c) ==
    /\ status[c] = "answered"
    /\ status' = [status EXCEPT ![c] = "idle"]
    /\ answer' = [answer EXCEPT ![c] = Done]
    /\ UNCHANGED <<entries, known, open, asked>>

Close ==
    /\ open
    /\ open' = FALSE
    /\ UNCHANGED <<entries, known, status, asked, answer>>

Next ==
    \/ \E c \in Caller :
         \/ \E f \in Closure : Ask(c, f)
         \/ Commit(c)
         \/ Return(c)
    \/ Close

Spec == Init /\ [][Next]_vars

\* While the store is open every call is answered, and every answer is taken.
Liveness == \A c \in Caller : WF_vars(Commit(c)) /\ WF_vars(Return(c))

FairSpec == Spec /\ Liveness

OneTaskPerSlot ==
    \A e, g \in entries : e[1] = g[1] /\ e[2] = g[2] => e[3] = g[3]

=============================================================================
