----------------------------- MODULE StoreTypes -----------------------------
(***************************************************************************)
(* The vocabulary of the in-memory store (internal/data/database.go): the  *)
(* keys and tasks it holds, the closures its methods put on the action     *)
(* channel and the values those closures send back.  The abstract store    *)
(* (TaskStore) and the actor that implements it (Database) share it.       *)
(***************************************************************************)
CONSTANTS
    Caller,        \* goroutines that call the store (one RPC handler each)
    PartitionKey,  \* a driver's name and a week
    SortKey,       \* a day and a start hour
    Task,          \* operation, start hour and duration
    Op,            \* the methods the callers use
    NoCaller,      \* "nobody": not a caller
    NoCall,        \* what a caller that is outside the store is running
    NoTask         \* the zero Task of an answer that carries none

Methods == {"CreateTask", "DeleteTask", "ReadTask", "ReadSchedule"}

ASSUME OpAssumption == Op \subseteq Methods
ASSUME NoCallerAssumption == NoCaller \notin Caller

\* A closure, with the variables it captures.
Closure ==
    {f \in [op : {"CreateTask"}, partitionKey : PartitionKey,
            sortKey : SortKey, task : Task]
         \cup [op : {"DeleteTask", "ReadTask"}, partitionKey : PartitionKey,
               sortKey : SortKey]
         \cup [op : {"ReadSchedule"}, partitionKey : PartitionKey] :
       f.op \in Op}

\* What a channel of the store carries: an error, or none and (for ReadTask)
\* a task.  ReadSchedule's map travels by reference: the answer without an
\* error stands for the live map of the partition that was asked for.
Error == {"none", "Task already exists", "Task doesnt exists",
          "Schedule doesnt exist"}
Answer == [err : Error, task : Task \cup {NoTask}]

Err(e) == [err |-> e, task |-> NoTask]
Done == Err("none")
Got(t) == [err |-> "none", task |-> t]

\* Go maps: the functions from some of the keys to values.
PartialMaps(Key, Value) == UNION {[D -> Value] : D \in SUBSET Key}

\* m[k] = v
Put(m, k, v) == [j \in DOMAIN m \cup {k} |-> IF j = k THEN v ELSE m[j]]

\* delete(m, k)
Without(m, k) == [j \in DOMAIN m \ {k} |-> m[j]]

=============================================================================
