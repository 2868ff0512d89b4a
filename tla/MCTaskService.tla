---------------------------- MODULE MCTaskService ----------------------------
(***************************************************************************)
(* Instances of TaskService for TLC.  In one clients write the same few    *)
(* hours of a day; in the others they write two days while one reads.      *)
(***************************************************************************)
EXTENDS TaskService

\* "08:30" names the same hour as "08:00"; "xx:00" names none, "8" is short.
Texts == {"08:00", "08:30", "09:00", "xx:00", "8"}
HourNumbers == [h \in {"08:00", "08:30", "09:00"} |->
                  IF h = "09:00" THEN 9 ELSE 8]

Create(p, d, h, w) ==
    [rpc |-> "CreateTask", partitionKey |-> p, day |-> d, startHour |-> h, work |-> w]
Delete(p, d, h) ==
    [rpc |-> "DeleteTask", partitionKey |-> p, day |-> d, startHour |-> h]
Update(p, d, hs, h, w) ==
    [rpc |-> "UpdateTask", partitionKey |-> p, day |-> d, startHour |-> hs,
     newStartHour |-> h, work |-> w]
Read(p) == [rpc |-> "ReadSchedule", partitionKey |-> p]

\* Updates that move a task, merge two, name one twice, end in a text that is
\* no hour, and lose the race for their new hour.
WriteRequests ==
    UNION {{Create(p, d, "08:00", w), Create(p, d, "09:00", w),
            Delete(p, d, "08:30"), Delete(p, d, "8"),
            Update(p, d, <<"08:00">>, "09:00", w),
            Update(p, d, <<"08:00", "09:00">>, "08:00", w),
            Update(p, d, <<"08:00", "08:30">>, "09:00", w),
            Update(p, d, <<"09:00", "xx:00">>, "09:00", w)} :
             p \in PartitionKey, d \in Day, w \in Work}

\* Two days, of which one has two hours.
ReadRequests ==
    UNION {{Read(p), Create(p, 1, "08:00", w), Create(p, 1, "09:00", w),
            Create(p, 2, "08:00", w), Delete(p, 1, "08:00"),
            Delete(p, 2, "08:00")} : p \in PartitionKey, w \in Work}

OneDay == {1}
TwoDays == {1, 2}
Capacity == 1
=============================================================================
