------------------------------- MODULE MCWebRPC -------------------------------
(* Calls of both generated clients and of others for one slot, for TLC. *)
EXTENDS WebRPC, TLC

Sent(by, path, body, s) ==
    [by |-> by, verb |-> "POST", path |-> path, type |-> "json",
     body |-> body, slot |-> s, to |-> s]

\* Every method, each kind of body where it matters most, every path, and what
\* only other clients send.
SomeRequests ==
    UNION {
      {Sent("go", m, "good", s) : m \in Method \cup {"elsewhere"}}
      \cup {Sent("browser", m, "good", s) :
              m \in {"CreateTask", "ReadSchedule", "elsewhere"}}
      \cup {Sent("go", "CreateTask", "nil", s),
            Sent("go", "UpdateTask", "bad hour", s),
            Sent("browser", "UpdateTask", "short hour", s),
            Sent("other", "DeleteTask", "malformed", s),
            Sent("other", "unknown", "good", s),
            [Sent("other", "CreateTask", "good", s) EXCEPT !.verb = "GET"],
            [Sent("other", "UpdateTask", "good", s) EXCEPT !.type = "other"]} :
      s \in Slot}

Symmetry == Permutations(Call)
=============================================================================
