------------------------------- MODULE MCStream -------------------------------
(* An instance of Stream for TLC. *)
EXTENDS Stream

KnownRoles == {"dispatcher", "driver"}
AnyRole == {"driver", "visitor"}  \* both known roles take the same path
=============================================================================
