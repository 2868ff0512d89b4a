------------------------------ MODULE MCDatabase ------------------------------
(* Instances of Database for TLC: what the keys are is in the .cfg. *)
EXTENDS Database

AllOps == Methods
=============================================================================
