---------------------------- MODULE MCCreateView ----------------------------
(* An instance of CreateView for TLC: a day of five hours. *)
EXTENDS CreateView

FiveHours == 5
=============================================================================
