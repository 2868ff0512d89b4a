----------------------------- MODULE MCDashboard -----------------------------
(* Instances of Dashboard for TLC. *)
EXTENDS Dashboard

ThreeHours == 3

\* Pages are only compared with each other.
Symmetry == Permutations(Page)

\* Bound: when the user has not been careful, or something has been lost, the
\* run is followed while there are two tasks at most, on all pages together.
FewTasksOnceCareless ==
    careful \/ Cardinality(UNION {{p} \X tasks[p] : p \in Page}) <= 2
=============================================================================
