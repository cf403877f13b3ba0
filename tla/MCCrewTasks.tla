---------------------------- MODULE MCCrewTasks ----------------------------
(* Model checking of CrewTasks: the images are all of one of two tasks. *)
EXTENDS CrewTasks, TLC

CONSTANTS t1, t2, f1

TaskOfFile == f1 :> t1

Symmetry == Permutations(Requests) \cup Permutations(Crew)

=============================================================================
