----------------------------- MODULE MCBudgets -----------------------------
(***************************************************************************)
(* Budgets with two handlers at once, a view and six calls: enough to      *)
(* create, activate, add two categories, record an expense and change it   *)
(* while the details are read.                                             *)
(***************************************************************************)
EXTENDS Budgets, TLC

Alike ==
  Permutations(Requests) \cup Permutations(Users)
    \cup Permutations(Months) \cup Permutations(Kinds)
=============================================================================
