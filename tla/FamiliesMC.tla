----------------------------- MODULE FamiliesMC -----------------------------
(* Families with its callers interchangeable: no action names one of them. *)
EXTENDS Families, TLC

CallerSymmetry == Permutations(Callers)
=============================================================================
