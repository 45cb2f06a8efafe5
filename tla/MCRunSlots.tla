----------------------------- MODULE MCRunSlots -----------------------------
(* RunSlots over interchangeable callers. *)
EXTENDS RunSlots, TLC

CallerSymmetry == Permutations(Runs)
=============================================================================
