----------------------------- MODULE MCRunQueue -----------------------------
(* RunQueue over interchangeable runs: nothing in it tells two runs apart. *)
EXTENDS RunQueue, TLC

RunSymmetry == Permutations(Runs)
=============================================================================
