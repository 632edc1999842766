----------------------------- MODULE MCStorage -----------------------------
(* Storage for TLC: which processes and planes are alike. *)
EXTENDS Storage, TLC

ProcSymmetry == Permutations(Proc)

=============================================================================
