----------------------------- MODULE MCRecovery -----------------------------
(* The instance of Recovery for TLC in which no restart loses a record.        *)
EXTENDS Recovery, TLC

\* Keys are interchangeable: no action compares two of them.
Symmetry == Permutations(Keys)
=============================================================================
