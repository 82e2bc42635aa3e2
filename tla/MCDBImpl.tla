------------------------------ MODULE MCDBImpl ------------------------------
(* Instances of DBImpl for TLC.  The threads, keys and values of each run are  *)
(* model values given in its configuration.                                    *)
EXTENDS DBImpl, TLC

\* Keys are interchangeable, and so are the values and the callers of one kind.
Symmetry == Permutations(Keys) \cup Permutations(Values) \cup Permutations(Readers)
=============================================================================
