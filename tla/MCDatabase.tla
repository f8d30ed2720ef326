----------------------------- MODULE MCDatabase -----------------------------
(* Instances of Database for TLC: processes other than init are alike.     *)
EXTENDS Database

Symmetry == Permutations(Pids \ {Root})

=============================================================================
