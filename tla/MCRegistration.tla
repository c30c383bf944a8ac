--------------------------- MODULE MCRegistration ---------------------------
(* Instances of Registration for TLC. *)
EXTENDS Registration, TLC

Symmetry == Permutations(Client) \cup Permutations(Nick)
=============================================================================
