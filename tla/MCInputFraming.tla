--------------------------- MODULE MCInputFraming ----------------------------
(* Instances of InputFraming for TLC. *)
EXTENDS InputFraming

Letters == Permutations(Letter)
=============================================================================
