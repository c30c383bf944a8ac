---------------------------- MODULE MCOutputPath -----------------------------
(* Instances of OutputPath for TLC. *)
EXTENDS OutputPath
=============================================================================
