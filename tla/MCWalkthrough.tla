--------------------------- MODULE MCWalkthrough ---------------------------
(* Instances of Walkthrough for TLC. *)
EXTENDS Walkthrough
=============================================================================
