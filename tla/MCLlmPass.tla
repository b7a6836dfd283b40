----------------------------- MODULE MCLlmPass -----------------------------
(* Instances of LlmPass for TLC. *)
EXTENDS LlmPass, TLC

Symmetry == Permutations(Label)
=============================================================================
