---------------------------- MODULE MCAssistant ----------------------------
(* A small instance of Assistant for TLC. *)
EXTENDS Assistant, TLC

Symmetric == Permutations(Requests) \cup Permutations(Staff)
=============================================================================
