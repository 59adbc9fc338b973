---------------------------- MODULE MCServiceLife ----------------------------
(* Small instances of ServiceLife for TLC. *)
EXTENDS ServiceLife
=============================================================================
