--------------------------- MODULE MCCancellation ---------------------------
(* Small instances of Cancellation for TLC. *)
EXTENDS Cancellation
=============================================================================
