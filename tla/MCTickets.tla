----------------------------- MODULE MCTickets -----------------------------
(* A small instance of Tickets for TLC. *)
EXTENDS Tickets, TLC
=============================================================================
