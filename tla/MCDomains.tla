----------------------------- MODULE MCDomains ------------------------------
(* A small instance of Domains for TLC. *)
EXTENDS Domains
=============================================================================
