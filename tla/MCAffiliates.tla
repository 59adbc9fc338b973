---------------------------- MODULE MCAffiliates ----------------------------
(* A small instance of Affiliates for TLC: two invoices of one client. *)
EXTENDS Affiliates

CONSTANT k1

MCClientOf == [i \in Invoices |-> k1]
=============================================================================
