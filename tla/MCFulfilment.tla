---------------------------- MODULE MCFulfilment ----------------------------
(* A small instance of Fulfilment for TLC. *)
EXTENDS Fulfilment, TLC

\* A plan, its add-on and a domain.
PlanAddonDomain == <<"hosting", "addon", "domain_register">>
AddonOfPlan == <<0, 1, 0>>
=============================================================================
