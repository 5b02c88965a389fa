----------------------------- MODULE MCWebhook -----------------------------
(***************************************************************************)
(* An instance of Webhook for TLC: more deliveries with fewer mishaps, or  *)
(* fewer deliveries with more of them.                                     *)
(***************************************************************************)
EXTENDS Webhook

Budget(e, r, f) == [events |-> e, replays |-> r, faults |-> f]
MCBudgets == {Budget(4, 0, 0), Budget(3, 0, 1), Budget(3, 1, 0), Budget(2, 1, 1)}
=============================================================================
