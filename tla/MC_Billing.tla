----------------------------- MODULE MC_Billing -----------------------------
(***************************************************************************)
(* Billing for TLC: two residents, whom the daily checks and one request   *)
(* of an admin or an owner bill (MC_Billing.cfg); one resident over three  *)
(* months (MC_Billing_NeverRecharged.cfg).                                 *)
(***************************************************************************)
EXTENDS Billing
=============================================================================
