------------------------------ MODULE MCBilling ------------------------------
(***************************************************************************)
(* TLC instance of the two halves of billing.  The usage reporter reads    *)
(* the subscription's row, which the webhooks write, once per report, and  *)
(* UsageReporter lets the row change at any time in any way; nothing else  *)
(* is shared.  A behaviour is therefore one of either half, with the other *)
(* at rest.                                                                *)
(***************************************************************************)
EXTENDS StripeWebhooks, UsageReporter

VARIABLE half

TwoTypes == <<"build", "request">>

BillingInit == Init /\ ReporterInit /\ half \in {"webhooks", "reporter"}

BillingNext ==
  /\ half' = half
  /\ \/ half = "webhooks" /\ Next /\ UNCHANGED reporterVars
     \/ half = "reporter" /\ ReporterNext /\ UNCHANGED vars

BillingSpec == BillingInit /\ [][BillingNext]_<<vars, reporterVars, half>>
===============================================================================
