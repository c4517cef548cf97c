---------------------------- MODULE StripeWebhooks ----------------------------
(***************************************************************************)
(* apps/api stripe/webhooks.ts: how the local copy of a subscription       *)
(* follows the events Stripe sends.                                        *)
(*                                                                         *)
(* Stripe delivers an event until a delivery is answered with success, in  *)
(* no particular order, and possibly again after that.  A handler is the   *)
(* code between two awaits, step by step; several run at a time.  The      *)
(* unique stripe_event_id of billing_events lets one delivery of each      *)
(* event past the gate.                                                    *)
(***************************************************************************)
EXTENDS Naturals, Sequences, FiniteSets

CONSTANTS MaxEvents,  \* bound: events Stripe creates
          MaxHandlers, \* bound: handlers that run at a time
          MaxFaults   \* bound: errors, crashes and lost answers

ASSUME WebhookAssumption ==
  /\ MaxEvents \in Nat /\ MaxHandlers \in Nat /\ MaxFaults \in Nat

VARIABLES
  plan,     \* Stripe: the status of the subscription
  events,   \* Stripe: the events created
  acked,    \* Stripe: the events a delivery of which succeeded
  gate,     \* billing_events: the events recorded
  handlers, \* the handler of each event
  sub,      \* the status of the local row, "none" while there is no row
  payments, \* the payments table: by the event that reported them
  faults,   \* faults that happened
  missed,   \* history: events whose handler did not do all it does
  disorder, \* history: an event was applied after a later one
  latest,   \* history: the latest event applied
  last      \* history: the event applied last

stripeVars == <<plan, events, acked>>
localVars == <<gate, handlers, sub, payments>>
history == <<missed, disorder, latest, last>>
vars == <<stripeVars, localVars, faults, history>>

-------------------------------------------------------------------------------
Ids == 1..MaxEvents

Kinds == {"checkout", "updated", "deleted", "paid", "failed"}

Idle == [stage |-> "idle", read |-> "none"]

(* Mutant: a status nobody thought of ends the subscription. *)
MapStatusCautiously(status) ==
  IF status \in {"active", "past_due", "trialing"} THEN status ELSE "canceled"

(* mapStripeStatus: a status it does not list counts as active. *)
MapStatus(status) ==
  IF status \in {"active", "canceled", "past_due", "trialing"} THEN status
    ELSE "active"

Init ==
  /\ plan = "none" /\ events = <<>> /\ acked = {}
  /\ gate = {}
  /\ handlers = [e \in Ids |-> Idle]
  /\ sub = "none" /\ payments = {}
  /\ faults = 0
  /\ missed = {} /\ disorder = FALSE
  /\ latest = 0 /\ last = 0

Fault == faults < MaxFaults /\ faults' = faults + 1

Running == {e \in Ids : handlers[e].stage # "idle"}

-------------------------------------------------------------------------------
(* What Stripe does, and the event it tells of it with.                     *)
Tell(kind, status) ==
  /\ Len(events) < MaxEvents
  /\ plan' = status
  /\ events' = Append(events, [kind |-> kind, status |-> status])
  /\ UNCHANGED <<acked, localVars, faults, history>>

(* customer.subscription.created is handled as an update is. *)
Subscribe == plan = "none" /\ Tell("updated", "active")

(* The payment page completes, whatever else happened first. *)
Checkout ==
  /\ plan # "none" /\ \A e \in 1..Len(events) : events[e].kind # "checkout"
  /\ Tell("checkout", plan)

(* What the dunning and a payment make of a subscription that has not ended. *)
Change ==
  \/ plan = "active" /\ Tell("updated", "past_due")
  \/ plan = "past_due" /\ Tell("updated", "unpaid")
  \/ plan \in {"past_due", "unpaid"} /\ Tell("updated", "active")

End == plan \in {"active", "past_due", "unpaid"} /\ Tell("deleted", "canceled")

(* The first invoice, that of a renewal, a late one of a subscription that  *)
(* is unpaid or has ended: an attempt to pay it changes no status by        *)
(* itself.                                                                  *)
Invoice == plan # "none" /\ \E kind \in {"paid", "failed"} : Tell(kind, plan)

Stripe == Subscribe \/ Checkout \/ Change \/ End \/ Invoice

-------------------------------------------------------------------------------
To(e, stage) == handlers' = [handlers EXCEPT ![e].stage = stage]

(* recordBillingEvent: the insert found no row of the event. *)
IsFresh(e) == e \notin gate

(* A delivery passes the gate. *)
Receive(e) ==
  /\ e \in 1..Len(events)
  /\ handlers[e].stage = "idle"
  /\ Cardinality(Running) < MaxHandlers
  /\ IsFresh(e)
  /\ gate' = gate \cup {e}
  /\ To(e, "start")
  /\ UNCHANGED <<stripeVars, sub, payments, faults, history>>

(* Success is the answer to a delivery of an event on record: a replay, or  *)
(* the one that was handled.                                                *)
Replay(e) ==
  /\ e \in 1..Len(events) \ acked
  /\ e \in gate
  /\ acked' = acked \cup {e}
  /\ UNCHANGED <<plan, events, localVars, faults, history>>

(* An error of the insert, whether it was made or not, is taken for a       *)
(* replay.                                                                  *)
GateError(e) ==
  /\ e \in 1..Len(events) \ (acked \cup gate)
  /\ Fault
  /\ acked' = acked \cup {e}
  /\ gate' \in {gate, gate \cup {e}}
  /\ missed' = missed \cup {e}
  /\ UNCHANGED <<plan, events, handlers, sub, payments, disorder, latest, last>>

(* Event e is applied, if only to no effect. *)
Applied(e) ==
  /\ latest' = IF e > latest THEN e ELSE latest
  /\ last' = e
  /\ disorder' = (disorder \/ e < latest)

(* handleCheckoutCompleted asks Stripe for the subscription as it is now. *)
Retrieve(e) ==
  /\ events[e].kind = "checkout"
  /\ handlers' = [handlers EXCEPT ![e] = [stage |-> "write", read |-> plan]]
  /\ UNCHANGED <<sub, payments, disorder, latest, last>>

(* handleInvoicePaymentSucceeded: without a row there is no user to record  *)
(* the payment for, and nothing is.                                         *)
FindPayer(e) ==
  /\ events[e].kind = "paid"
  /\ \/ sub # "none" /\ To(e, "pay") /\ UNCHANGED <<disorder, latest, last>>
     \/ sub = "none" /\ To(e, "done") /\ Applied(e)
  /\ UNCHANGED <<sub, payments>>

Pay(e) ==
  /\ handlers[e].stage = "pay"
  /\ payments' = payments \cup {e}
  /\ To(e, "write")
  /\ UNCHANGED <<sub, disorder, latest, last>>

(* Mutant: the end of a subscription only clears cancelAtPeriodEnd. *)
WrittenUnlessDeleted(e) ==
  CASE events[e].kind = "checkout" -> MapStatus(handlers[e].read)
    [] events[e].kind = "updated" -> MapStatus(events[e].status)
    [] events[e].kind = "deleted" -> sub
    [] events[e].kind = "paid" -> "active"
    [] events[e].kind = "failed" -> "past_due"

Written(e) ==
  CASE events[e].kind = "checkout" -> MapStatus(handlers[e].read)
    [] events[e].kind = "updated" -> MapStatus(events[e].status)
    [] events[e].kind = "deleted" -> "canceled"
    [] events[e].kind = "paid" -> "active"
    [] events[e].kind = "failed" -> "past_due"

(* Mutant: every handler creates the row it does not find. *)
WriteUpserts(e) ==
  /\ \/ handlers[e].stage = "write"
     \/ handlers[e].stage = "start"
          /\ events[e].kind \in {"updated", "deleted", "failed"}
  /\ sub' = Written(e)
  /\ To(e, "done")
  /\ Applied(e)
  /\ UNCHANGED payments

(* The update of the row, which only a checkout creates. *)
Write(e) ==
  /\ \/ handlers[e].stage = "write"
     \/ handlers[e].stage = "start"
          /\ events[e].kind \in {"updated", "deleted", "failed"}
  /\ sub' = IF sub = "none" /\ events[e].kind # "checkout" THEN sub
              ELSE Written(e)
  /\ To(e, "done")
  /\ Applied(e)
  /\ UNCHANGED payments

Handle(e) ==
  /\ \/ handlers[e].stage = "start" /\ (Retrieve(e) \/ FindPayer(e))
     \/ Pay(e)
     \/ Write(e)
  /\ UNCHANGED <<stripeVars, gate, faults, missed>>

(* The handler has ended: markEventProcessed. *)
Mark(e) ==
  /\ handlers[e].stage = "done"
  /\ handlers' = [handlers EXCEPT ![e] = Idle]
  /\ UNCHANGED <<stripeVars, gate, sub, payments, faults, history>>

(* The handler throws, or the process ends: Stripe is to deliver again. *)
HandlerFails(e) ==
  /\ handlers[e].stage # "idle"
  /\ Fault
  /\ handlers' = [handlers EXCEPT ![e] = Idle]
  /\ missed' = IF handlers[e].stage = "done" THEN missed ELSE missed \cup {e}
  /\ UNCHANGED <<stripeVars, gate, sub, payments, disorder, latest, last>>

Deliver(e) == Receive(e) \/ Replay(e) \/ Handle(e) \/ Mark(e)

Next ==
  \/ Stripe
  \/ \E e \in Ids : Deliver(e) \/ GateError(e) \/ HandlerFails(e)

Spec == Init /\ [][Next]_vars

-------------------------------------------------------------------------------
Statuses == {"none", "active", "past_due", "unpaid", "canceled"}

TypeOK ==
  /\ plan \in Statuses
  /\ events \in Seq([kind: Kinds, status: Statuses]) /\ Len(events) <= MaxEvents
  /\ acked \subseteq Ids /\ gate \subseteq Ids
  /\ handlers \in [Ids -> [stage: {"idle", "start", "pay", "write", "done"},
                           read: Statuses]]
  /\ sub \in Statuses \ {"unpaid"}
  /\ payments \subseteq Ids /\ missed \subseteq Ids
  /\ latest \in 0..MaxEvents /\ last \in 0..MaxEvents
  /\ faults \in 0..MaxFaults
  /\ disorder \in BOOLEAN

(* What the row is to say after event e, the latest so far: an invoice says *)
(* paid or not, whatever the subscription has become; any other event says  *)
(* what the subscription is, save that the row knows no unpaid.             *)
Shows(e) ==
  CASE events[e].kind = "paid" -> "active"
    [] events[e].kind = "failed" -> "past_due"
    [] events[e].kind \notin {"paid", "failed"} /\ plan = "unpaid" -> "active"
    [] OTHER -> plan

(* The newest event repairs the row: whatever was missed, lost or applied   *)
(* in the wrong order before, once the newest event is the one applied last *)
(* the row, if there is one, says what it is to say after it; in particular *)
(* a checkout writes no status that was read too early (webhooks.ts         *)
(* 123-163, 190-236, 292-314).                                              *)
NewestRepairs ==
  last = Len(events) /\ sub # "none" => sub = Shows(last)

CheckedOut(e) == \E c \in 1..(e - 1) : events[c].kind = "checkout"

(* What a perfect delivery comes to.  When Stripe has had an answer to      *)
(* everything it sent and no event was missed, there is a row exactly if a  *)
(* checkout completed.  If events were applied in order as well, the newest *)
(* was applied last, and the payments recorded are those of the invoices    *)
(* paid after the checkout (webhooks.ts 112-315).                           *)
MirrorsStripe ==
  acked = 1..Len(events) /\ Running = {} /\ missed = {}
  => /\ sub # "none" <=> CheckedOut(Len(events) + 1)
     /\ ~disorder =>
          /\ last = Len(events)
          /\ payments = {e \in acked : events[e].kind = "paid" /\ CheckedOut(e)}

(* The row never says canceled of a subscription that has not ended,        *)
(* whatever is missed, repeated or reordered (webhooks.ts 21-36, 225-236).  *)
CanceledIsEnded == sub = "canceled" => plan = "canceled"
===============================================================================
