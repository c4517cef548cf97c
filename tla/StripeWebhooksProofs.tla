------------------------- MODULE StripeWebhooksProofs -------------------------
(***************************************************************************)
(* What holds of StripeWebhooks for every number of events, of handlers at *)
(* a time and of faults.                                                   *)
(***************************************************************************)
EXTENDS StripeWebhooks, SequenceTheorems, TLAPS

-------------------------------------------------------------------------------
Last == Len(events)

IsCheckout(e) == events[e].kind = "checkout"

(* What Stripe tells: the newest event names the present status, and a      *)
(* subscription that has ended stays so.                                    *)
Told ==
  /\ IF Last = 0 THEN plan = "none" ELSE plan # "none" /\ plan = events[Last].status
  /\ \A e \in 1..Last :
       /\ events[e].status = "canceled" => plan = "canceled"
       /\ events[e].kind = "deleted" => events[e].status = "canceled"

(* Whatever is handled was recorded, and whatever was recorded was sent. *)
Gated ==
  /\ gate \subseteq 1..Last /\ latest \in 0..Last /\ last \in 0..Last
  /\ \A e \in Ids : handlers[e].stage # "idle" => e \in gate
  /\ \A e \in gate :
       /\ handlers[e].stage = "pay" => events[e].kind = "paid"
       /\ handlers[e].stage = "write" =>
            \/ IsCheckout(e) /\ handlers[e].read # "none"
            \/ events[e].kind = "paid" /\ e \in payments
  /\ \A e \in payments : e \in gate /\ events[e].kind = "paid"

(* A row, and with it a payment, comes of a checkout that was applied. *)
Rows ==
  /\ sub # "none" =>
       last >= 1 /\ \E c \in 1..Last : IsCheckout(c) /\ c <= latest
  /\ \A e \in payments : sub # "none"
  /\ \A e \in Ids : handlers[e].stage = "pay" => sub # "none"

(* What a checkout is about to write is the present status, as long as it   *)
(* is the newest event; and it has read of no end but a real one.           *)
Fresh ==
  /\ NewestRepairs
  /\ CanceledIsEnded
  /\ \A e \in gate :
       e = Last /\ IsCheckout(e) /\ handlers[e].stage = "write"
         => handlers[e].read = plan
  /\ \A e \in Ids : handlers[e].read = "canceled" => plan = "canceled"

Settled(e) == handlers[e].stage \in {"idle", "done"}

(* While nothing was missed, what Stripe has an answer to was recorded, and *)
(* a checkout that is settled has made the row.                             *)
Complete ==
  /\ acked \subseteq gate
  /\ \A e \in gate : IsCheckout(e) /\ Settled(e) => sub # "none"

(* While events were applied in order as well, what is settled is no later  *)
(* than the one applied last, and an invoice that is settled was recorded   *)
(* as a payment exactly if it is later than the checkout.                   *)
Followed ==
  /\ last = latest
  /\ \A e \in gate : Settled(e) => e <= latest
  /\ \A e \in payments : Settled(e) => CheckedOut(e)
  /\ \A e, c \in gate :
       events[e].kind = "paid" /\ Settled(e) /\ IsCheckout(c) /\ Settled(c) /\ c < e
         => e \in payments

InOrder == missed = {} /\ ~disorder

(***************************************************************************)
(* The strengthening.  Fresh holds whatever happened; the rest says what   *)
(* is true between two steps of the handlers of what MirrorsStripe says    *)
(* when they are through.                                                  *)
(***************************************************************************)
IInv ==
  /\ TypeOK /\ Told /\ Gated /\ Rows /\ Fresh
  /\ missed = {} => Complete
  /\ InOrder => Followed

-------------------------------------------------------------------------------
Events == [kind: Kinds, status: Statuses]

Handlers == [stage: {"idle", "start", "pay", "write", "done"}, read: Statuses]

LEMMA SentFacts ==
  ASSUME IInv
  PROVE  /\ MaxEvents \in Nat /\ MaxFaults \in Nat
         /\ Last \in 0..MaxEvents /\ Last = Len(events)
         /\ Ids = 1..MaxEvents /\ 1..Last \subseteq Ids
         /\ \A e \in 1..Last : events[e] \in Events
         /\ gate \subseteq 1..Last /\ gate \subseteq Ids
         /\ latest \in 0..Last /\ last \in 0..Last
         /\ handlers \in [Ids -> Handlers]
<1>1. events \in Seq(Events) /\ Len(events) <= MaxEvents
  BY DEF IInv, TypeOK, Events
<1>2. Last \in Nat /\ Last = Len(events)
  BY <1>1, LenProperties DEF Last
<1>3. \A e \in 1..Last : events[e] \in Events
  BY <1>1, <1>2, ElementOfSeq
<1>4. gate \subseteq 1..Last /\ latest \in 0..Last /\ last \in 0..Last
  BY DEF IInv, Gated
<1>5. gate \subseteq Ids /\ handlers \in [Ids -> Handlers]
  BY DEF IInv, TypeOK, Handlers
<1> QED BY <1>1, <1>2, <1>3, <1>4, <1>5, WebhookAssumption DEF Ids

LEMMA InitIInv == Init => IInv
<1> SUFFICES ASSUME Init PROVE IInv
  OBVIOUS
<1>1. events = <<>> /\ events \in Seq(Events) /\ Len(events) = 0 /\ Last = 0
  BY EmptySeq DEF Init, Last
<1>2. MaxEvents \in Nat /\ MaxFaults \in Nat
  BY WebhookAssumption
<1>3. TypeOK
  <2>1. events \in Seq([kind: Kinds, status: Statuses]) /\ Len(events) <= MaxEvents
    BY <1>1, <1>2 DEF Events
  <2>2. handlers \in [Ids -> [stage: {"idle", "start", "pay", "write", "done"},
                              read: Statuses]]
    BY DEF Init, Idle, Statuses
  <2>3. 0 \in 0..MaxEvents /\ 0 \in 0..MaxFaults
    BY <1>2
  <2>4. plan \in Statuses /\ sub \in Statuses \ {"unpaid"}
    BY DEF Init, Statuses
  <2> QED BY <2>1, <2>2, <2>3, <2>4 DEF Init, TypeOK
<1>4. Told /\ Gated /\ Rows
  BY <1>1 DEF Init, Told, Gated, Rows, Idle
<1>5. Fresh
  BY <1>1 DEF Init, Fresh, NewestRepairs, CanceledIsEnded, Idle
<1>6. Complete /\ Followed
  BY DEF Init, Complete, Followed
<1> QED BY <1>3, <1>4, <1>5, <1>6 DEF IInv

-------------------------------------------------------------------------------
(* Stripe creates an event: those before it stay as they are, and none is   *)
(* the newest any more.                                                     *)
LEMMA TellKeeps ==
  ASSUME IInv, NEW s \in Statuses \ {"none"}, NEW k \in Kinds, Tell(k, s),
         k = "deleted" => s = "canceled",
         plan = "canceled" => s = "canceled"
  PROVE  IInv'
<1> DEFINE new == [kind |-> k, status |-> s]
<1>1. events \in Seq(Events) /\ new \in Events /\ events' = Append(events, new)
  BY DEF IInv, TypeOK, Events, Tell
<1>2. Last \in Nat /\ Last < MaxEvents /\ MaxEvents \in Nat
  BY SentFacts DEF Tell, Last
<1>3. /\ events' \in Seq(Events) /\ Last' = Last + 1
      /\ \A e \in 1..Last : events'[e] = events[e]
      /\ events'[Last + 1] = new
  BY <1>1, AppendProperties DEF Last
<1>4. new.kind = k /\ new.status = s
  OBVIOUS
<1> HIDE DEF new
<1>5. /\ plan' = s /\ acked' = acked /\ gate' = gate /\ handlers' = handlers
      /\ sub' = sub /\ payments' = payments /\ faults' = faults
      /\ missed' = missed /\ disorder' = disorder /\ latest' = latest
      /\ last' = last
  BY DEF Tell, localVars, history
<1>6. TypeOK'
  <2>1. Len(events)' = Last' /\ Last' <= MaxEvents
    BY <1>2, <1>3 DEF Last
  <2> QED BY <1>3, <1>5, <2>1 DEF IInv, TypeOK, Events, Ids
<1>7. Told'
  <2>1. ASSUME NEW e \in 1..Last'
        PROVE  /\ events'[e].status = "canceled" => plan' = "canceled"
               /\ events'[e].kind = "deleted" => events'[e].status = "canceled"
    <3>1. CASE e \in 1..Last
      BY <1>3, <1>5, <3>1 DEF IInv, Told
    <3>2. CASE e = Last + 1
      BY <1>3, <1>4, <1>5, <3>2
    <3> QED BY <1>2, <1>3, <3>1, <3>2
  <2>2. Last' # 0 /\ plan' # "none" /\ plan' = events'[Last'].status
    BY <1>2, <1>3, <1>4, <1>5
  <2> QED BY <2>1, <2>2 DEF Told
<1>8. /\ gate \subseteq 1..Last /\ latest \in 0..Last /\ last \in 0..Last
      /\ payments \subseteq gate
  BY DEF IInv, Gated
<1>9. \A e \in gate : events'[e] = events[e] /\ (IsCheckout(e)' <=> IsCheckout(e))
  BY <1>3, <1>8 DEF IsCheckout
<1>10. Gated'
  <2>1. gate' \subseteq 1..Last' /\ latest' \in 0..Last' /\ last' \in 0..Last'
    BY <1>2, <1>3, <1>5, <1>8
  <2> QED BY <1>5, <1>8, <1>9, <2>1 DEF IInv, Gated
<1>11. Rows'
  <2>1. ASSUME NEW c \in 1..Last, IsCheckout(c)
        PROVE  c \in 1..Last' /\ IsCheckout(c)'
    BY <1>2, <1>3, <2>1 DEF IsCheckout
  <2> QED BY <1>5, <2>1 DEF IInv, Rows
<1>12. Fresh'
  <2>1. last' # Last' /\ Last' \notin gate'
    BY <1>2, <1>3, <1>5, <1>8
  <2>2. NewestRepairs'
    BY <2>1 DEF NewestRepairs, Last
  <2>3. plan = "canceled" => plan' = "canceled"
    BY <1>5
  <2>4. CanceledIsEnded'
    BY <1>5, <2>3 DEF IInv, Fresh, CanceledIsEnded
  <2> QED BY <1>5, <2>1, <2>2, <2>3, <2>4 DEF IInv, Fresh
<1>13. missed' = {} => Complete'
  BY <1>5, <1>8, <1>9 DEF IInv, Complete, Settled
<1>14. InOrder' => Followed'
  <2>1. ASSUME NEW e \in payments, CheckedOut(e)
        PROVE  CheckedOut(e)'
    <3>1. e \in 1..Last
      BY <1>8
    <3>2. PICK c \in 1..(e - 1) : events[c].kind = "checkout"
      BY <2>1 DEF CheckedOut
    <3>3. c \in 1..Last
      BY <1>2, <3>1, <3>2
    <3> QED BY <1>3, <3>2, <3>3 DEF CheckedOut
  <2> QED BY <1>5, <1>8, <1>9, <2>1 DEF IInv, InOrder, Followed, Settled
<1> QED BY <1>6, <1>7, <1>10, <1>11, <1>12, <1>13, <1>14 DEF IInv

LEMMA StripeKeeps == IInv /\ Stripe => IInv'
<1> SUFFICES ASSUME IInv, Stripe PROVE IInv'
  OBVIOUS
<1>1. CASE Subscribe
  BY <1>1, TellKeeps DEF Subscribe, Statuses, Kinds
<1>2. CASE Checkout
  <2>1. plan \in Statuses \ {"none"} /\ Tell("checkout", plan)
    BY <1>2 DEF Checkout, IInv, TypeOK
  <2> QED BY <2>1, TellKeeps DEF Kinds
<1>3. CASE Change
  BY <1>3, TellKeeps DEF Change, Statuses, Kinds
<1>4. CASE End
  BY <1>4, TellKeeps DEF End, Statuses, Kinds
<1>5. CASE Invoice
  <2>1. PICK k \in {"paid", "failed"} : Tell(k, plan)
    BY <1>5 DEF Invoice
  <2>2. plan \in Statuses \ {"none"}
    BY <1>5 DEF Invoice, IInv, TypeOK
  <2> QED BY <2>1, <2>2, TellKeeps DEF Kinds
<1> QED BY <1>1, <1>2, <1>3, <1>4, <1>5 DEF Stripe

-------------------------------------------------------------------------------
(* What is said of Stripe alone stays so while Stripe does nothing. *)
LEMMA ToldKept ==
  ASSUME IInv, plan' = plan, events' = events
  PROVE  /\ Told' /\ Last' = Last
         /\ \A e \in Ids : (IsCheckout(e)' <=> IsCheckout(e)) /\ (CheckedOut(e)' <=> CheckedOut(e))
BY DEF IInv, Told, Last, IsCheckout, CheckedOut

(* What NewestRepairs and CanceledIsEnded say is about the row and Stripe. *)
LEMMA RowKept ==
  ASSUME IInv, plan' = plan, events' = events, sub' = sub, last' = last
  PROVE  NewestRepairs' /\ CanceledIsEnded'
BY DEF IInv, Fresh, NewestRepairs, CanceledIsEnded, Shows

LEMMA ReceiveKeeps ==
  ASSUME IInv, NEW e \in Ids, Receive(e)
  PROVE  IInv'
<1>1. /\ e \in 1..Last /\ e \notin gate /\ gate' = gate \cup {e}
      /\ handlers[e].stage = "idle"
      /\ handlers' = [handlers EXCEPT ![e].stage = "start"]
      /\ plan' = plan /\ events' = events /\ acked' = acked /\ sub' = sub
      /\ payments' = payments /\ faults' = faults /\ last' = last
      /\ missed' = missed /\ disorder' = disorder /\ latest' = latest
  BY SentFacts DEF Receive, IsFresh, To, stripeVars, history
<1>2. TypeOK'
  BY <1>1 DEF IInv, TypeOK
<1>3. /\ Told' /\ Last' = Last
      /\ \A f \in Ids : (IsCheckout(f)' <=> IsCheckout(f)) /\ (CheckedOut(f)' <=> CheckedOut(f))
  BY <1>1, ToldKept
<1>4. /\ handlers'[e].stage = "start" /\ handlers'[e].read = handlers[e].read
      /\ \A f \in Ids \ {e} : handlers'[f] = handlers[f]
      /\ gate \subseteq Ids /\ 1..Last \subseteq Ids
  BY <1>1, SentFacts DEF Handlers
<1>5. Gated'
  BY <1>1, <1>3, <1>4 DEF IInv, Gated
<1>6. Rows'
  BY <1>1, <1>3, <1>4 DEF IInv, Rows
<1>7. Fresh'
  BY <1>1, <1>3, <1>4, RowKept DEF IInv, Fresh
<1>8. ~Settled(e)' /\ \A f \in gate : Settled(f)' = Settled(f)
  BY <1>1, <1>4 DEF Settled
<1>9. missed' = {} => Complete'
  BY <1>1, <1>3, <1>4, <1>8 DEF IInv, Complete
<1>10. InOrder' => Followed'
  BY <1>1, <1>3, <1>4, <1>8 DEF IInv, InOrder, Followed, Gated
<1> QED BY <1>2, <1>3, <1>5, <1>6, <1>7, <1>9, <1>10 DEF IInv

LEMMA ReplayKeeps ==
  ASSUME IInv, NEW e \in Ids, Replay(e)
  PROVE  IInv'
<1>1. /\ e \in gate /\ acked' = acked \cup {e}
      /\ plan' = plan /\ events' = events /\ gate' = gate /\ handlers' = handlers
      /\ sub' = sub /\ payments' = payments /\ faults' = faults /\ last' = last
      /\ missed' = missed /\ disorder' = disorder /\ latest' = latest
  BY DEF Replay, localVars, history
<1>2. TypeOK'
  BY <1>1 DEF IInv, TypeOK
<1>3. /\ Told' /\ Last' = Last
      /\ \A f \in Ids : (IsCheckout(f)' <=> IsCheckout(f)) /\ (CheckedOut(f)' <=> CheckedOut(f))
  BY <1>1, ToldKept
<1>4. gate \subseteq Ids /\ 1..Last \subseteq Ids
  BY SentFacts
<1>5. Gated' /\ Rows'
  BY <1>1, <1>3, <1>4 DEF IInv, Gated, Rows
<1>6. Fresh'
  BY <1>1, <1>3, <1>4, RowKept DEF IInv, Fresh
<1>7. missed' = {} => Complete'
  BY <1>1, <1>3, <1>4 DEF IInv, Complete, Settled
<1>8. InOrder' => Followed'
  BY <1>1, <1>3, <1>4 DEF IInv, InOrder, Followed, Gated, Settled
<1> QED BY <1>2, <1>3, <1>5, <1>6, <1>7, <1>8 DEF IInv

(* Whatever misses an event leaves nothing to show of the order. *)
LEMMA GateErrorKeeps ==
  ASSUME IInv, NEW e \in Ids, GateError(e)
  PROVE  IInv'
<1>1. /\ e \in 1..Last /\ e \notin gate /\ gate' \in {gate, gate \cup {e}}
      /\ missed' = missed \cup {e} /\ acked' = acked \cup {e}
      /\ faults < MaxFaults /\ faults' = faults + 1
      /\ plan' = plan /\ events' = events /\ handlers' = handlers
      /\ sub' = sub /\ payments' = payments /\ last' = last
      /\ disorder' = disorder /\ latest' = latest
  BY SentFacts DEF GateError, Fault
<1>2. TypeOK'
  BY <1>1, SentFacts DEF IInv, TypeOK
<1>3. /\ Told' /\ Last' = Last
      /\ \A f \in Ids : (IsCheckout(f)' <=> IsCheckout(f)) /\ (CheckedOut(f)' <=> CheckedOut(f))
  BY <1>1, ToldKept
<1>4. gate \subseteq Ids /\ 1..Last \subseteq Ids /\ handlers[e].stage = "idle"
  BY <1>1, SentFacts DEF IInv, Gated
<1>5. Gated' /\ Rows'
  BY <1>1, <1>3, <1>4 DEF IInv, Gated, Rows
<1>6. Fresh'
  BY <1>1, <1>3, <1>4, RowKept DEF IInv, Fresh
<1>7. missed' # {} /\ ~InOrder'
  BY <1>1 DEF InOrder
<1> QED BY <1>2, <1>3, <1>5, <1>6, <1>7 DEF IInv

LEMMA MarkKeeps ==
  ASSUME IInv, NEW e \in Ids, Mark(e)
  PROVE  IInv'
<1>1. /\ handlers[e].stage = "done" /\ handlers' = [handlers EXCEPT ![e] = Idle]
      /\ plan' = plan /\ events' = events /\ gate' = gate /\ acked' = acked
      /\ sub' = sub /\ payments' = payments /\ faults' = faults /\ last' = last
      /\ missed' = missed /\ disorder' = disorder /\ latest' = latest
  BY DEF Mark, stripeVars, history
<1>2. TypeOK'
  BY <1>1 DEF IInv, TypeOK, Idle, Statuses
<1>3. /\ Told' /\ Last' = Last
      /\ \A f \in Ids : (IsCheckout(f)' <=> IsCheckout(f)) /\ (CheckedOut(f)' <=> CheckedOut(f))
  BY <1>1, ToldKept
<1>4. /\ handlers'[e].stage = "idle" /\ handlers'[e].read = "none"
      /\ \A f \in Ids \ {e} : handlers'[f] = handlers[f]
      /\ gate \subseteq Ids /\ 1..Last \subseteq Ids
  BY <1>1, SentFacts DEF Idle
<1>5. Gated'
  BY <1>1, <1>3, <1>4 DEF IInv, Gated
<1>6. Rows'
  BY <1>1, <1>3, <1>4 DEF IInv, Rows
<1>7. Fresh'
  BY <1>1, <1>3, <1>4, RowKept DEF IInv, Fresh
<1>8. \A f \in gate : Settled(f)' = Settled(f)
  BY <1>1, <1>4 DEF Settled
<1>9. missed' = {} => Complete'
  BY <1>1, <1>3, <1>4, <1>8 DEF IInv, Complete
<1>10. InOrder' => Followed'
  BY <1>1, <1>3, <1>4, <1>8 DEF IInv, InOrder, Followed, Gated
<1> QED BY <1>2, <1>3, <1>5, <1>6, <1>7, <1>9, <1>10 DEF IInv

LEMMA HandlerFailsKeeps ==
  ASSUME IInv, NEW e \in Ids, HandlerFails(e)
  PROVE  IInv'
<1>1. /\ handlers[e].stage # "idle" /\ handlers' = [handlers EXCEPT ![e] = Idle]
      /\ missed' = IF handlers[e].stage = "done" THEN missed ELSE missed \cup {e}
      /\ faults < MaxFaults /\ faults' = faults + 1
      /\ plan' = plan /\ events' = events /\ acked' = acked /\ gate' = gate
      /\ sub' = sub /\ payments' = payments /\ last' = last
      /\ disorder' = disorder /\ latest' = latest
  BY DEF HandlerFails, Fault, stripeVars
<1>2. TypeOK'
  BY <1>1, SentFacts DEF IInv, TypeOK, Idle, Statuses
<1>3. /\ Told' /\ Last' = Last
      /\ \A f \in Ids : (IsCheckout(f)' <=> IsCheckout(f)) /\ (CheckedOut(f)' <=> CheckedOut(f))
  BY <1>1, ToldKept
<1>4. /\ handlers'[e].stage = "idle" /\ handlers'[e].read = "none"
      /\ \A f \in Ids \ {e} : handlers'[f] = handlers[f]
      /\ gate \subseteq Ids /\ 1..Last \subseteq Ids
  BY <1>1, SentFacts DEF Idle
<1>5. Gated'
  BY <1>1, <1>3, <1>4 DEF IInv, Gated
<1>6. Rows'
  BY <1>1, <1>3, <1>4 DEF IInv, Rows
<1>7. Fresh'
  BY <1>1, <1>3, <1>4, RowKept DEF IInv, Fresh
<1>8. missed' = {} => missed = {} /\ \A f \in gate : Settled(f)' = Settled(f)
  BY <1>1, <1>4 DEF Settled
<1>9. missed' = {} => Complete'
  BY <1>1, <1>3, <1>4, <1>8 DEF IInv, Complete
<1>10. InOrder' => Followed'
  BY <1>1, <1>3, <1>4, <1>8 DEF IInv, InOrder, Followed, Gated
<1> QED BY <1>2, <1>3, <1>5, <1>6, <1>7, <1>9, <1>10 DEF IInv

-------------------------------------------------------------------------------
LEMMA RetrieveKeeps ==
  ASSUME IInv, NEW e \in Ids, handlers[e].stage = "start", Retrieve(e),
         UNCHANGED <<stripeVars, gate, faults, missed>>
  PROVE  IInv'
<1>1. /\ IsCheckout(e)
      /\ handlers' = [handlers EXCEPT ![e] = [stage |-> "write", read |-> plan]]
      /\ plan' = plan /\ events' = events /\ acked' = acked /\ gate' = gate
      /\ sub' = sub /\ payments' = payments /\ faults' = faults /\ last' = last
      /\ missed' = missed /\ disorder' = disorder /\ latest' = latest
  BY DEF Retrieve, stripeVars, IsCheckout
<1>2. TypeOK'
  BY <1>1 DEF IInv, TypeOK
<1>3. /\ Told' /\ Last' = Last
      /\ \A f \in Ids : (IsCheckout(f)' <=> IsCheckout(f)) /\ (CheckedOut(f)' <=> CheckedOut(f))
  BY <1>1, ToldKept
<1>4. /\ handlers'[e].stage = "write" /\ handlers'[e].read = plan
      /\ \A f \in Ids \ {e} : handlers'[f] = handlers[f]
      /\ e \in gate /\ gate \subseteq Ids /\ 1..Last \subseteq Ids
  BY <1>1, SentFacts DEF IInv, Gated
<1>5. plan # "none"
  BY <1>4, SentFacts DEF IInv, Told
<1>6. Gated'
  BY <1>1, <1>3, <1>4, <1>5 DEF IInv, Gated
<1>7. Rows'
  BY <1>1, <1>3, <1>4 DEF IInv, Rows
<1>8. Fresh'
  BY <1>1, <1>3, <1>4, RowKept DEF IInv, Fresh
<1>9. ~Settled(e)' /\ \A f \in gate \ {e} : Settled(f)' = Settled(f)
  BY <1>1, <1>4 DEF Settled
<1>10. missed' = {} => Complete'
  BY <1>1, <1>3, <1>4, <1>9 DEF IInv, Complete
<1>11. InOrder' => Followed'
  BY <1>1, <1>3, <1>4, <1>9 DEF IInv, InOrder, Followed, Gated
<1> QED BY <1>2, <1>3, <1>6, <1>7, <1>8, <1>10, <1>11 DEF IInv

LEMMA AppliedFacts ==
  ASSUME IInv, NEW e \in gate, Applied(e)
  PROVE  /\ last' = e /\ e \in 1..Last
         /\ latest' \in 0..Last /\ latest' >= latest /\ latest' >= e
         /\ latest' \in 0..MaxEvents /\ last' \in 0..MaxEvents /\ disorder' \in BOOLEAN
         /\ ~disorder' => ~disorder /\ latest <= e /\ latest' = e
<1>1. e \in 1..Last /\ latest \in 0..Last /\ Last \in 0..MaxEvents /\ MaxEvents \in Nat
  BY SentFacts
<1>2. disorder' = (disorder \/ e < latest) /\ last' = e
  BY DEF Applied
<1>3. disorder' \in BOOLEAN
  BY <1>2
<1>4. latest' = IF e > latest THEN e ELSE latest
  BY DEF Applied
<1>5. ~disorder' => ~disorder /\ ~(e < latest)
  BY <1>2
<1>6. /\ latest' \in 0..Last /\ latest' >= latest /\ latest' >= e
      /\ latest' \in 0..MaxEvents /\ e \in 0..MaxEvents
      /\ ~(e < latest) => latest <= e /\ latest' = e
  BY <1>1, <1>4
<1> QED BY <1>1, <1>2, <1>3, <1>5, <1>6

(* Once e is applied it is settled, and nothing settled is later. *)
LEMMA AppliedFollows ==
  ASSUME IInv, NEW e \in gate, Applied(e), missed' = missed, ~disorder', missed = {},
         Settled(e)', \A f \in gate \ {e} : Settled(f)' = Settled(f)
  PROVE  /\ Followed /\ last' = latest'
         /\ \A f \in gate : Settled(f)' => f <= latest'
         /\ \A f \in gate : Settled(f)' => f <= e
<1>1. Followed /\ ~disorder /\ latest <= e /\ latest' = e /\ last' = e
  BY AppliedFacts DEF IInv, InOrder
<1>2. \A f \in gate : f \in Nat /\ latest \in Nat
  BY SentFacts
<1> QED BY <1>1, <1>2 DEF Followed

LEMMA FindPayerKeeps ==
  ASSUME IInv, NEW e \in Ids, handlers[e].stage = "start", FindPayer(e),
         UNCHANGED <<stripeVars, gate, faults, missed>>
  PROVE  IInv'
<1>1. /\ events[e].kind = "paid"
      /\ plan' = plan /\ events' = events /\ acked' = acked /\ gate' = gate
      /\ sub' = sub /\ payments' = payments /\ faults' = faults
      /\ missed' = missed
  BY DEF FindPayer, stripeVars
<1>2. /\ Told' /\ Last' = Last
      /\ \A f \in Ids : (IsCheckout(f)' <=> IsCheckout(f)) /\ (CheckedOut(f)' <=> CheckedOut(f))
  BY <1>1, ToldKept
<1>3. e \in gate /\ gate \subseteq Ids /\ 1..Last \subseteq Ids /\ ~IsCheckout(e)
  BY <1>1, SentFacts DEF IInv, Gated, IsCheckout
<1>4. CASE sub # "none" /\ To(e, "pay") /\ UNCHANGED <<disorder, latest, last>>
  <2>1. /\ handlers' = [handlers EXCEPT ![e].stage = "pay"] /\ sub # "none"
        /\ disorder' = disorder /\ latest' = latest /\ last' = last
    BY <1>4 DEF To
  <2>2. TypeOK'
    BY <1>1, <2>1 DEF IInv, TypeOK
  <2>3. /\ handlers'[e].stage = "pay" /\ handlers'[e].read = handlers[e].read
        /\ \A f \in Ids \ {e} : handlers'[f] = handlers[f]
    BY <2>1, SentFacts DEF Handlers
  <2>4. Gated'
    BY <1>1, <1>2, <1>3, <2>1, <2>3 DEF IInv, Gated
  <2>5. Rows'
    BY <1>1, <1>2, <1>3, <2>1, <2>3 DEF IInv, Rows
  <2>6. Fresh'
    BY <1>1, <1>2, <1>3, <2>1, <2>3, RowKept DEF IInv, Fresh
  <2>7. ~Settled(e)' /\ \A f \in gate \ {e} : Settled(f)' = Settled(f)
    BY <1>3, <2>3 DEF Settled
  <2>8. missed' = {} => Complete'
    BY <1>1, <1>2, <1>3, <2>7 DEF IInv, Complete
  <2>9. InOrder' => Followed'
    BY <1>1, <1>2, <1>3, <2>1, <2>7 DEF IInv, InOrder, Followed, Gated
  <2> QED BY <1>2, <2>2, <2>4, <2>5, <2>6, <2>8, <2>9 DEF IInv
<1>5. CASE sub = "none" /\ To(e, "done") /\ Applied(e)
  <2>1. handlers' = [handlers EXCEPT ![e].stage = "done"] /\ sub = "none"
    BY <1>5 DEF To
  <2>2. /\ last' = e /\ e \in 1..Last /\ latest' \in 0..Last
        /\ latest' \in 0..MaxEvents /\ last' \in 0..MaxEvents /\ disorder' \in BOOLEAN
    BY <1>3, <1>5, AppliedFacts
  <2>3. TypeOK'
    BY <1>1, <1>3, <2>1, <2>2, SentFacts DEF IInv, TypeOK
  <2>4. /\ handlers'[e].stage = "done" /\ handlers'[e].read = handlers[e].read
        /\ \A f \in Ids \ {e} : handlers'[f] = handlers[f]
    BY <2>1, SentFacts DEF Handlers
  <2>5. Gated'
    <3>1. gate' \subseteq 1..Last' /\ latest' \in 0..Last' /\ last' \in 0..Last'
      BY <1>1, <1>2, <2>2, SentFacts
    <3> QED BY <1>1, <1>2, <1>3, <2>4, <3>1 DEF IInv, Gated
  <2>6. Rows'
    BY <1>1, <1>2, <1>3, <2>1, <2>4 DEF IInv, Rows
  <2>7. Fresh'
    <3>1. NewestRepairs' /\ CanceledIsEnded'
      BY <1>1, <2>1 DEF NewestRepairs, CanceledIsEnded
    <3> QED BY <1>1, <1>2, <1>3, <2>4, <3>1 DEF IInv, Fresh
  <2>8. Settled(e)' /\ \A f \in gate \ {e} : Settled(f)' = Settled(f)
    BY <1>3, <2>4 DEF Settled
  <2>9. missed' = {} => Complete'
    BY <1>1, <1>2, <1>3, <2>8 DEF IInv, Complete
  <2>10. InOrder' => Followed'
    <3> SUFFICES ASSUME InOrder' PROVE Followed'
      OBVIOUS
    <3>1. /\ Followed /\ last' = latest'
          /\ \A f \in gate : Settled(f)' => f <= latest'
      BY <1>1, <1>3, <1>5, <2>8, AppliedFollows DEF InOrder
    <3>2. payments = {} /\ \A c \in gate : IsCheckout(c) => ~Settled(c)'
      BY <1>1, <1>3, <2>1, <2>8 DEF IInv, Rows, InOrder, Complete
    <3> QED BY <1>1, <1>2, <1>3, <3>1, <3>2 DEF Followed
  <2> QED BY <1>2, <2>3, <2>5, <2>6, <2>7, <2>9, <2>10 DEF IInv
<1> QED BY <1>4, <1>5 DEF FindPayer

LEMMA PayKeeps ==
  ASSUME IInv, NEW e \in Ids, Pay(e), UNCHANGED <<stripeVars, gate, faults, missed>>
  PROVE  IInv'
<1>1. /\ handlers[e].stage = "pay" /\ payments' = payments \cup {e}
      /\ handlers' = [handlers EXCEPT ![e].stage = "write"]
      /\ plan' = plan /\ events' = events /\ acked' = acked /\ gate' = gate
      /\ sub' = sub /\ faults' = faults /\ last' = last
      /\ missed' = missed /\ disorder' = disorder /\ latest' = latest
  BY DEF Pay, To, stripeVars
<1>2. TypeOK'
  BY <1>1 DEF IInv, TypeOK
<1>3. /\ Told' /\ Last' = Last
      /\ \A f \in Ids : (IsCheckout(f)' <=> IsCheckout(f)) /\ (CheckedOut(f)' <=> CheckedOut(f))
  BY <1>1, ToldKept
<1>4. /\ handlers'[e].stage = "write" /\ handlers'[e].read = handlers[e].read
      /\ \A f \in Ids \ {e} : handlers'[f] = handlers[f]
      /\ gate \subseteq Ids /\ 1..Last \subseteq Ids
  BY <1>1, SentFacts DEF Handlers
<1>5. e \in gate /\ events[e].kind = "paid" /\ ~IsCheckout(e) /\ sub # "none"
  BY <1>1 DEF IInv, Gated, Rows, IsCheckout
<1>6. Gated'
  BY <1>1, <1>3, <1>4, <1>5 DEF IInv, Gated
<1>7. Rows'
  BY <1>1, <1>3, <1>4, <1>5 DEF IInv, Rows
<1>8. Fresh'
  BY <1>1, <1>3, <1>4, <1>5, RowKept DEF IInv, Fresh
<1>9. ~Settled(e)' /\ \A f \in gate \ {e} : Settled(f)' = Settled(f)
  BY <1>1, <1>4 DEF Settled
<1>10. missed' = {} => Complete'
  BY <1>1, <1>3, <1>4, <1>9 DEF IInv, Complete
<1>11. InOrder' => Followed'
  BY <1>1, <1>3, <1>4, <1>9 DEF IInv, InOrder, Followed, Gated
<1> QED BY <1>2, <1>3, <1>6, <1>7, <1>8, <1>10, <1>11 DEF IInv

(* What is written is a status the table knows, says canceled only of a     *)
(* subscription that has ended, and is what the row is to show if the event *)
(* is the newest.                                                           *)
LEMMA WrittenStatus ==
  ASSUME IInv, NEW e \in gate, IsCheckout(e) => handlers[e].stage = "write"
  PROVE  /\ Written(e) \in Statuses \ {"none", "unpaid"}
         /\ Written(e) = "canceled" => plan = "canceled"
         /\ e = Last => Written(e) = Shows(e)
<1>1. /\ e \in 1..Last /\ e \in Ids /\ events[e].kind \in Kinds
      /\ events[e].status \in Statuses /\ handlers[e].read \in Statuses
  BY SentFacts DEF Events, Handlers
<1>2. plan \in Statuses \ {"none"} /\ (e = Last => plan = events[e].status)
  BY <1>1, SentFacts DEF IInv, TypeOK, Told
<1>3. /\ events[e].status = "canceled" => plan = "canceled"
      /\ events[e].kind = "deleted" => plan = "canceled"
  BY <1>1 DEF IInv, Told
<1>4. CASE events[e].kind = "checkout"
  <2>1. /\ handlers[e].read # "none" /\ (e = Last => handlers[e].read = plan)
        /\ handlers[e].read = "canceled" => plan = "canceled"
    BY <1>1, <1>4 DEF IInv, Gated, Fresh, IsCheckout
  <2>2. Written(e) = MapStatus(handlers[e].read)
    BY <1>4 DEF Written
  <2>3. Shows(e) = IF plan = "unpaid" THEN "active" ELSE plan
    BY <1>4 DEF Shows
  <2> QED BY <1>1, <1>2, <2>1, <2>2, <2>3 DEF MapStatus, Statuses
<1>5. CASE events[e].kind = "updated"
  <2>1. Written(e) = MapStatus(events[e].status)
    BY <1>5 DEF Written
  <2>2. Shows(e) = IF plan = "unpaid" THEN "active" ELSE plan
    BY <1>5 DEF Shows
  <2> QED BY <1>1, <1>2, <1>3, <2>1, <2>2 DEF MapStatus, Statuses
<1>6. CASE events[e].kind = "deleted"
  <2>1. Written(e) = "canceled" /\ Shows(e) = IF plan = "unpaid" THEN "active" ELSE plan
    BY <1>6 DEF Written, Shows
  <2> QED BY <1>3, <1>6, <2>1 DEF Statuses
<1>7. CASE events[e].kind = "paid"
  BY <1>7 DEF Written, Shows, Statuses
<1>8. CASE events[e].kind = "failed"
  BY <1>8 DEF Written, Shows, Statuses
<1> QED BY <1>1, <1>4, <1>5, <1>6, <1>7, <1>8 DEF Kinds

LEMMA WriteKeeps ==
  ASSUME IInv, NEW e \in Ids, Write(e), UNCHANGED <<stripeVars, gate, faults, missed>>
  PROVE  IInv'
<1>1. /\ \/ handlers[e].stage = "write"
         \/ handlers[e].stage = "start" /\ events[e].kind \in {"updated", "deleted", "failed"}
      /\ sub' = IF sub = "none" /\ ~IsCheckout(e) THEN sub ELSE Written(e)
      /\ handlers' = [handlers EXCEPT ![e].stage = "done"] /\ Applied(e)
      /\ plan' = plan /\ events' = events /\ acked' = acked /\ gate' = gate
      /\ payments' = payments /\ faults' = faults /\ missed' = missed
  BY DEF Write, To, stripeVars, IsCheckout
<1>2. /\ e \in gate /\ gate \subseteq Ids /\ 1..Last \subseteq Ids
      /\ IsCheckout(e) => handlers[e].stage = "write"
  BY <1>1, SentFacts DEF IInv, Gated, IsCheckout
<1>3. /\ Written(e) \in Statuses \ {"none", "unpaid"}
      /\ Written(e) = "canceled" => plan = "canceled"
      /\ e = Last => Written(e) = Shows(e)
  BY <1>2, WrittenStatus
<1>4. /\ last' = e /\ e \in 1..Last /\ latest' \in 0..Last
      /\ latest' >= latest /\ latest' >= e
      /\ latest' \in 0..MaxEvents /\ last' \in 0..MaxEvents /\ disorder' \in BOOLEAN
  BY <1>1, <1>2, AppliedFacts
<1>5. sub' \in Statuses \ {"unpaid"} /\ (sub # "none" => sub' # "none")
  BY <1>1, <1>3 DEF IInv, TypeOK
<1>6. TypeOK'
  BY <1>1, <1>4, <1>5, SentFacts DEF IInv, TypeOK
<1>7. /\ Told' /\ Last' = Last
      /\ \A f \in Ids : (IsCheckout(f)' <=> IsCheckout(f)) /\ (CheckedOut(f)' <=> CheckedOut(f))
  BY <1>1, ToldKept
<1>8. /\ handlers'[e].stage = "done" /\ handlers'[e].read = handlers[e].read
      /\ \A f \in Ids \ {e} : handlers'[f] = handlers[f]
  BY <1>1, SentFacts DEF Handlers
<1>9. Gated'
  <2>1. gate' \subseteq 1..Last' /\ latest' \in 0..Last' /\ last' \in 0..Last'
    BY <1>1, <1>4, <1>7, SentFacts
  <2> QED BY <1>1, <1>2, <1>7, <1>8, <2>1 DEF IInv, Gated
<1>10. Rows'
  <2>1. ASSUME sub' # "none"
        PROVE  \E c \in 1..Last : IsCheckout(c) /\ c <= latest'
    <3>1. CASE IsCheckout(e)
      BY <1>4, <3>1
    <3>2. CASE sub # "none"
      <4>1. PICK c \in 1..Last : IsCheckout(c) /\ c <= latest
        BY <3>2 DEF IInv, Rows
      <4>2. c <= latest'
        BY <1>4, SentFacts, <4>1
      <4> QED BY <4>1, <4>2
    <3> QED BY <1>1, <2>1, <3>1, <3>2
  <2>2. last' >= 1
    BY <1>4, SentFacts
  <2> QED BY <1>1, <1>2, <1>5, <1>7, <1>8, <2>1, <2>2 DEF IInv, Rows
<1>11. Fresh'
  <2>1. NewestRepairs'
    <3>1. ASSUME e = Last, sub' # "none"
          PROVE  sub' = Shows(e)
      <4>1. CASE sub = "none" /\ ~IsCheckout(e)
        BY <1>1, <3>1, <4>1
      <4>2. CASE ~(sub = "none" /\ ~IsCheckout(e))
        BY <1>1, <1>3, <3>1, <4>2
      <4> QED BY <4>1, <4>2
    <3>2. Shows(e)' = Shows(e)
      BY <1>1 DEF Shows
    <3>3. Len(events)' = Last
      BY <1>1 DEF Last
    <3> QED BY <1>4, <3>1, <3>2, <3>3 DEF NewestRepairs, Shows
  <2>2. CanceledIsEnded'
    BY <1>1, <1>3 DEF IInv, Fresh, CanceledIsEnded
  <2> QED BY <1>1, <1>2, <1>7, <1>8, <2>1, <2>2 DEF IInv, Fresh
<1>12. Settled(e)' /\ \A f \in gate \ {e} : Settled(f)' = Settled(f)
  BY <1>2, <1>8 DEF Settled
<1>13. missed' = {} => Complete'
  <2>1. IsCheckout(e) => sub' # "none"
    BY <1>1, <1>3
  <2> QED BY <1>1, <1>2, <1>5, <1>7, <1>12, <2>1 DEF IInv, Complete
<1>14. InOrder' => Followed'
  <2> SUFFICES ASSUME InOrder' PROVE Followed'
    OBVIOUS
  <2>1. /\ Followed /\ last' = latest' /\ latest' = e
        /\ \A f \in gate : Settled(f)' => f <= latest'
        /\ \A f \in gate : Settled(f)' => f <= e
    BY <1>1, <1>2, <1>12, AppliedFollows, AppliedFacts DEF InOrder
  <2>2. ASSUME e \in payments
        PROVE  CheckedOut(e)
    <3>1. events[e].kind = "paid" /\ sub # "none"
      BY <2>2 DEF IInv, Gated, Rows
    <3>2. PICK c \in 1..Last : IsCheckout(c) /\ c <= latest
      BY <3>1 DEF IInv, Rows
    <3>3. c # e /\ c <= e
      BY <1>2, <1>4, <2>1, <3>1, <3>2, AppliedFacts, SentFacts DEF IsCheckout
    <3>4. c \in 1..(e - 1)
      BY <1>4, <3>2, <3>3, SentFacts
    <3> QED BY <3>2, <3>4 DEF CheckedOut, IsCheckout
  <2>3. \A f \in payments : Settled(f)' => CheckedOut(f)'
    BY <1>2, <1>7, <1>12, <2>1, <2>2 DEF Followed, IInv, Gated
  <2>4. ASSUME NEW f \in gate, NEW c \in gate,
               events[f].kind = "paid", Settled(f)', IsCheckout(c), Settled(c)', c < f
        PROVE  f \in payments
    <3>1. CASE f = e
      <4>1. handlers[e].stage = "write" /\ ~IsCheckout(e)
        BY <1>1, <2>4, <3>1 DEF IsCheckout
      <4> QED BY <1>2, <2>4, <3>1, <4>1 DEF IInv, Gated
    <3>2. CASE c = e /\ f # e
      <4>1. f <= e /\ f \in Nat /\ e \in Nat
        BY <1>4, <2>1, <2>4, SentFacts
      <4> QED BY <2>4, <3>2, <4>1
    <3>3. CASE c # e /\ f # e
      BY <1>12, <2>1, <2>4, <3>3 DEF Followed
    <3> QED BY <3>1, <3>2, <3>3
  <2> QED BY <1>1, <1>2, <1>7, <2>1, <2>3, <2>4 DEF Followed
<1> QED BY <1>6, <1>7, <1>9, <1>10, <1>11, <1>13, <1>14 DEF IInv

-------------------------------------------------------------------------------
LEMMA NextKeeps == IInv /\ [Next]_vars => IInv'
<1> SUFFICES ASSUME IInv, [Next]_vars PROVE IInv'
  OBVIOUS
<1>1. CASE UNCHANGED vars
  BY <1>1 DEF vars, stripeVars, localVars, history, IInv, TypeOK, Told, Gated, Rows,
     Fresh, NewestRepairs, CanceledIsEnded, Shows, Complete, InOrder, Followed,
     Settled, IsCheckout, CheckedOut, Last
<1>2. CASE Stripe
  BY <1>2, StripeKeeps
<1>3. ASSUME NEW e \in Ids, Deliver(e) \/ GateError(e) \/ HandlerFails(e)
      PROVE  IInv'
  <2>1. CASE Handle(e)
    BY <2>1, RetrieveKeeps, FindPayerKeeps, PayKeeps, WriteKeeps DEF Handle
  <2> QED BY <1>3, <2>1, ReceiveKeeps, ReplayKeeps, MarkKeeps, GateErrorKeeps,
             HandlerFailsKeeps DEF Deliver
<1> QED BY <1>1, <1>2, <1>3 DEF Next

(* Every reachable state satisfies the strengthened invariant. *)
THEOREM Strengthened == Spec => []IInv
BY InitIInv, NextKeeps, PTL DEF Spec

(* The variables keep their types; in particular the local row is never     *)
(* given the status unpaid, which the table does not know (webhooks.ts      *)
(* 21-36).                                                                  *)
THEOREM TypeCorrect == Spec => []TypeOK
<1>1. IInv => TypeOK
  BY DEF IInv
<1> QED BY <1>1, Strengthened, PTL

(* Whatever was missed, repeated or applied in the wrong order before, the  *)
(* newest event, once it is the last applied, makes the row say what it is  *)
(* to say after it - for any number of events, handlers and faults          *)
(* (webhooks.ts 123-163, 190-236, 292-314).                                 *)
THEOREM NewestAlwaysRepairs == Spec => []NewestRepairs
<1>1. IInv => NewestRepairs
  BY DEF IInv, Fresh
<1> QED BY <1>1, Strengthened, PTL

(* The row says canceled of no subscription that goes on (webhooks.ts       *)
(* 21-36, 225-236).                                                         *)
THEOREM CanceledHasEnded == Spec => []CanceledIsEnded
<1>1. IInv => CanceledIsEnded
  BY DEF IInv, Fresh
<1> QED BY <1>1, Strengthened, PTL

(* What a delivery that misses no event comes to, and what one in order     *)
(* does - for any number of events and handlers (webhooks.ts 112-315).      *)
THEOREM RowMirrorsStripe == Spec => []MirrorsStripe
<1>1. IInv => MirrorsStripe
  <2> SUFFICES ASSUME IInv, acked = 1..Len(events), Running = {}, missed = {}
               PROVE  /\ sub # "none" <=> CheckedOut(Len(events) + 1)
                      /\ ~disorder =>
                           /\ last = Len(events)
                           /\ payments = {e \in acked : events[e].kind = "paid" /\ CheckedOut(e)}
    BY DEF MirrorsStripe
  <2>1. /\ acked = 1..Last /\ Last = Len(events) /\ Last \in Nat /\ gate = 1..Last
        /\ gate \subseteq Ids /\ latest \in 0..Last
    <3>1. /\ Last = Len(events) /\ Last \in 0..MaxEvents /\ MaxEvents \in Nat
          /\ gate \subseteq 1..Last /\ gate \subseteq Ids /\ latest \in 0..Last
      BY SentFacts
    <3>2. acked = 1..Last
      BY DEF Last
    <3>3. acked \subseteq gate
      BY DEF IInv, Complete
    <3>4. Last \in Nat
      BY <3>1
    <3>5. gate \subseteq 1..Last
      BY <3>1
    <3>6. gate = 1..Last
      BY <3>2, <3>3, <3>5, Zenon
    <3> QED BY <3>1, <3>2, <3>4, <3>6, Zenon
  <2>2. \A e \in gate : Settled(e)
    BY <2>1 DEF Running, Settled
  <2>3. CheckedOut(Last + 1) <=> \E c \in gate : IsCheckout(c)
    BY <2>1 DEF CheckedOut, IsCheckout
  <2>4. sub # "none" <=> \E c \in gate : IsCheckout(c)
    BY <2>1, <2>2 DEF IInv, Rows, Complete
  <2>5. ASSUME ~disorder
        PROVE  /\ last = Last
               /\ payments = {e \in acked : events[e].kind = "paid" /\ CheckedOut(e)}
    <3>1. Followed
      BY <2>5 DEF IInv, InOrder
    <3>2. last = Last
      <4>1. Last > 0 => Last \in gate /\ Last <= latest
        BY <2>1, <2>2, <3>1 DEF Followed
      <4> QED BY <2>1, <3>1, <4>1 DEF Followed
    <3>3. \A e \in payments : e \in acked /\ events[e].kind = "paid" /\ CheckedOut(e)
      BY <2>1, <2>2, <3>1 DEF Followed, IInv, Gated
    <3>4. ASSUME NEW e \in acked, events[e].kind = "paid", CheckedOut(e)
          PROVE  e \in payments
      <4>1. PICK c \in 1..(e - 1) : IsCheckout(c)
        BY <3>4 DEF CheckedOut, IsCheckout
      <4>2. c \in gate /\ e \in gate /\ c < e
        BY <2>1, <3>4, <4>1
      <4> QED BY <2>2, <3>1, <3>4, <4>1, <4>2 DEF Followed
    <3> QED BY <3>2, <3>3, <3>4
  <2> QED BY <2>1, <2>3, <2>4, <2>5
<1> QED BY <1>1, Strengthened, PTL
===============================================================================
