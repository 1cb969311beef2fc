---------------------------- MODULE StripeLedger ----------------------------
(***************************************************************************)
(* What Stripe's webhook makes of one donation: handleStripeWebhook and    *)
(* the handlers of stripeWebhook.ts, interleaved statement by statement    *)
(* over its checkout row, the settlement of its first invoice (MONTHLY),   *)
(* its gift and the rows of the events themselves.                         *)
(*                                                                         *)
(* A history is what happened at Stripe, as the set of its events.  An     *)
(* event is delivered at least once, at any time and in any order, and     *)
(* again after every answer that is not 200; an event delivered while it   *)
(* is not claimable (BUSY) or PROCESSED (DUPLICATE) changes nothing.       *)
(* Identities, amounts and modes agree here, so the checks that compare    *)
(* them pass; the acknowledgment rows that a gift and a refund insert in   *)
(* the same batch belong to StripeAcknowledgments.                         *)
(***************************************************************************)
EXTENDS Naturals, FiniteSets

CONSTANTS Workers,    \* deliveries in flight at a time
          Histories,  \* the histories that are considered, see History
          MaxFaults,  \* D1 errors, dying handlers and claims that go stale
          NULL

ASSUME FaultsAreBounded == MaxFaults \in Nat

CheckoutEvents == {"completed", "async_succeeded", "async_failed", "expired"}
RefundEvents   == {"partial_refund", "full_refund"}
InvoiceEvents  == {"invoice_paid", "invoice_failed"}
Events == CheckoutEvents \cup RefundEvents \cup InvoiceEvents
             \cup {"charge", "invoice_payment", "deleted"}

ASSUME NullIsNoEvent == NULL \notin Events

\* The event's second at Stripe and what its checkout session says is paid.
HistoryOf == [
    card     |-> [frequency |-> "ONCE", paid |-> TRUE,
                  created |-> [completed |-> 1, charge |-> 1, partial_refund |-> 2, full_refund |-> 3]],
    ach      |-> [frequency |-> "ONCE", paid |-> FALSE,
                  created |-> [completed |-> 1, async_succeeded |-> 1, charge |-> 1, full_refund |-> 2]],
    bounced  |-> [frequency |-> "ONCE", paid |-> FALSE,
                  created |-> [completed |-> 1, async_failed |-> 1]],
    expired  |-> [frequency |-> "ONCE", paid |-> FALSE, created |-> [expired |-> 1]],
    monthly  |-> [frequency |-> "MONTHLY", paid |-> TRUE,
                  created |-> [completed |-> 1, invoice_paid |-> 1, invoice_payment |-> 1,
                               charge |-> 1, partial_refund |-> 2]],
    canceled |-> [frequency |-> "MONTHLY", paid |-> TRUE,
                  created |-> [completed |-> 1, invoice_paid |-> 1, invoice_failed |-> 2,
                               deleted |-> 3]],
    overtaken |-> [frequency |-> "MONTHLY", paid |-> TRUE,
                  created |-> [completed |-> 1, deleted |-> 2, invoice_failed |-> 3]]]

ASSUME HistoriesAreKnown == Histories \subseteq DOMAIN HistoryOf

CheckoutRow == [status       : {"OPEN", "COMPLETE", "EXPIRED", "FAILED"},
                payment      : {"UNPAID", "PAID"},
                at           : (0..3) \X (0..4),   \* checkout_event_created, _rank
                subscription : {"NONE", "ACTIVE", "PAST_DUE", "CANCELED"},
                sub_at       : (0..3) \X (0..3),   \* subscription_event_created, _rank
                linked       : BOOLEAN,            \* stripe_subscription_id IS NOT NULL
                method       : Events \cup {NULL}] \* payment_method_event_id

NewCheckout == [status |-> "OPEN", payment |-> "UNPAID", at |-> <<0, 0>>,
                subscription |-> "NONE", sub_at |-> <<0, 0>>, linked |-> FALSE,
                method |-> NULL]

\* invoice and payment: the evidence of invoice.paid and of invoice_payment.paid.
SettlementRow == [status  : {"NONE", "PENDING", "RECORDED"},
                  invoice : BOOLEAN, payment : BOOLEAN,
                  method  : Events \cup {NULL}]

NoSettlement == [status |-> "NONE", invoice |-> FALSE, payment |-> FALSE, method |-> NULL]

Amount == 2

GiftRow == [made : BOOLEAN, method : Events \cup {NULL}, refunded : 0..Amount]

NoGift == [made |-> FALSE, method |-> NULL, refunded |-> 0]

EventRow == [status   : {"NONE", "PROCESSING", "PROCESSED", "FAILED"},
             claim    : Workers \cup {NULL},
             stale    : BOOLEAN,
             evidence : BOOLEAN]   \* payment_method_type IS NOT NULL

NoEvent == [status |-> "NONE", claim |-> NULL, stale |-> FALSE, evidence |-> FALSE]

\* method and settlement are copies the handler has read.
Worker == [pc : {"idle", "checkout", "gift", "invoice", "stage_paid", "settle", "mark",
                 "delete", "stage_payment", "read_evidence", "evidence",
                 "checkout_method", "settlement_method", "gift_method", "refund",
                 "finalize", "failed"},
           event      : Events \cup {NULL},
           method     : Events \cup {NULL},
           settlement : SettlementRow]

IdleWorker == [pc |-> "idle", event |-> NULL, method |-> NULL, settlement |-> NoSettlement]

VARIABLES
    history,                   \* what happened at Stripe
    checkout,                  \* the donation's row of stripe_checkout_sessions
    settlement,                \* its row of stripe_invoice_settlements
    gift,                      \* its row of stripe_gifts
    stripe_webhook_events,     \* Events -> EventRow
    worker,                    \* deliveries in flight
    faults,                    \* faults so far
    applied                    \* events that have moved the checkout row (history)

vars == <<history, checkout, settlement, gift, stripe_webhook_events, worker, faults, applied>>

H == HistoryOf[history]

Monthly == H.frequency = "MONTHLY"

Init ==
    /\ history \in Histories
    /\ checkout = NewCheckout
    /\ settlement = NoSettlement
    /\ gift = NoGift
    /\ stripe_webhook_events = [e \in Events |-> NoEvent]
    /\ worker = [w \in Workers |-> IdleWorker]
    /\ faults = 0
    /\ applied = {}

-----------------------------------------------------------------------------
(* The statements of storage/repository/stripeDonations.ts.                *)

Newer(a, b) == a[1] > b[1] \/ (a[1] = b[1] /\ a[2] > b[2])

Pays(e) == e = "async_succeeded" \/ (e = "completed" /\ H.paid)

StatusOf(e) == CASE e = "expired" -> "EXPIRED"
                 [] e = "async_failed" -> "FAILED"
                 [] OTHER -> "COMPLETE"

EventAt(e) == <<H.created[e], CASE Pays(e) -> 4
                                [] e = "async_failed" -> 3
                                [] e = "expired" -> 2
                                [] OTHER -> 1>>

\* The subscription's status after an event, and the event's rank.
SubscriptionOf(e) == CASE e \in {"completed", "async_succeeded", "invoice_paid"} -> "ACTIVE"
                       [] e = "invoice_failed" -> "PAST_DUE"
                       [] e = "deleted" -> "CANCELED"

SubscriptionAt(e) == <<H.created[e], CASE e = "deleted" -> 3
                                       [] e = "invoice_failed" -> 1
                                       [] OTHER -> 2>>

\* Of the statements that never leave CANCELED.
MoveSubscription(row, e) ==
    IF row.subscription # "CANCELED" /\ Newer(SubscriptionAt(e), row.sub_at)
    THEN [row EXCEPT !.subscription = SubscriptionOf(e), !.sub_at = SubscriptionAt(e)]
    ELSE row

\* A bug for the mutation test: the delivery that comes last wins.
LastDeliveryWins(row, e) ==
    LET paid == row.payment = "PAID" \/ Pays(e) IN
    [row EXCEPT !.status = StatusOf(e), !.payment = IF paid THEN "PAID" ELSE "UNPAID",
                !.at = EventAt(e), !.linked = Monthly]

updateStripeCheckoutFromEvent(row, e) ==
    LET paid == row.payment = "PAID" \/ Pays(e)
        newer == Newer(EventAt(e), row.at)
        moved == [row EXCEPT !.status = CASE paid -> "COMPLETE"
                                          [] ~paid /\ newer -> StatusOf(e)
                                          [] OTHER -> @,
                             !.payment = IF paid THEN "PAID" ELSE @,
                             !.at = IF newer THEN EventAt(e) ELSE @,
                             !.linked = @ \/ Monthly] IN
    IF Monthly /\ Pays(e) THEN MoveSubscription(moved, e) ELSE moved

updateStripeCheckoutFromInvoice(row, e) ==
    LET paid == e = "invoice_paid" IN
    MoveSubscription([row EXCEPT !.status = IF paid THEN "COMPLETE" ELSE @,
                                 !.payment = IF paid THEN "PAID" ELSE @,
                                 !.linked = TRUE], e)

updateStripeSubscriptionStatus(row, e) ==
    IF Newer(SubscriptionAt(e), row.sub_at)
    THEN [row EXCEPT !.subscription = SubscriptionOf(e), !.sub_at = SubscriptionAt(e)]
    ELSE row

claimStripeWebhookEventEnabled(row) ==
    \/ row.status \in {"NONE", "FAILED"}
    \/ row.status = "PROCESSING" /\ row.stale

claimStripeWebhookEvent(row, w) ==
    [row EXCEPT !.status = "PROCESSING", !.claim = w, !.stale = FALSE]

finalizeStripeWebhookEventEnabled(row, w) == row.status = "PROCESSING" /\ row.claim = w

finalizeStripeWebhookEvent(row, outcome) ==
    [row EXCEPT !.status = outcome, !.claim = NULL, !.stale = FALSE]

\* INSERT OR IGNORE, in a batch with the acknowledgment.
recordStripeGiftAndAcknowledgment(row, method) ==
    IF row.made THEN row ELSE [NoGift EXCEPT !.made = TRUE, !.method = method]

stripeGiftMatches(row, method) == row.method = method

stageStripeInvoicePaid(row) ==
    [row EXCEPT !.status = IF @ = "NONE" THEN "PENDING" ELSE @, !.invoice = TRUE]

stageStripeInvoicePayment(row) ==
    [row EXCEPT !.status = IF @ = "NONE" THEN "PENDING" ELSE @, !.payment = TRUE]

\* The payment method of a one-time checkout is the evidence of one event.
recordMethodForCheckoutEnabled(row, e) == row.method \in {NULL, e}

\* COALESCE(payment_method_event_id, e), for the settlement and the gift.
recordMethod(row, e) == [row EXCEPT !.method = IF @ = NULL THEN e ELSE @]

\* The gift of a one-time payment keeps the event it has, or the UPDATE finds
\* no row and the handler has no gift in hand.
giftMethodEnabled(e) == gift.made /\ (Monthly \/ gift.method \in {NULL, e})

getStripeChargePaymentMethodByPaymentIntent ==
    LET row == stripe_webhook_events["charge"] IN
    row.status \in {"PROCESSING", "PROCESSED"} /\ row.evidence

RefundedBy(e) == IF e = "full_refund" THEN Amount ELSE 1

\* A bug for the mutation test: the refund of the last delivery is kept.
LastRefund(row, e) == [row EXCEPT !.refunded = RefundedBy(e)]

\* A bug for the mutation test: Stripe's running total taken for a refund.
RefundsAddUp(row, e) == [row EXCEPT !.refunded = @ + RefundedBy(e)]

applyStripeRefund(row, e) ==
    [row EXCEPT !.refunded = IF RefundedBy(e) > @ THEN RefundedBy(e) ELSE @]

-----------------------------------------------------------------------------
(* How a step moves its delivery.                                          *)

At(w, pc) == worker[w].pc = pc

Ev(w) == worker[w].event

Goto(w, pc) == worker' = [worker EXCEPT ![w].pc = pc]

SetEvent(e, row) == stripe_webhook_events' = [stripe_webhook_events EXCEPT ![e] = row]

\* recordReadyInvoiceSettlement goes on with the settlement it was given.
Ready(s) == s.status # "RECORDED" /\ s.invoice /\ s.payment

Settle(w, s) ==
    worker' = [worker EXCEPT ![w].pc = IF Ready(s) THEN "settle" ELSE "finalize",
                             ![w].settlement = IF Ready(s) THEN s ELSE NoSettlement]

FirstStep(e) ==
    CASE e \in CheckoutEvents    -> "checkout"
      [] e \in InvoiceEvents     -> "invoice"
      [] e = "invoice_payment"   -> "stage_payment"
      [] e = "charge"            -> "evidence"
      [] e \in RefundEvents      -> "refund"
      [] e = "deleted"           -> "delete"

-----------------------------------------------------------------------------
(* The steps of a delivery.                                                *)

Deliver(w, e) ==
    /\ At(w, "idle")
    /\ e \in DOMAIN H.created
    /\ claimStripeWebhookEventEnabled(stripe_webhook_events[e])
    /\ SetEvent(e, claimStripeWebhookEvent(stripe_webhook_events[e], w))
    /\ worker' = [worker EXCEPT ![w] = [IdleWorker EXCEPT !.pc = FirstStep(e), !.event = e]]
    /\ UNCHANGED <<history, checkout, settlement, gift, faults, applied>>

\* processCheckoutSessionEvent; the row RETURNING gives is kept.
Checkout(w) ==
    LET row == updateStripeCheckoutFromEvent(checkout, Ev(w)) IN
    /\ At(w, "checkout")
    /\ checkout' = row
    /\ applied' = applied \cup {Ev(w)}
    /\ worker' = [worker EXCEPT ![w].pc = IF ~Monthly /\ Pays(Ev(w)) THEN "gift" ELSE "finalize",
                                ![w].method = row.method]
    /\ UNCHANGED <<history, settlement, gift, stripe_webhook_events, faults>>

\* StripeGiftConflictError if the gift was made from other evidence.
Gift(w) ==
    LET row == recordStripeGiftAndAcknowledgment(gift, worker[w].method) IN
    /\ At(w, "gift")
    /\ gift' = row
    /\ Goto(w, IF stripeGiftMatches(row, worker[w].method) THEN "finalize" ELSE "failed")
    /\ UNCHANGED <<history, checkout, settlement, stripe_webhook_events, faults, applied>>

Invoice(w) ==
    /\ At(w, "invoice")
    /\ checkout' = updateStripeCheckoutFromInvoice(checkout, Ev(w))
    /\ applied' = applied \cup {Ev(w)}
    /\ Goto(w, IF Ev(w) = "invoice_paid" THEN "stage_paid" ELSE "finalize")
    /\ UNCHANGED <<history, settlement, gift, stripe_webhook_events, faults>>

StagePaid(w) ==
    LET row == stageStripeInvoicePaid(settlement) IN
    /\ At(w, "stage_paid")
    /\ settlement' = row
    /\ Settle(w, row)
    /\ UNCHANGED <<history, checkout, gift, stripe_webhook_events, faults, applied>>

RecordSettlement(w) ==
    LET method == worker[w].settlement.method
        row == recordStripeGiftAndAcknowledgment(gift, method) IN
    /\ At(w, "settle")
    /\ gift' = row
    /\ Goto(w, IF stripeGiftMatches(row, method) THEN "mark" ELSE "failed")
    /\ UNCHANGED <<history, checkout, settlement, stripe_webhook_events, faults, applied>>

Mark(w) ==
    /\ At(w, "mark")
    /\ settlement' = [settlement EXCEPT !.status = "RECORDED"]
    /\ worker' = [worker EXCEPT ![w].pc = "finalize", ![w].settlement = NoSettlement]
    /\ UNCHANGED <<history, checkout, gift, stripe_webhook_events, faults, applied>>

StagePayment(w) ==
    LET row == stageStripeInvoicePayment(settlement) IN
    /\ At(w, "stage_payment")
    /\ settlement' = row
    /\ worker' = [worker EXCEPT ![w].pc = "read_evidence", ![w].settlement = row]
    /\ UNCHANGED <<history, checkout, gift, stripe_webhook_events, faults, applied>>

ReadEvidence(w) ==
    /\ At(w, "read_evidence")
    /\ IF getStripeChargePaymentMethodByPaymentIntent THEN Goto(w, "settlement_method")
       ELSE Settle(w, worker[w].settlement)
    /\ UNCHANGED <<history, checkout, settlement, gift, stripe_webhook_events, faults, applied>>

\* applyStripeChargePaymentMethod: first on the event's own row.
Evidence(w) ==
    LET row == stripe_webhook_events[Ev(w)] IN
    /\ At(w, "evidence")
    /\ IF row.status = "PROCESSING"
       THEN /\ SetEvent(Ev(w), [row EXCEPT !.evidence = TRUE])
            /\ Goto(w, IF Monthly THEN "settlement_method" ELSE "checkout_method")
       ELSE /\ UNCHANGED stripe_webhook_events
            /\ Goto(w, "failed")
    /\ UNCHANGED <<history, checkout, settlement, gift, faults, applied>>

CheckoutMethod(w) ==
    /\ At(w, "checkout_method")
    /\ IF recordMethodForCheckoutEnabled(checkout, Ev(w))
       THEN checkout' = [checkout EXCEPT !.method = Ev(w)] /\ Goto(w, "gift_method")
       ELSE UNCHANGED checkout /\ Goto(w, "failed")
    /\ UNCHANGED <<history, settlement, gift, stripe_webhook_events, faults, applied>>

\* The invoice's settlement is found by its payment intent, if it is staged.
\* The evidence that invoice_payment.paid reads is the charge's.
MethodEvent(w) == IF Ev(w) = "invoice_payment" THEN "charge" ELSE Ev(w)

SettlementMethod(w) ==
    LET row == recordMethod(settlement, MethodEvent(w)) IN
    /\ At(w, "settlement_method")
    /\ IF settlement.payment
       THEN /\ settlement' = row
            /\ worker' = [worker EXCEPT ![w].pc = "gift_method", ![w].settlement = row]
       ELSE UNCHANGED settlement /\ Goto(w, "finalize")
    /\ UNCHANGED <<history, checkout, gift, stripe_webhook_events, faults, applied>>

\* Without a gift in hand the charge of an invoice settles it.
GiftMethod(w) ==
    /\ At(w, "gift_method")
    /\ gift' = IF giftMethodEnabled(MethodEvent(w)) THEN recordMethod(gift, MethodEvent(w)) ELSE gift
    /\ IF Monthly /\ (Ev(w) = "invoice_payment" \/ ~gift.made)
       THEN Settle(w, worker[w].settlement)
       ELSE worker' = [worker EXCEPT ![w].pc = "finalize", ![w].settlement = NoSettlement]
    /\ UNCHANGED <<history, checkout, settlement, stripe_webhook_events, faults, applied>>

\* refund_gift_not_found, or the method is taken from the refunded charge.
Refund(w) ==
    /\ At(w, "refund")
    /\ IF gift.made
       THEN /\ gift' = applyStripeRefund(gift, Ev(w))
            /\ Goto(w, IF gift.method = NULL THEN "evidence" ELSE "finalize")
       ELSE UNCHANGED gift /\ Goto(w, "failed")
    /\ UNCHANGED <<history, checkout, settlement, stripe_webhook_events, faults, applied>>

Delete(w) ==
    /\ At(w, "delete")
    /\ IF checkout.linked
       THEN /\ checkout' = updateStripeSubscriptionStatus(checkout, Ev(w))
            /\ applied' = applied \cup {Ev(w)}
            /\ Goto(w, "finalize")
       ELSE UNCHANGED <<checkout, applied>> /\ Goto(w, "failed")
    /\ UNCHANGED <<history, settlement, gift, stripe_webhook_events, faults>>

\* The answer is 200 only after the claim was finalized as PROCESSED.
Finalize(w) ==
    LET row == stripe_webhook_events[Ev(w)] IN
    /\ worker[w].pc \in {"finalize", "failed"}
    /\ IF finalizeStripeWebhookEventEnabled(row, w)
       THEN SetEvent(Ev(w), finalizeStripeWebhookEvent(row,
                              IF At(w, "finalize") THEN "PROCESSED" ELSE "FAILED"))
       ELSE UNCHANGED stripe_webhook_events
    /\ worker' = [worker EXCEPT ![w] = IdleWorker]
    /\ UNCHANGED <<history, checkout, settlement, gift, faults, applied>>

-----------------------------------------------------------------------------

Fault == faults < MaxFaults /\ faults' = faults + 1

\* A statement throws, here without effect; a crash covers the lost answer.
Throw(w) ==
    /\ Fault
    /\ worker[w].pc \notin {"idle", "finalize", "failed"}
    /\ Goto(w, "failed")
    /\ UNCHANGED <<history, checkout, settlement, gift, stripe_webhook_events, applied>>

Crash(w) ==
    /\ Fault
    /\ ~At(w, "idle")
    /\ worker' = [worker EXCEPT ![w] = IdleWorker]
    /\ UNCHANGED <<history, checkout, settlement, gift, stripe_webhook_events, applied>>

\* Five minutes: a claim goes stale while its delivery still runs, or died.
GoesStale(e) ==
    LET row == stripe_webhook_events[e] IN
    /\ row.status = "PROCESSING" /\ ~row.stale
    /\ IF At(row.claim, "idle") \/ Ev(row.claim) # e THEN UNCHANGED faults ELSE Fault
    /\ SetEvent(e, [row EXCEPT !.stale = TRUE])
    /\ UNCHANGED <<history, checkout, settlement, gift, worker, applied>>

Step(w) ==
    \/ Checkout(w) \/ Gift(w) \/ Invoice(w) \/ StagePaid(w) \/ RecordSettlement(w) \/ Mark(w)
    \/ StagePayment(w) \/ ReadEvidence(w) \/ Evidence(w) \/ CheckoutMethod(w)
    \/ SettlementMethod(w) \/ GiftMethod(w) \/ Refund(w) \/ Delete(w) \/ Finalize(w)

Next ==
    \/ \E w \in Workers : Step(w) \/ Throw(w) \/ Crash(w)
    \/ \E w \in Workers, e \in Events : Deliver(w, e)
    \/ \E e \in Events : GoesStale(e)

Spec == Init /\ [][Next]_vars

-----------------------------------------------------------------------------
(* Properties.                                                             *)

\* Every row keeps the shape of its table.
TypeOK ==
    /\ checkout \in CheckoutRow
    /\ settlement \in SettlementRow
    /\ gift \in GiftRow
    /\ stripe_webhook_events \in [Events -> EventRow]
    /\ worker \in [Workers -> Worker]
    /\ applied \subseteq Events

\* Those of a set of events that no other of them is newer than.
NewestOf(S, at(_)) == {e \in S : \A d \in S : ~Newer(at(d), at(e))}

PaidBy(e) == Pays(e) \/ e = "invoice_paid"

SubscriptionEvents == {e \in Events : e \in {"invoice_paid", "invoice_failed", "deleted"}
                                     \/ (Monthly /\ Pays(e))}

\* In whatever order and however often the events come, and whichever of their
\* handlers die: the checkout is paid once a paying event was handled and never
\* unpaid again, is what its newest event says otherwise, and the subscription
\* is what the newest of its events says, or canceled for good.
CheckoutIsOfNewest ==
    LET checkouts == applied \cap CheckoutEvents
        subscriptions == applied \cap SubscriptionEvents IN
    /\ (checkout.payment = "PAID") = (\E e \in applied : PaidBy(e))
    /\ checkout.payment = "PAID" => checkout.status = "COMPLETE"
    /\ checkout.payment = "UNPAID" /\ checkouts # {} =>
          \E e \in NewestOf(checkouts, EventAt) : checkout.status = StatusOf(e)
    /\ subscriptions # {} =>
          \/ \E e \in NewestOf(subscriptions, SubscriptionAt) :
                checkout.subscription = SubscriptionOf(e)
          \/ checkout.subscription = "CANCELED" /\ "deleted" \in subscriptions

\* An event is PROCESSED, and Stripe will not send it again, only when what it
\* says is in the ledger: a paid one-time checkout and a settled invoice are a
\* gift, a refund is taken off the gift, and a monthly gift has its method once
\* the charge and the payment that links it are in.
ProcessedIsDone ==
    LET done(e) == stripe_webhook_events[e].status = "PROCESSED" IN
    /\ ~Monthly => \A e \in CheckoutEvents \cap DOMAIN H.created : Pays(e) /\ done(e) => gift.made
    /\ done("invoice_paid") /\ done("invoice_payment") =>
          gift.made /\ settlement.status = "RECORDED"
    /\ \A e \in RefundEvents : done(e) => gift.made /\ gift.refunded >= RefundedBy(e)
    /\ Monthly /\ gift.made /\ done("charge") /\ done("invoice_payment") => gift.method # NULL

=============================================================================
