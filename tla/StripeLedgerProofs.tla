------------------------- MODULE StripeLedgerProofs -------------------------
(***************************************************************************)
(* Proofs about StripeLedger, for any number of deliveries in flight and of *)
(* faults, and about StripeStatements, for any number of runs, facts,       *)
(* settings and revisions.  The two components share no variable.          *)
(***************************************************************************)
EXTENDS StripeLedger, StripeStatements, SequenceTheorems, WellFoundedInduction, TLAPS

-----------------------------------------------------------------------------
(* The inductive invariant: the checkout row.                              *)

Done(e) == stripe_webhook_events[e].status = "PROCESSED"

\* The row stands where the newest of the events that moved it has left it.
CheckoutNewest ==
    LET checkouts == applied \cap CheckoutEvents IN
    IF checkouts = {} THEN checkout.at = <<0, 0>>
    ELSE \E e \in NewestOf(checkouts, EventAt) :
            /\ checkout.at = EventAt(e)
            /\ checkout.payment = "UNPAID" => checkout.status = StatusOf(e)

SubscriptionNewest ==
    LET subscriptions == applied \cap SubscriptionEvents IN
    /\ checkout.subscription = "CANCELED" => "deleted" \in applied
    /\ IF subscriptions = {}
       THEN checkout.sub_at = <<0, 0>>
       ELSE checkout.subscription # "CANCELED" =>
               \E e \in NewestOf(subscriptions, SubscriptionAt) :
                  /\ checkout.sub_at = SubscriptionAt(e)
                  /\ checkout.subscription = SubscriptionOf(e)

CheckoutInv ==
    /\ applied \subseteq DOMAIN H.created
    /\ (checkout.payment = "PAID") = (\E e \in applied : PaidBy(e))
    /\ checkout.payment = "PAID" => checkout.status = "COMPLETE"
    /\ CheckoutNewest
    /\ SubscriptionNewest

-----------------------------------------------------------------------------
(* The inductive invariant: what a delivery knows.                         *)

\* Which event may be at which statement.
EventsAt == [idle |-> {NULL},
             checkout |-> CheckoutEvents, gift |-> CheckoutEvents,
             invoice |-> InvoiceEvents, stage_paid |-> {"invoice_paid"},
             stage_payment |-> {"invoice_payment"}, read_evidence |-> {"invoice_payment"},
             evidence |-> RefundEvents \cup {"charge"},
             checkout_method |-> RefundEvents \cup {"charge"},
             settlement_method |-> RefundEvents \cup {"charge", "invoice_payment"},
             gift_method |-> RefundEvents \cup {"charge", "invoice_payment"},
             settle |-> {"charge", "invoice_paid", "invoice_payment"},
             mark |-> {"charge", "invoice_paid", "invoice_payment"},
             refund |-> RefundEvents, delete |-> {"deleted"},
             finalize |-> Events, failed |-> Events]

\* The statements behind the one that stages the evidence of an invoice.
Staged == {"read_evidence", "settlement_method", "gift_method", "settle", "mark", "finalize"}

\* A copy of the settlement is never ahead of the row.
Behind(s) ==
    /\ s.invoice => settlement.invoice
    /\ s.payment => settlement.payment
    /\ s.status = "RECORDED" => settlement.status = "RECORDED"

Knows(w) ==
    LET k == worker[w] IN
    /\ k.event \in EventsAt[k.pc]
    /\ k.pc # "idle" => k.event \in DOMAIN H.created
    /\ Behind(k.settlement)
    /\ k.pc = "settle" => k.settlement.invoice /\ k.settlement.payment
    /\ k.pc = "mark" => gift.made
    /\ k.pc \in Staged /\ k.event = "invoice_paid" => settlement.invoice
    /\ k.pc \in Staged /\ k.event = "invoice_payment" => settlement.payment
    /\ k.pc \in {"gift", "checkout_method"} => ~Monthly
    /\ k.pc = "finalize" /\ k.event \in CheckoutEvents /\ ~Monthly /\ Pays(k.event) => gift.made
    /\ k.event \in RefundEvents /\ k.pc \notin {"idle", "refund", "failed"} =>
          gift.made /\ gift.refunded >= RefundedBy(k.event)

\* What the rows say of the events that are done.
RowsKnow ==
    /\ \A e \in CheckoutEvents : ~Monthly /\ Pays(e) /\ Done(e) => gift.made
    /\ \A e \in RefundEvents : Done(e) => gift.made /\ gift.refunded >= RefundedBy(e)
    /\ Done("invoice_paid") => settlement.invoice
    /\ Done("invoice_payment") => settlement.payment
    /\ settlement.status = "RECORDED" => gift.made
    /\ ~gift.made => gift.method = NULL

-----------------------------------------------------------------------------
(* The inductive invariant: the invoice is settled.                        *)

Settled == gift.made /\ settlement.status = "RECORDED"

Finishes(w) ==
    /\ worker[w].pc = "finalize" => Settled
    /\ worker[w].pc \in {"read_evidence", "settlement_method", "gift_method"} =>
          worker[w].settlement.invoice /\ worker[w].settlement.payment

\* Every delivery of e has found, or finds, both halves of the evidence.
Completes(e) ==
    /\ Done(e) => Settled
    /\ \A w \in Workers : worker[w].event = e => Finishes(w)

\* Whichever half is staged second.
OneCompletes == Completes("invoice_paid") \/ Completes("invoice_payment")

-----------------------------------------------------------------------------
(* The inductive invariant: the monthly gift gets its method.              *)

\* A delivery that may still make the gift without the method.
Bad(w) ==
    /\ worker[w].pc \in {"read_evidence", "settle"}
    /\ worker[w].settlement.invoice /\ worker[w].settlement.payment
    /\ worker[w].settlement.method = NULL

NoBad == \A w \in Workers : ~Bad(w)

\* The gift has its method, or gets it when it is made.
HasMethod ==
    \/ gift.method # NULL
    \/ settlement.method # NULL /\ ~gift.made /\ NoBad

\* The delivery that has stored the method on the settlement goes on with it.
KnowsMethod(w) ==
    LET s == worker[w].settlement IN
    worker[w].pc = "gift_method" =>
       /\ settlement.method # NULL /\ s.method # NULL /\ s.payment
       /\ s.invoice \/ NoBad

Brings(w) ==
    /\ worker[w].pc \in {"mark", "finalize"} => HasMethod
    /\ worker[w].pc = "settle" => HasMethod \/ worker[w].settlement.method # NULL

\* What the lookup of the charge's evidence finds.
Seen == getStripeChargePaymentMethodByPaymentIntent

PaymentBrings ==
    /\ Done("invoice_payment") => HasMethod
    /\ \A w \in Workers : worker[w].event = "invoice_payment" =>
          Brings(w) /\ (worker[w].pc = "read_evidence" => Seen)

Holds(w) ==
    /\ worker[w].event = "charge"
    /\ stripe_webhook_events["charge"].status = "PROCESSING"
    /\ stripe_webhook_events["charge"].claim = w

ChargeBrings ==
    /\ Done("charge") => HasMethod
    /\ \A w \in Workers : Holds(w) => Brings(w)

\* The charge leaves its evidence before it looks for the settlement.
Leaves ==
    /\ Done("charge") => stripe_webhook_events["charge"].evidence
    /\ \A w \in Workers :
          Holds(w) /\ worker[w].pc \notin {"idle", "evidence", "failed"} =>
             stripe_webhook_events["charge"].evidence

\* The payment's delivery sees the charge, or the charge's the payment.
OneBrings == PaymentBrings \/ (settlement.payment /\ ChargeBrings)

MethodInv ==
    Monthly => /\ \A w \in Workers : KnowsMethod(w)
               /\ Leaves
               /\ OneBrings

IInv ==
    /\ history \in Histories
    /\ TypeOK
    /\ CheckoutInv
    /\ \A w \in Workers : Knows(w)
    /\ RowsKnow
    /\ OneCompletes
    /\ MethodInv

-----------------------------------------------------------------------------
(* Facts that the steps share.                                             *)

\* What is common to the histories.
LEMMA OfHistory ==
    ASSUME history \in Histories
    PROVE  /\ H.paid \in BOOLEAN
           /\ DOMAIN H.created \subseteq Events
           /\ \A e \in DOMAIN H.created : H.created[e] \in 1..3
           /\ "invoice_payment" \in DOMAIN H.created => Monthly
<1>1. /\ "card" \in DOMAIN HistoryOf /\ "ach" \in DOMAIN HistoryOf
      /\ DOMAIN HistoryOf = {"card", "ach", "bounced", "expired", "monthly", "canceled", "overtaken"}
  BY DEF HistoryOf
<1>2. CASE history = "card"
  <2>1. H = [frequency |-> "ONCE", paid |-> TRUE,
             created |-> [completed |-> 1, charge |-> 1, partial_refund |-> 2, full_refund |-> 3]]
    BY <1>2 DEF H, HistoryOf
  <2> QED BY <2>1 DEF Monthly, Events, CheckoutEvents, RefundEvents, InvoiceEvents
<1>3. CASE history = "ach"
  <2>1. H = [frequency |-> "ONCE", paid |-> FALSE,
             created |-> [completed |-> 1, async_succeeded |-> 1, charge |-> 1, full_refund |-> 2]]
    BY <1>3 DEF H, HistoryOf
  <2> QED BY <2>1 DEF Monthly, Events, CheckoutEvents, RefundEvents, InvoiceEvents
<1>4. CASE history = "bounced"
  <2>1. H = [frequency |-> "ONCE", paid |-> FALSE,
             created |-> [completed |-> 1, async_failed |-> 1]]
    BY <1>4 DEF H, HistoryOf
  <2> QED BY <2>1 DEF Monthly, Events, CheckoutEvents, RefundEvents, InvoiceEvents
<1>5. CASE history = "expired"
  <2>1. H = [frequency |-> "ONCE", paid |-> FALSE, created |-> [expired |-> 1]]
    BY <1>5 DEF H, HistoryOf
  <2> QED BY <2>1 DEF Monthly, Events, CheckoutEvents, RefundEvents, InvoiceEvents
<1>6. CASE history = "monthly"
  <2>1. H = [frequency |-> "MONTHLY", paid |-> TRUE,
             created |-> [completed |-> 1, invoice_paid |-> 1, invoice_payment |-> 1,
                          charge |-> 1, partial_refund |-> 2]]
    BY <1>6 DEF H, HistoryOf
  <2> QED BY <2>1 DEF Monthly, Events, CheckoutEvents, RefundEvents, InvoiceEvents
<1>7. CASE history = "canceled"
  <2>1. H = [frequency |-> "MONTHLY", paid |-> TRUE,
             created |-> [completed |-> 1, invoice_paid |-> 1, invoice_failed |-> 2,
                          deleted |-> 3]]
    BY <1>7 DEF H, HistoryOf
  <2> QED BY <2>1 DEF Monthly, Events, CheckoutEvents, RefundEvents, InvoiceEvents
<1>8. CASE history = "overtaken"
  <2>1. H = [frequency |-> "MONTHLY", paid |-> TRUE,
             created |-> [completed |-> 1, deleted |-> 2, invoice_failed |-> 3]]
    BY <1>8 DEF H, HistoryOf
  <2> QED BY <2>1 DEF Monthly, Events, CheckoutEvents, RefundEvents, InvoiceEvents
<1> QED BY <1>1, <1>2, <1>3, <1>4, <1>5, <1>6, <1>7, <1>8, HistoriesAreKnown

\* The times at which the rows may stand.
LEMMA OfTimes ==
    ASSUME history \in Histories, NEW e \in DOMAIN H.created
    PROVE  /\ EventAt(e) \in (1..3) \X (1..4)
           /\ SubscriptionAt(e) \in (1..3) \X (1..3)
           /\ Pays(e) => e \in CheckoutEvents
<1>1. H.created[e] \in 1..3 /\ H.paid \in BOOLEAN
  BY OfHistory
<1>2. EventAt(e)[2] \in 1..4 /\ EventAt(e)[1] = H.created[e]
  <2>1. CASE Pays(e)
    BY <2>1 DEF EventAt, Pays
  <2>2. CASE ~Pays(e)
    BY <2>2 DEF EventAt
  <2> QED BY <2>1, <2>2
<1>3. EventAt(e) \in (1..3) \X (1..4)
  BY <1>1, <1>2 DEF EventAt
<1> QED BY <1>1, <1>3 DEF SubscriptionAt, Pays, CheckoutEvents

\* Newer is a strict order in which what is not newer than the older of two is
\* not newer than the other.
LEMMA Order ==
    ASSUME NEW a \in Nat \X Nat, NEW b \in Nat \X Nat, NEW c \in Nat \X Nat
    PROVE  /\ ~Newer(a, a)
           /\ ~Newer(c, b) /\ Newer(a, b) => ~Newer(c, a)
BY DEF Newer

Subscribes == {"completed", "async_succeeded", "invoice_paid", "invoice_failed", "deleted"}

LEMMA SubscriptionTypes ==
    ASSUME history \in Histories, NEW e \in DOMAIN H.created, e \in Subscribes,
           NEW row \in CheckoutRow
    PROVE  /\ SubscriptionOf(e) \in {"ACTIVE", "PAST_DUE", "CANCELED"}
           /\ MoveSubscription(row, e) \in CheckoutRow
           /\ updateStripeSubscriptionStatus(row, e) \in CheckoutRow
<1>1. SubscriptionOf(e) \in {"ACTIVE", "PAST_DUE", "CANCELED"}
  BY DEF Subscribes, SubscriptionOf
<1>2. SubscriptionAt(e) \in (0..3) \X (0..3)
  BY OfTimes
<1>3. [row EXCEPT !.subscription = SubscriptionOf(e), !.sub_at = SubscriptionAt(e)] \in CheckoutRow
  BY <1>1, <1>2 DEF CheckoutRow
<1> QED BY <1>1, <1>3 DEF MoveSubscription, updateStripeSubscriptionStatus

\* The parts of the row that the event of a checkout session writes.
LEMMA CheckoutWrites ==
    ASSUME history \in Histories, checkout \in CheckoutRow, NEW e \in CheckoutEvents,
           e \in DOMAIN H.created
    PROVE  LET row == updateStripeCheckoutFromEvent(checkout, e)
               paid == checkout.payment = "PAID" \/ Pays(e)
               newer == Newer(EventAt(e), checkout.at)
               moves == Monthly /\ Pays(e) /\ checkout.subscription # "CANCELED"
                          /\ Newer(SubscriptionAt(e), checkout.sub_at) IN
           /\ row \in CheckoutRow
           /\ row.status = IF paid THEN "COMPLETE" ELSE IF newer THEN StatusOf(e) ELSE checkout.status
           /\ row.payment = IF paid THEN "PAID" ELSE checkout.payment
           /\ row.at = IF newer THEN EventAt(e) ELSE checkout.at
           /\ row.method = checkout.method
           /\ row.subscription = IF moves THEN SubscriptionOf(e) ELSE checkout.subscription
           /\ row.sub_at = IF moves THEN SubscriptionAt(e) ELSE checkout.sub_at
<1> DEFINE paid == checkout.payment = "PAID" \/ Pays(e)
           newer == Newer(EventAt(e), checkout.at)
<1>1. PICK status : status = CASE paid -> "COMPLETE"
                               [] ~paid /\ newer -> StatusOf(e)
                               [] OTHER -> checkout.status
  OBVIOUS
<1>2. status = IF paid THEN "COMPLETE" ELSE IF newer THEN StatusOf(e) ELSE checkout.status
  <2>1. CASE paid
    BY <1>1, <2>1
  <2>2. CASE ~paid /\ newer
    BY <1>1, <2>2
  <2>3. CASE ~paid /\ ~newer
    BY <1>1, <2>3
  <2> QED BY <2>1, <2>2, <2>3
<1>3. StatusOf(e) \in {"EXPIRED", "FAILED", "COMPLETE"}
  BY DEF StatusOf
<1>4. EventAt(e) \in (0..3) \X (0..4)
  BY OfTimes
<1>5. PICK moved : moved = [checkout EXCEPT !.status = status,
                               !.payment = IF paid THEN "PAID" ELSE @,
                               !.at = IF newer THEN EventAt(e) ELSE @,
                               !.linked = @ \/ Monthly]
  OBVIOUS
<1>6. Monthly \in BOOLEAN
  BY DEF Monthly
<1>7. moved \in CheckoutRow
  BY <1>2, <1>3, <1>4, <1>5, <1>6 DEF CheckoutRow
<1>8. /\ moved.status = status
      /\ moved.payment = IF paid THEN "PAID" ELSE checkout.payment
      /\ moved.at = IF newer THEN EventAt(e) ELSE checkout.at
      /\ moved.method = checkout.method
      /\ moved.subscription = checkout.subscription
      /\ moved.sub_at = checkout.sub_at
  BY <1>5 DEF CheckoutRow
<1>9. updateStripeCheckoutFromEvent(checkout, e) =
         IF Monthly /\ Pays(e) THEN MoveSubscription(moved, e) ELSE moved
  BY <1>1, <1>5 DEF updateStripeCheckoutFromEvent
<1>10. CASE Monthly /\ Pays(e)
  <2>1. e \in Subscribes
    BY <1>10 DEF Pays, Subscribes
  <2>2. MoveSubscription(moved, e) \in CheckoutRow
    BY <1>7, <2>1, SubscriptionTypes
  <2> QED BY <1>2, <1>7, <1>8, <1>9, <1>10, <2>2 DEF MoveSubscription, CheckoutRow
<1>11. CASE ~(Monthly /\ Pays(e))
  BY <1>2, <1>7, <1>8, <1>9, <1>11
<1> QED BY <1>10, <1>11

LEMMA InvoiceWrites ==
    ASSUME history \in Histories, checkout \in CheckoutRow, NEW e \in InvoiceEvents,
           e \in DOMAIN H.created
    PROVE  LET row == updateStripeCheckoutFromInvoice(checkout, e)
               paid == e = "invoice_paid"
               moves == checkout.subscription # "CANCELED"
                          /\ Newer(SubscriptionAt(e), checkout.sub_at) IN
           /\ row \in CheckoutRow
           /\ row.status = IF paid THEN "COMPLETE" ELSE checkout.status
           /\ row.payment = IF paid THEN "PAID" ELSE checkout.payment
           /\ row.at = checkout.at
           /\ row.subscription = IF moves THEN SubscriptionOf(e) ELSE checkout.subscription
           /\ row.sub_at = IF moves THEN SubscriptionAt(e) ELSE checkout.sub_at
<1> DEFINE paid == e = "invoice_paid"
<1>1. PICK moved : moved = [checkout EXCEPT !.status = IF paid THEN "COMPLETE" ELSE @,
                                            !.payment = IF paid THEN "PAID" ELSE @,
                                            !.linked = TRUE]
  OBVIOUS
<1>2. /\ moved \in CheckoutRow
      /\ moved.status = IF paid THEN "COMPLETE" ELSE checkout.status
      /\ moved.payment = IF paid THEN "PAID" ELSE checkout.payment
      /\ moved.at = checkout.at
      /\ moved.subscription = checkout.subscription
      /\ moved.sub_at = checkout.sub_at
  BY <1>1 DEF CheckoutRow
<1>3. updateStripeCheckoutFromInvoice(checkout, e) = MoveSubscription(moved, e)
  BY <1>1 DEF updateStripeCheckoutFromInvoice
<1>4. e \in Subscribes
  BY DEF Subscribes, InvoiceEvents
<1>5. MoveSubscription(moved, e) \in CheckoutRow
  BY <1>2, <1>4, SubscriptionTypes
<1> QED BY <1>2, <1>3, <1>5 DEF MoveSubscription, CheckoutRow

-----------------------------------------------------------------------------
(* How the tables and the deliveries move.                                 *)

PCs == {"idle", "checkout", "gift", "invoice", "stage_paid", "settle", "mark", "delete",
        "stage_payment", "read_evidence", "evidence", "checkout_method",
        "settlement_method", "gift_method", "refund", "finalize", "failed"}

\* The delivery w goes to pc with the copy s.
Goes(w, pc, s) ==
    /\ worker' \in [Workers -> Worker]
    /\ worker'[w].pc = pc /\ worker'[w].event = worker[w].event /\ worker'[w].settlement = s
    /\ \A v \in Workers \ {w} : worker'[v] = worker[v]

LEMMA GotoGoes ==
    ASSUME worker \in [Workers -> Worker], NEW w \in Workers, NEW pc \in PCs, Goto(w, pc)
    PROVE  Goes(w, pc, worker[w].settlement)
<1>1. worker[w] \in Worker /\ [worker[w] EXCEPT !.pc = pc] \in Worker
  BY DEF Worker, PCs
<1> QED BY <1>1 DEF Goto, Goes, Worker

LEMMA CopyGoes ==
    ASSUME worker \in [Workers -> Worker], NEW w \in Workers, NEW pc \in PCs,
           NEW s \in SettlementRow,
           worker' = [worker EXCEPT ![w].pc = pc, ![w].settlement = s]
    PROVE  Goes(w, pc, s)
<1>1. worker[w] \in Worker /\ [worker[w] EXCEPT !.pc = pc, !.settlement = s] \in Worker
  BY DEF Worker, PCs
<1> QED BY <1>1 DEF Goes, Worker

LEMMA SettleGoes ==
    ASSUME worker \in [Workers -> Worker], NEW w \in Workers, NEW s \in SettlementRow,
           Settle(w, s)
    PROVE  IF Ready(s) THEN Goes(w, "settle", s) ELSE Goes(w, "finalize", NoSettlement)
<1>1. NoSettlement \in SettlementRow
  BY DEF NoSettlement, SettlementRow
<1>2. CASE Ready(s)
  <2>1. worker' = [worker EXCEPT ![w].pc = "settle", ![w].settlement = s]
    BY <1>2 DEF Settle
  <2> QED BY <1>2, <2>1, CopyGoes DEF PCs
<1>3. CASE ~Ready(s)
  <2>1. worker' = [worker EXCEPT ![w].pc = "finalize", ![w].settlement = NoSettlement]
    BY <1>3 DEF Settle
  <2> QED BY <1>1, <1>3, <2>1, CopyGoes DEF PCs
<1> QED BY <1>2, <1>3

\* The delivery w is over, or answers.
Rests(w) ==
    /\ worker' \in [Workers -> Worker]
    /\ worker'[w] = IdleWorker
    /\ \A v \in Workers \ {w} : worker'[v] = worker[v]

LEMMA RestGoes ==
    ASSUME worker \in [Workers -> Worker], NEW w \in Workers,
           worker' = [worker EXCEPT ![w] = IdleWorker]
    PROVE  Rests(w)
<1>1. IdleWorker \in Worker
  BY DEF IdleWorker, Worker, NoSettlement, SettlementRow
<1> QED BY <1>1 DEF Rests

LEMMA SettlementTypes ==
    ASSUME NEW row \in SettlementRow
    PROVE  /\ stageStripeInvoicePaid(row) \in SettlementRow
           /\ stageStripeInvoicePayment(row) \in SettlementRow
           /\ [row EXCEPT !.status = "RECORDED"] \in SettlementRow
           /\ \A e \in Events : recordMethod(row, e) \in SettlementRow
BY DEF SettlementRow, stageStripeInvoicePaid, stageStripeInvoicePayment, recordMethod

LEMMA GiftTypes ==
    ASSUME NEW row \in GiftRow
    PROVE  /\ \A m \in Events \cup {NULL} : recordStripeGiftAndAcknowledgment(row, m) \in GiftRow
           /\ \A e \in Events : recordMethod(row, e) \in GiftRow
           /\ \A e \in RefundEvents : applyStripeRefund(row, e) \in GiftRow
<1>1. \A m \in Events \cup {NULL} : recordStripeGiftAndAcknowledgment(row, m) \in GiftRow
  <2> SUFFICES ASSUME NEW m \in Events \cup {NULL}
               PROVE  recordStripeGiftAndAcknowledgment(row, m) \in GiftRow
    OBVIOUS
  <2>1. NoGift \in GiftRow
    BY DEF NoGift, GiftRow, Amount
  <2>2. [NoGift EXCEPT !.made = TRUE, !.method = m] \in GiftRow
    BY <2>1 DEF GiftRow
  <2> QED BY <2>1, <2>2 DEF recordStripeGiftAndAcknowledgment
<1>2. \A e \in Events : recordMethod(row, e) \in GiftRow
  BY DEF GiftRow, recordMethod
<1>3. \A e \in RefundEvents : RefundedBy(e) \in 0..Amount
  BY DEF RefundedBy, Amount
<1>4. \A e \in RefundEvents : applyStripeRefund(row, e) \in GiftRow
  BY <1>3 DEF GiftRow, applyStripeRefund
<1> QED BY <1>1, <1>2, <1>4

\* The knowledge that each step starts from, and the types of what it reads.
LEMMA Known ==
    ASSUME IInv, NEW w \in Workers
    PROVE  /\ history \in Histories
           /\ checkout \in CheckoutRow /\ settlement \in SettlementRow /\ gift \in GiftRow
           /\ stripe_webhook_events \in [Events -> EventRow]
           /\ worker \in [Workers -> Worker]
           /\ worker[w] \in Worker /\ worker[w].settlement \in SettlementRow
           /\ worker[w].pc \in PCs
           /\ Knows(w)
           /\ applied \subseteq DOMAIN H.created
           /\ worker[w].pc # "idle" => /\ worker[w].event \in Events
                                       /\ worker[w].event \in DOMAIN H.created
BY OfHistory DEF IInv, TypeOK, Knows, CheckoutInv, Worker, PCs

LEMMA EventTypes ==
    ASSUME IInv, NEW e \in Events, NEW row \in EventRow,
           SetEvent(e, row) \/ UNCHANGED stripe_webhook_events
    PROVE  stripe_webhook_events' \in [Events -> EventRow]
BY DEF IInv, TypeOK, SetEvent

LEMMA TypeStep == IInv /\ [Next]_vars => TypeOK'
<1> SUFFICES ASSUME IInv, [Next]_vars PROVE TypeOK'
  OBVIOUS
<1> USE DEF TypeOK
<1>1. TypeOK
  BY DEF IInv
<1>2. ASSUME NEW w \in Workers, NEW e \in Events, Deliver(w, e) PROVE TypeOK'
  <2>1. FirstStep(e) \in PCs
    BY DEF FirstStep, PCs, Events, RefundEvents, CheckoutEvents, InvoiceEvents
  <2>2. [IdleWorker EXCEPT !.pc = FirstStep(e), !.event = e] \in Worker
    BY <2>1 DEF IdleWorker, Worker, PCs, NoSettlement, SettlementRow
  <2>3. claimStripeWebhookEvent(stripe_webhook_events[e], w) \in EventRow
    BY <1>1 DEF claimStripeWebhookEvent, EventRow
  <2>4. stripe_webhook_events' \in [Events -> EventRow]
    BY <1>2, <2>3, EventTypes DEF Deliver
  <2> QED BY <1>1, <1>2, <2>2, <2>4 DEF Deliver
<1>3. ASSUME NEW w \in Workers, Checkout(w) PROVE TypeOK'
  <2>1. /\ At(w, "checkout") /\ Ev(w) \in CheckoutEvents
        /\ Ev(w) \in Events /\ Ev(w) \in DOMAIN H.created
    BY <1>3, Known DEF Checkout, At, Ev, Knows, EventsAt
  <2>2. checkout' = updateStripeCheckoutFromEvent(checkout, Ev(w)) /\ checkout' \in CheckoutRow
    BY <1>3, <2>1, Known, CheckoutWrites DEF Checkout
  <2>3. checkout'.method \in Events \cup {NULL}
    BY <2>2 DEF CheckoutRow
  <2>4. PICK pc : pc = IF ~Monthly /\ Pays(Ev(w)) THEN "gift" ELSE "finalize"
    OBVIOUS
  <2>5. worker' = [worker EXCEPT ![w].pc = pc, ![w].method = checkout'.method]
    BY <1>3, <2>2, <2>4 DEF Checkout
  <2>6. worker' \in [Workers -> Worker]
    <3>1. pc \in PCs /\ worker[w] \in Worker
      BY <1>1, <2>4 DEF PCs
    <3>2. [worker[w] EXCEPT !.pc = pc, !.method = checkout'.method] \in Worker
      BY <2>3, <3>1 DEF Worker, PCs
    <3> QED BY <1>1, <2>5, <3>2
  <2> QED BY <1>1, <1>3, <2>1, <2>2, <2>6 DEF Checkout
<1>4. ASSUME NEW w \in Workers, Gift(w) PROVE TypeOK'
  <2>1. worker[w].method \in Events \cup {NULL}
    BY Known DEF Worker
  <2>2. gift' \in GiftRow
    BY <1>1, <1>4, <2>1, GiftTypes DEF Gift
  <2>3. worker' \in [Workers -> Worker]
    BY <1>1, <1>4, GotoGoes DEF Gift, Goes, PCs
  <2> QED BY <1>1, <1>4, <2>2, <2>3 DEF Gift
<1>5. ASSUME NEW w \in Workers, Invoice(w) PROVE TypeOK'
  <2>1. /\ At(w, "invoice") /\ Ev(w) \in InvoiceEvents
        /\ Ev(w) \in Events /\ Ev(w) \in DOMAIN H.created
    BY <1>5, Known DEF Invoice, At, Ev, Knows, EventsAt
  <2>2. checkout' \in CheckoutRow
    BY <1>5, <2>1, Known, InvoiceWrites DEF Invoice
  <2>3. worker' \in [Workers -> Worker]
    BY <1>1, <1>5, GotoGoes DEF Invoice, Goes, PCs
  <2> QED BY <1>1, <1>5, <2>1, <2>2, <2>3 DEF Invoice
<1>6. ASSUME NEW w \in Workers, StagePaid(w) PROVE TypeOK'
  <2>1. settlement' \in SettlementRow /\ Settle(w, settlement')
    BY <1>1, <1>6, SettlementTypes DEF StagePaid
  <2>2. worker' \in [Workers -> Worker]
    BY <1>1, <2>1, SettleGoes DEF Goes
  <2> QED BY <1>1, <1>6, <2>1, <2>2 DEF StagePaid
<1>7. ASSUME NEW w \in Workers, RecordSettlement(w) PROVE TypeOK'
  <2>1. worker[w].settlement.method \in Events \cup {NULL}
    BY Known DEF SettlementRow
  <2>2. gift' \in GiftRow
    BY <1>1, <1>7, <2>1, GiftTypes DEF RecordSettlement
  <2>3. worker' \in [Workers -> Worker]
    BY <1>1, <1>7, GotoGoes DEF RecordSettlement, Goes, PCs
  <2> QED BY <1>1, <1>7, <2>2, <2>3 DEF RecordSettlement
<1>8. ASSUME NEW w \in Workers, Mark(w) PROVE TypeOK'
  <2>1. settlement' \in SettlementRow
    BY <1>1, <1>8, SettlementTypes DEF Mark
  <2>2. NoSettlement \in SettlementRow
    BY DEF NoSettlement, SettlementRow
  <2>3. worker' \in [Workers -> Worker]
    BY <1>1, <1>8, <2>2, CopyGoes DEF Mark, Goes, PCs
  <2> QED BY <1>1, <1>8, <2>1, <2>3 DEF Mark
<1>9. ASSUME NEW w \in Workers, StagePayment(w) PROVE TypeOK'
  <2>1. settlement' \in SettlementRow
    BY <1>1, <1>9, SettlementTypes DEF StagePayment
  <2>2. worker' = [worker EXCEPT ![w].pc = "read_evidence", ![w].settlement = settlement']
    BY <1>9 DEF StagePayment
  <2>3. worker' \in [Workers -> Worker]
    BY <1>1, <2>1, <2>2, CopyGoes DEF Goes, PCs
  <2> QED BY <1>1, <1>9, <2>1, <2>3 DEF StagePayment
<1>10. ASSUME NEW w \in Workers, ReadEvidence(w) PROVE TypeOK'
  <2>1. worker' \in [Workers -> Worker]
    <3>1. CASE getStripeChargePaymentMethodByPaymentIntent
      BY <1>1, <1>10, <3>1, GotoGoes DEF ReadEvidence, Goes, PCs
    <3>2. CASE ~getStripeChargePaymentMethodByPaymentIntent
      BY <1>1, <1>10, <3>2, Known, SettleGoes DEF ReadEvidence, Goes
    <3> QED BY <3>1, <3>2
  <2> QED BY <1>1, <1>10, <2>1 DEF ReadEvidence
<1>11. ASSUME NEW w \in Workers, Evidence(w) PROVE TypeOK'
  <2>1. Ev(w) \in Events
    BY <1>11, Known DEF Evidence, At, Ev
  <2>2. [stripe_webhook_events[Ev(w)] EXCEPT !.evidence = TRUE] \in EventRow
    BY <1>1, <2>1 DEF EventRow
  <2>3. stripe_webhook_events' \in [Events -> EventRow]
    BY <1>1, <1>11, <2>1, <2>2, EventTypes DEF Evidence
  <2>4. PICK pc \in PCs : Goto(w, pc)
    BY <1>11 DEF Evidence, PCs
  <2>5. worker' \in [Workers -> Worker]
    BY <1>1, <2>4, GotoGoes DEF Goes
  <2> QED BY <1>1, <1>11, <2>3, <2>5 DEF Evidence
<1>12. ASSUME NEW w \in Workers, CheckoutMethod(w) PROVE TypeOK'
  <2>1. Ev(w) \in Events
    BY <1>12, Known DEF CheckoutMethod, At, Ev
  <2>2. checkout' \in CheckoutRow
    BY <1>1, <1>12, <2>1 DEF CheckoutMethod, CheckoutRow
  <2>3. PICK pc \in PCs : Goto(w, pc)
    BY <1>12 DEF CheckoutMethod, PCs
  <2>4. worker' \in [Workers -> Worker]
    BY <1>1, <2>3, GotoGoes DEF Goes
  <2> QED BY <1>1, <1>12, <2>2, <2>4 DEF CheckoutMethod
<1>13. ASSUME NEW w \in Workers, SettlementMethod(w) PROVE TypeOK'
  <2>1. MethodEvent(w) \in Events
    BY <1>13, Known DEF SettlementMethod, At, Ev, MethodEvent, Events
  <2>2. recordMethod(settlement, MethodEvent(w)) \in SettlementRow
    BY <1>1, <2>1, SettlementTypes
  <2>3. settlement' \in SettlementRow
    BY <1>1, <1>13, <2>2 DEF SettlementMethod
  <2>4. worker' \in [Workers -> Worker]
    BY <1>1, <1>13, <2>2, CopyGoes, GotoGoes DEF SettlementMethod, Goes, PCs
  <2> QED BY <1>1, <1>13, <2>3, <2>4 DEF SettlementMethod
<1>14. ASSUME NEW w \in Workers, GiftMethod(w) PROVE TypeOK'
  <2>1. MethodEvent(w) \in Events
    BY <1>14, Known DEF GiftMethod, At, Ev, MethodEvent, Events
  <2>2. recordMethod(gift, MethodEvent(w)) \in GiftRow
    BY <1>1, <2>1, GiftTypes
  <2>3. gift' \in GiftRow
    BY <1>1, <1>14, <2>2 DEF GiftMethod
  <2>4. worker' \in [Workers -> Worker]
    <3>1. CASE Settle(w, worker[w].settlement)
      BY <1>1, <3>1, Known, SettleGoes DEF Goes
    <3>2. CASE worker' = [worker EXCEPT ![w].pc = "finalize", ![w].settlement = NoSettlement]
      <4>1. NoSettlement \in SettlementRow
        BY DEF NoSettlement, SettlementRow
      <4> QED BY <1>1, <3>2, <4>1, CopyGoes DEF Goes, PCs
    <3> QED BY <1>14, <3>1, <3>2 DEF GiftMethod
  <2> QED BY <1>1, <1>14, <2>3, <2>4 DEF GiftMethod
<1>15. ASSUME NEW w \in Workers, Refund(w) PROVE TypeOK'
  <2>1. Ev(w) \in RefundEvents
    BY <1>15, Known DEF Refund, At, Ev, Knows, EventsAt
  <2>2. gift' \in GiftRow
    BY <1>1, <1>15, <2>1, GiftTypes DEF Refund
  <2>3. PICK pc \in PCs : Goto(w, pc)
    BY <1>15 DEF Refund, PCs
  <2>4. worker' \in [Workers -> Worker]
    BY <1>1, <2>3, GotoGoes DEF Goes
  <2> QED BY <1>1, <1>15, <2>2, <2>4 DEF Refund
<1>16. ASSUME NEW w \in Workers, Delete(w) PROVE TypeOK'
  <2>1. Ev(w) = "deleted" /\ Ev(w) \in DOMAIN H.created /\ Ev(w) \in Events
    BY <1>16, Known DEF Delete, At, Ev, Knows, EventsAt
  <2>2. updateStripeSubscriptionStatus(checkout, Ev(w)) \in CheckoutRow
    BY <1>1, <2>1, Known, SubscriptionTypes DEF Subscribes
  <2>3. PICK pc \in PCs : Goto(w, pc)
    BY <1>16 DEF Delete, PCs
  <2>4. worker' \in [Workers -> Worker]
    BY <1>1, <2>3, GotoGoes DEF Goes
  <2> QED BY <1>1, <1>16, <2>1, <2>2, <2>4 DEF Delete
<1>17. ASSUME NEW w \in Workers, Finalize(w) PROVE TypeOK'
  <2>1. Ev(w) \in Events
    BY <1>17, Known DEF Finalize, Ev
  <2>2. PICK outcome \in {"PROCESSED", "FAILED"} :
           \/ SetEvent(Ev(w), finalizeStripeWebhookEvent(stripe_webhook_events[Ev(w)], outcome))
           \/ UNCHANGED stripe_webhook_events
    BY <1>17 DEF Finalize
  <2>3. finalizeStripeWebhookEvent(stripe_webhook_events[Ev(w)], outcome) \in EventRow
    BY <1>1, <2>1 DEF finalizeStripeWebhookEvent, EventRow
  <2>4. stripe_webhook_events' \in [Events -> EventRow]
    BY <2>1, <2>2, <2>3, EventTypes
  <2>5. worker' \in [Workers -> Worker]
    BY <1>1, <1>17, RestGoes DEF Finalize, Rests
  <2> QED BY <1>1, <1>17, <2>4, <2>5 DEF Finalize
<1>18. ASSUME NEW w \in Workers, Throw(w) PROVE TypeOK'
  <2>1. worker' \in [Workers -> Worker]
    BY <1>1, <1>18, GotoGoes DEF Throw, Goes, PCs
  <2> QED BY <1>1, <1>18, <2>1 DEF Throw
<1>19. ASSUME NEW w \in Workers, Crash(w) PROVE TypeOK'
  <2>1. worker' \in [Workers -> Worker]
    BY <1>1, <1>19, RestGoes DEF Crash, Rests
  <2> QED BY <1>1, <1>19, <2>1 DEF Crash
<1>20. ASSUME NEW e \in Events, GoesStale(e) PROVE TypeOK'
  <2>1. [stripe_webhook_events[e] EXCEPT !.stale = TRUE] \in EventRow
    BY <1>1 DEF EventRow
  <2>2. stripe_webhook_events' \in [Events -> EventRow]
    BY <1>20, <2>1, EventTypes DEF GoesStale
  <2> QED BY <1>1, <1>20, <2>2 DEF GoesStale
<1>21. CASE UNCHANGED vars
  BY <1>1, <1>21 DEF vars
<1> QED
  BY <1>2, <1>3, <1>4, <1>5, <1>6, <1>7, <1>8, <1>9, <1>10, <1>11, <1>12, <1>13, <1>14, <1>15,
     <1>16, <1>17, <1>18, <1>19, <1>20, <1>21 DEF Next, Step

-----------------------------------------------------------------------------
(* The checkout row is what its newest events say.                         *)

LEMMA SameHistory ==
    ASSUME UNCHANGED history
    PROVE  /\ H' = H /\ Monthly' = Monthly
           /\ \A e : /\ Pays(e)' = Pays(e) /\ PaidBy(e)' = PaidBy(e)
                     /\ EventAt(e)' = EventAt(e)
                     /\ SubscriptionAt(e)' = SubscriptionAt(e)
           /\ SubscriptionEvents' = SubscriptionEvents
<1>1. H' = H
  BY DEF H
<1>2. Monthly' = Monthly
  BY <1>1 DEF Monthly
<1>3. \A e : Pays(e)' = Pays(e)
  BY <1>1 DEF Pays
<1>4. \A e : PaidBy(e)' = PaidBy(e)
  BY <1>3 DEF PaidBy
<1>5. \A e : EventAt(e)' = EventAt(e)
  BY <1>1, <1>3 DEF EventAt
<1>6. \A e : SubscriptionAt(e)' = SubscriptionAt(e)
  BY <1>1 DEF SubscriptionAt
<1>7. SubscriptionEvents' = SubscriptionEvents
  BY <1>2, <1>3 DEF SubscriptionEvents
<1> QED BY <1>1, <1>2, <1>3, <1>4, <1>5, <1>6, <1>7

\* A set of events gets one more: which is the newest then.
LEMMA OneMoreEvent ==
    ASSUME history \in Histories, NEW S \in SUBSET (DOMAIN H.created), NEW e \in DOMAIN H.created
    PROVE  /\ S = {} => e \in NewestOf(S \cup {e}, EventAt)
           /\ \A n \in NewestOf(S, EventAt) :
                 IF Newer(EventAt(e), EventAt(n)) THEN e \in NewestOf(S \cup {e}, EventAt)
                                                  ELSE n \in NewestOf(S \cup {e}, EventAt)
<1>1. \A d \in DOMAIN H.created : EventAt(d) \in Nat \X Nat
  BY OfTimes
<1>2. S = {} => e \in NewestOf(S \cup {e}, EventAt)
  BY <1>1, Order DEF NewestOf
<1>3. ASSUME NEW n \in NewestOf(S, EventAt)
      PROVE  IF Newer(EventAt(e), EventAt(n)) THEN e \in NewestOf(S \cup {e}, EventAt)
                                              ELSE n \in NewestOf(S \cup {e}, EventAt)
  <2>1. n \in S /\ \A d \in S : ~Newer(EventAt(d), EventAt(n))
    BY DEF NewestOf
  <2>2. CASE Newer(EventAt(e), EventAt(n))
    <3>1. \A d \in S : ~Newer(EventAt(d), EventAt(e))
      BY <1>1, <2>1, <2>2, Order
    <3>2. ~Newer(EventAt(e), EventAt(e))
      BY <1>1, Order
    <3> QED BY <2>2, <3>1, <3>2 DEF NewestOf
  <2>3. CASE ~Newer(EventAt(e), EventAt(n))
    BY <2>1, <2>3 DEF NewestOf
  <2> QED BY <2>2, <2>3
<1> QED BY <1>2, <1>3

LEMMA OneMoreSubscription ==
    ASSUME history \in Histories, NEW S \in SUBSET (DOMAIN H.created), NEW e \in DOMAIN H.created
    PROVE  /\ S = {} => e \in NewestOf(S \cup {e}, SubscriptionAt)
           /\ \A n \in NewestOf(S, SubscriptionAt) :
                 IF Newer(SubscriptionAt(e), SubscriptionAt(n))
                 THEN e \in NewestOf(S \cup {e}, SubscriptionAt)
                 ELSE n \in NewestOf(S \cup {e}, SubscriptionAt)
<1>1. \A d \in DOMAIN H.created : SubscriptionAt(d) \in Nat \X Nat
  BY OfTimes
<1>2. S = {} => e \in NewestOf(S \cup {e}, SubscriptionAt)
  BY <1>1, Order DEF NewestOf
<1>3. ASSUME NEW n \in NewestOf(S, SubscriptionAt)
      PROVE  IF Newer(SubscriptionAt(e), SubscriptionAt(n))
             THEN e \in NewestOf(S \cup {e}, SubscriptionAt)
             ELSE n \in NewestOf(S \cup {e}, SubscriptionAt)
  <2>1. n \in S /\ \A d \in S : ~Newer(SubscriptionAt(d), SubscriptionAt(n))
    BY DEF NewestOf
  <2>2. CASE Newer(SubscriptionAt(e), SubscriptionAt(n))
    <3>1. \A d \in S : ~Newer(SubscriptionAt(d), SubscriptionAt(e))
      BY <1>1, <2>1, <2>2, Order
    <3>2. ~Newer(SubscriptionAt(e), SubscriptionAt(e))
      BY <1>1, Order
    <3> QED BY <2>2, <3>1, <3>2 DEF NewestOf
  <2>3. CASE ~Newer(SubscriptionAt(e), SubscriptionAt(n))
    BY <2>1, <2>3 DEF NewestOf
  <2> QED BY <2>2, <2>3
<1> QED BY <1>2, <1>3

LEMMA NextNewest ==
    ASSUME UNCHANGED history
    PROVE  LET S == applied \cap CheckoutEvents IN
           CheckoutNewest' = IF S' = {} THEN checkout'.at = <<0, 0>>
              ELSE \E f \in NewestOf(S', EventAt) :
                      /\ checkout'.at = EventAt(f)
                      /\ checkout'.payment = "UNPAID" => checkout'.status = StatusOf(f)
<1>1. \A e : EventAt(e)' = EventAt(e)
  BY SameHistory
<1> QED BY <1>1 DEF CheckoutNewest, NewestOf

\* An event of a checkout session or of nothing that the row of it is about.
LEMMA CheckoutNewestStep ==
    ASSUME IInv, UNCHANGED history, NEW e \in DOMAIN H.created,
           applied' = applied \cup {e},
           IF e \in CheckoutEvents
           THEN /\ checkout'.at = IF Newer(EventAt(e), checkout.at) THEN EventAt(e) ELSE checkout.at
                /\ checkout'.payment = "UNPAID" =>
                      /\ checkout.payment = "UNPAID"
                      /\ checkout'.status = IF Newer(EventAt(e), checkout.at)
                                            THEN StatusOf(e) ELSE checkout.status
           ELSE /\ checkout'.at = checkout.at
                /\ checkout'.payment = "UNPAID" =>
                      checkout.payment = "UNPAID" /\ checkout'.status = checkout.status
    PROVE  CheckoutNewest'
<1> DEFINE S == applied \cap CheckoutEvents
<1>1. history \in Histories /\ S \in SUBSET (DOMAIN H.created)
  BY DEF IInv, CheckoutInv
<1>2. CheckoutNewest
  BY DEF IInv, CheckoutInv
<1>3. CheckoutNewest' = IF S' = {} THEN checkout'.at = <<0, 0>>
        ELSE \E f \in NewestOf(S', EventAt) :
                /\ checkout'.at = EventAt(f)
                /\ checkout'.payment = "UNPAID" => checkout'.status = StatusOf(f)
  BY NextNewest
<1>4. CASE e \notin CheckoutEvents
  <2>1. S' = S
    BY <1>4
  <2>2. CASE S = {}
    BY <1>2, <1>3, <1>4, <2>1, <2>2 DEF CheckoutNewest
  <2>3. CASE S # {}
    <3>1. PICK f \in NewestOf(S, EventAt) :
             /\ checkout.at = EventAt(f)
             /\ checkout.payment = "UNPAID" => checkout.status = StatusOf(f)
      BY <1>2, <2>3 DEF CheckoutNewest
    <3> QED BY <1>3, <1>4, <2>1, <2>3, <3>1
  <2> QED BY <2>2, <2>3
<1>5. CASE e \in CheckoutEvents
  <2>1. S' = S \cup {e}
    BY <1>5
  <2>2. CASE S = {}
    <3>1. EventAt(e) \in (1..3) \X (1..4) /\ checkout.at = <<0, 0>>
      BY <1>1, <1>2, <2>2, OfTimes DEF CheckoutNewest
    <3>2. Newer(EventAt(e), checkout.at)
      BY <3>1 DEF Newer
    <3>3. e \in NewestOf(S', EventAt)
      BY <1>1, <2>1, <2>2, OneMoreEvent
    <3> QED BY <1>3, <1>5, <2>1, <3>2, <3>3
  <2>3. CASE S # {}
    <3>1. PICK f \in NewestOf(S, EventAt) :
             /\ checkout.at = EventAt(f)
             /\ checkout.payment = "UNPAID" => checkout.status = StatusOf(f)
      BY <1>2, <2>3 DEF CheckoutNewest
    <3>2. IF Newer(EventAt(e), EventAt(f)) THEN e \in NewestOf(S', EventAt)
                                           ELSE f \in NewestOf(S', EventAt)
      BY <1>1, <2>1, OneMoreEvent
    <3> QED BY <1>3, <1>5, <2>1, <3>1, <3>2
  <2> QED BY <2>2, <2>3
<1> QED BY <1>4, <1>5

LEMMA NextSubscription ==
    ASSUME UNCHANGED history
    PROVE  LET S == applied \cap SubscriptionEvents IN
           SubscriptionNewest' =
             /\ checkout'.subscription = "CANCELED" => "deleted" \in applied'
             /\ IF S' = {} THEN checkout'.sub_at = <<0, 0>>
                ELSE checkout'.subscription # "CANCELED" =>
                        \E f \in NewestOf(S', SubscriptionAt) :
                           /\ checkout'.sub_at = SubscriptionAt(f)
                           /\ checkout'.subscription = SubscriptionOf(f)
<1>1. (\A e : SubscriptionAt(e)' = SubscriptionAt(e)) /\ SubscriptionEvents' = SubscriptionEvents
  BY SameHistory
<1> QED BY <1>1 DEF SubscriptionNewest, NewestOf

\* An event that moves the subscription, unless that is canceled.
LEMMA SubscriptionNewestStep ==
    ASSUME IInv, UNCHANGED history, NEW e \in DOMAIN H.created, e \in SubscriptionEvents,
           applied' = applied \cup {e},
           LET moves == /\ checkout.subscription # "CANCELED" \/ e = "deleted"
                        /\ Newer(SubscriptionAt(e), checkout.sub_at) IN
           /\ checkout'.subscription = IF moves THEN SubscriptionOf(e) ELSE checkout.subscription
           /\ checkout'.sub_at = IF moves THEN SubscriptionAt(e) ELSE checkout.sub_at
    PROVE  SubscriptionNewest'
<1> DEFINE S == applied \cap SubscriptionEvents
<1>1. history \in Histories /\ S \in SUBSET (DOMAIN H.created)
  BY DEF IInv, CheckoutInv
<1>2. SubscriptionNewest
  BY DEF IInv, CheckoutInv
<1>3. S' = S \cup {e}
  BY SameHistory
<1>4. SubscriptionOf(e) = "CANCELED" => e = "deleted"
  BY DEF SubscriptionOf, SubscriptionEvents, Pays
<1>5. checkout'.subscription = "CANCELED" => "deleted" \in applied'
  BY <1>2, <1>4 DEF SubscriptionNewest
<1>6. SubscriptionNewest' = /\ checkout'.subscription = "CANCELED" => "deleted" \in applied'
                            /\ IF S' = {} THEN checkout'.sub_at = <<0, 0>>
                               ELSE checkout'.subscription # "CANCELED" =>
                                       \E f \in NewestOf(S', SubscriptionAt) :
                                          /\ checkout'.sub_at = SubscriptionAt(f)
                                          /\ checkout'.subscription = SubscriptionOf(f)
  BY NextSubscription
<1>7. ASSUME checkout'.subscription # "CANCELED"
      PROVE  \E f \in NewestOf(S', SubscriptionAt) :
                checkout'.sub_at = SubscriptionAt(f) /\ checkout'.subscription = SubscriptionOf(f)
  <2>1. SubscriptionOf("deleted") = "CANCELED"
    BY DEF SubscriptionOf
  <2>2. checkout.subscription # "CANCELED"
    BY <1>7, <2>1
  <2>3. CASE S = {}
    <3>1. SubscriptionAt(e) \in (1..3) \X (1..3) /\ checkout.sub_at = <<0, 0>>
      BY <1>1, <1>2, <2>3, OfTimes DEF SubscriptionNewest
    <3>2. Newer(SubscriptionAt(e), checkout.sub_at)
      BY <3>1 DEF Newer
    <3>3. e \in NewestOf(S', SubscriptionAt)
      BY <1>1, <1>3, <2>3, OneMoreSubscription
    <3> QED BY <2>2, <3>2, <3>3
  <2>4. CASE S # {}
    <3>1. PICK f \in NewestOf(S, SubscriptionAt) :
             checkout.sub_at = SubscriptionAt(f) /\ checkout.subscription = SubscriptionOf(f)
      BY <1>2, <2>2, <2>4 DEF SubscriptionNewest
    <3>2. IF Newer(SubscriptionAt(e), SubscriptionAt(f)) THEN e \in NewestOf(S', SubscriptionAt)
                                                         ELSE f \in NewestOf(S', SubscriptionAt)
      BY <1>1, <1>3, OneMoreSubscription
    <3> QED BY <2>2, <3>1, <3>2
  <2> QED BY <2>3, <2>4
<1> QED BY <1>3, <1>5, <1>6, <1>7

LEMMA SubscriptionStays ==
    ASSUME IInv, UNCHANGED history, NEW e, e \notin SubscriptionEvents,
           applied' = applied \cup {e},
           checkout'.subscription = checkout.subscription, checkout'.sub_at = checkout.sub_at
    PROVE  SubscriptionNewest'
<1> DEFINE S == applied \cap SubscriptionEvents
<1>1. SubscriptionNewest
  BY DEF IInv, CheckoutInv
<1>2. S' = S
  BY SameHistory
<1>3. SubscriptionNewest' = /\ checkout'.subscription = "CANCELED" => "deleted" \in applied'
                            /\ IF S' = {} THEN checkout'.sub_at = <<0, 0>>
                               ELSE checkout'.subscription # "CANCELED" =>
                                       \E f \in NewestOf(S', SubscriptionAt) :
                                          /\ checkout'.sub_at = SubscriptionAt(f)
                                          /\ checkout'.subscription = SubscriptionOf(f)
  BY NextSubscription
<1> QED BY <1>1, <1>2, <1>3 DEF SubscriptionNewest

LEMMA CheckoutStays ==
    ASSUME IInv, UNCHANGED <<history, applied>>,
           checkout'.at = checkout.at, checkout'.status = checkout.status,
           checkout'.payment = checkout.payment,
           checkout'.subscription = checkout.subscription, checkout'.sub_at = checkout.sub_at
    PROVE  CheckoutInv'
<1>1. CheckoutInv
  BY DEF IInv
<1>2. CheckoutNewest'
  BY <1>1, NextNewest DEF CheckoutInv, CheckoutNewest
<1>3. SubscriptionNewest'
  <2>1. SubscriptionEvents' = SubscriptionEvents
    BY SameHistory
  <2> QED BY <1>1, <2>1, NextSubscription DEF CheckoutInv, SubscriptionNewest
<1> QED BY <1>1, <1>2, <1>3, SameHistory DEF CheckoutInv

LEMMA CheckoutStep == IInv /\ [Next]_vars => CheckoutInv'
<1> SUFFICES ASSUME IInv, [Next]_vars PROVE CheckoutInv'
  OBVIOUS
<1>1. CheckoutInv /\ checkout \in CheckoutRow
  BY DEF IInv, TypeOK
<1>2. UNCHANGED history
  BY DEF Next, Step, vars, Deliver, Checkout, Gift, Invoice, StagePaid, RecordSettlement, Mark,
         StagePayment, ReadEvidence, Evidence, CheckoutMethod, SettlementMethod, GiftMethod,
         Refund, Delete, Finalize, Throw, Crash, GoesStale
<1>3. ASSUME NEW w \in Workers, Checkout(w) PROVE CheckoutInv'
  <2> DEFINE e == Ev(w)
  <2>1. e \in CheckoutEvents /\ e \in DOMAIN H.created
    BY <1>3, Known DEF Checkout, At, Ev, Knows, EventsAt
  <2>2. checkout' = updateStripeCheckoutFromEvent(checkout, e) /\ applied' = applied \cup {e}
    BY <1>3 DEF Checkout
  <2>3. history \in Histories
    BY DEF IInv
  <2>6. /\ checkout'.status = IF checkout.payment = "PAID" \/ Pays(e) THEN "COMPLETE"
                              ELSE IF Newer(EventAt(e), checkout.at) THEN StatusOf(e)
                              ELSE checkout.status
        /\ checkout'.payment = IF checkout.payment = "PAID" \/ Pays(e) THEN "PAID"
                               ELSE checkout.payment
        /\ checkout'.at = IF Newer(EventAt(e), checkout.at) THEN EventAt(e) ELSE checkout.at
    BY <1>1, <2>1, <2>2, <2>3, CheckoutWrites
  <2>7. LET moves == Monthly /\ Pays(e) /\ checkout.subscription # "CANCELED"
                          /\ Newer(SubscriptionAt(e), checkout.sub_at) IN
        /\ checkout'.subscription = IF moves THEN SubscriptionOf(e) ELSE checkout.subscription
        /\ checkout'.sub_at = IF moves THEN SubscriptionAt(e) ELSE checkout.sub_at
    BY <1>1, <2>1, <2>2, <2>3, CheckoutWrites
  <2>8. checkout.payment \in {"UNPAID", "PAID"}
    BY <1>1 DEF CheckoutRow
  <2>9. CheckoutNewest'
    BY <1>2, <2>1, <2>2, <2>6, <2>8, CheckoutNewestStep
  <2>10. SubscriptionNewest'
    <3>1. CASE Monthly /\ Pays(e)
      <4>1. e \in SubscriptionEvents /\ e # "deleted"
        BY <2>1, <3>1 DEF SubscriptionEvents, Events, Pays
      <4> QED BY <1>2, <2>1, <2>2, <2>7, <3>1, <4>1, SubscriptionNewestStep
    <3>2. CASE ~(Monthly /\ Pays(e))
      <4>1. e \notin SubscriptionEvents
        BY <2>1, <3>2 DEF SubscriptionEvents, CheckoutEvents
      <4> QED BY <1>2, <2>2, <2>7, <3>2, <4>1, SubscriptionStays
    <3> QED BY <3>1, <3>2
  <2>11. PaidBy(e) = Pays(e)
    BY <2>1 DEF PaidBy, CheckoutEvents, Pays
  <2>12. /\ applied' \subseteq DOMAIN H.created
         /\ (checkout'.payment = "PAID") = (\E f \in applied' : PaidBy(f))
         /\ checkout'.payment = "PAID" => checkout'.status = "COMPLETE"
    BY <1>1, <2>1, <2>2, <2>6, <2>8, <2>11 DEF CheckoutInv
  <2> QED BY <1>2, <2>9, <2>10, <2>12, SameHistory DEF CheckoutInv
<1>4. ASSUME NEW w \in Workers, Invoice(w) PROVE CheckoutInv'
  <2> DEFINE e == Ev(w)
  <2>1. e \in InvoiceEvents /\ e \in DOMAIN H.created
    BY <1>4, Known DEF Invoice, At, Ev, Knows, EventsAt
  <2>2. checkout' = updateStripeCheckoutFromInvoice(checkout, e) /\ applied' = applied \cup {e}
    BY <1>4 DEF Invoice
  <2>3. history \in Histories
    BY DEF IInv
  <2>4. /\ checkout'.status = IF e = "invoice_paid" THEN "COMPLETE" ELSE checkout.status
        /\ checkout'.payment = IF e = "invoice_paid" THEN "PAID" ELSE checkout.payment
        /\ checkout'.at = checkout.at
    BY <1>1, <2>1, <2>2, <2>3, InvoiceWrites
  <2>5. LET moves == checkout.subscription # "CANCELED"
                          /\ Newer(SubscriptionAt(e), checkout.sub_at) IN
        /\ checkout'.subscription = IF moves THEN SubscriptionOf(e) ELSE checkout.subscription
        /\ checkout'.sub_at = IF moves THEN SubscriptionAt(e) ELSE checkout.sub_at
    BY <1>1, <2>1, <2>2, <2>3, InvoiceWrites
  <2>6. e \notin CheckoutEvents /\ e \in SubscriptionEvents /\ e # "deleted"
    BY <2>1 DEF InvoiceEvents, CheckoutEvents, SubscriptionEvents, Events
  <2>7. CheckoutNewest'
    BY <1>2, <2>1, <2>2, <2>4, <2>6, CheckoutNewestStep
  <2>8. SubscriptionNewest'
    BY <1>2, <2>1, <2>2, <2>5, <2>6, SubscriptionNewestStep
  <2>9. PaidBy(e) = (e = "invoice_paid")
    BY <2>1 DEF PaidBy, InvoiceEvents, Pays
  <2>10. checkout.payment \in {"UNPAID", "PAID"}
    BY <1>1 DEF CheckoutRow
  <2>11. /\ applied' \subseteq DOMAIN H.created
         /\ (checkout'.payment = "PAID") = (\E f \in applied' : PaidBy(f))
         /\ checkout'.payment = "PAID" => checkout'.status = "COMPLETE"
    BY <1>1, <2>1, <2>2, <2>4, <2>9, <2>10 DEF CheckoutInv
  <2> QED BY <1>2, <2>7, <2>8, <2>11, SameHistory DEF CheckoutInv
<1>5. ASSUME NEW w \in Workers, Delete(w), checkout.linked PROVE CheckoutInv'
  <2>1. Ev(w) = "deleted" /\ "deleted" \in DOMAIN H.created
    BY <1>5, Known DEF Delete, At, Ev, Knows, EventsAt
  <2>2. /\ checkout' = updateStripeSubscriptionStatus(checkout, "deleted")
        /\ applied' = applied \cup {"deleted"}
    BY <1>5, <2>1 DEF Delete
  <2>3. /\ checkout'.status = checkout.status /\ checkout'.payment = checkout.payment
        /\ checkout'.at = checkout.at
        /\ checkout'.subscription = IF Newer(SubscriptionAt("deleted"), checkout.sub_at)
                                    THEN SubscriptionOf("deleted") ELSE checkout.subscription
        /\ checkout'.sub_at = IF Newer(SubscriptionAt("deleted"), checkout.sub_at)
                              THEN SubscriptionAt("deleted") ELSE checkout.sub_at
    BY <1>1, <2>2 DEF updateStripeSubscriptionStatus, CheckoutRow
  <2>4. "deleted" \notin CheckoutEvents /\ "deleted" \in SubscriptionEvents
    BY DEF CheckoutEvents, SubscriptionEvents, Events
  <2>5. CheckoutNewest'
    BY <1>2, <2>1, <2>2, <2>3, <2>4, CheckoutNewestStep
  <2>6. SubscriptionNewest'
    BY <1>2, <2>1, <2>2, <2>3, <2>4, SubscriptionNewestStep
  <2>7. ~PaidBy("deleted")
    BY DEF PaidBy, Pays
  <2>8. /\ applied' \subseteq DOMAIN H.created
        /\ (checkout'.payment = "PAID") = (\E f \in applied' : PaidBy(f))
        /\ checkout'.payment = "PAID" => checkout'.status = "COMPLETE"
    BY <1>1, <2>1, <2>2, <2>3, <2>7 DEF CheckoutInv
  <2> QED BY <1>2, <2>5, <2>6, <2>8, SameHistory DEF CheckoutInv
<1>6. ASSUME NEW w \in Workers, CheckoutMethod(w) PROVE CheckoutInv'
  <2>1. /\ UNCHANGED applied
        /\ checkout' = [checkout EXCEPT !.method = Ev(w)] \/ UNCHANGED checkout
    BY <1>6 DEF CheckoutMethod
  <2>2. /\ checkout'.at = checkout.at /\ checkout'.status = checkout.status
        /\ checkout'.payment = checkout.payment
        /\ checkout'.subscription = checkout.subscription /\ checkout'.sub_at = checkout.sub_at
    BY <1>1, <2>1 DEF CheckoutRow
  <2> QED BY <1>2, <2>1, <2>2, CheckoutStays
<1>7. CASE UNCHANGED <<checkout, applied>>
  BY <1>2, <1>7, CheckoutStays
<1>8. \/ \E w \in Workers : \/ Checkout(w) \/ Invoice(w) \/ CheckoutMethod(w)
                            \/ Delete(w) /\ checkout.linked
      \/ UNCHANGED <<checkout, applied>>
  BY DEF Next, Step, vars, Deliver, Gift, StagePaid, RecordSettlement, Mark,
         StagePayment, ReadEvidence, Evidence, SettlementMethod, GiftMethod,
         Refund, Delete, Finalize, Throw, Crash, GoesStale
<1> QED BY <1>3, <1>4, <1>5, <1>6, <1>7, <1>8

-----------------------------------------------------------------------------
(* The settlement and the gift only grow, and with them what is known.     *)

Grows ==
    /\ UNCHANGED history
    /\ settlement.invoice => settlement'.invoice
    /\ settlement.payment => settlement'.payment
    /\ settlement.status = "RECORDED" => settlement'.status = "RECORDED"
    /\ settlement.method # NULL => settlement'.method # NULL
    /\ gift.made => gift'.made /\ gift'.refunded >= gift.refunded
    /\ gift.method # NULL => gift'.method # NULL

LEMMA SettlementWrites ==
    ASSUME NEW row \in SettlementRow
    PROVE  /\ LET new == stageStripeInvoicePaid(row) IN
              /\ new.status = IF row.status = "NONE" THEN "PENDING" ELSE row.status
              /\ new.invoice /\ new.payment = row.payment /\ new.method = row.method
           /\ LET new == stageStripeInvoicePayment(row) IN
              /\ new.status = IF row.status = "NONE" THEN "PENDING" ELSE row.status
              /\ new.payment /\ new.invoice = row.invoice /\ new.method = row.method
           /\ \A e : LET new == recordMethod(row, e) IN
              /\ new.status = row.status /\ new.invoice = row.invoice
              /\ new.payment = row.payment
              /\ new.method = IF row.method = NULL THEN e ELSE row.method
BY DEF SettlementRow, stageStripeInvoicePaid, stageStripeInvoicePayment, recordMethod

LEMMA GiftWrites ==
    ASSUME NEW row \in GiftRow
    PROVE  /\ \A m : LET new == recordStripeGiftAndAcknowledgment(row, m) IN
              IF row.made THEN new = row ELSE new.made /\ new.method = m /\ new.refunded = 0
           /\ \A e : LET new == recordMethod(row, e) IN
              /\ new.made = row.made /\ new.refunded = row.refunded
              /\ new.method = IF row.method = NULL THEN e ELSE row.method
           /\ \A e \in RefundEvents : LET new == applyStripeRefund(row, e) IN
              /\ new.made = row.made /\ new.method = row.method
              /\ new.refunded >= row.refunded /\ new.refunded >= RefundedBy(e)
<1>1. ASSUME NEW m
      PROVE  LET new == recordStripeGiftAndAcknowledgment(row, m) IN
             IF row.made THEN new = row ELSE new.made /\ new.method = m /\ new.refunded = 0
  BY DEF recordStripeGiftAndAcknowledgment, NoGift
<1>2. ASSUME NEW e
      PROVE  LET new == recordMethod(row, e) IN
             /\ new.made = row.made /\ new.refunded = row.refunded
             /\ new.method = IF row.method = NULL THEN e ELSE row.method
  BY DEF GiftRow, recordMethod
<1>3. ASSUME NEW e \in RefundEvents
      PROVE  LET new == applyStripeRefund(row, e) IN
             /\ new.made = row.made /\ new.method = row.method
             /\ new.refunded >= row.refunded /\ new.refunded >= RefundedBy(e)
  <2>1. RefundedBy(e) \in 0..2 /\ row.refunded \in 0..2
    BY DEF RefundedBy, Amount, GiftRow
  <2> QED BY <2>1 DEF applyStripeRefund, GiftRow
<1> QED BY <1>1, <1>2, <1>3

LEMMA GrowsStep == IInv /\ [Next]_vars => Grows
<1> SUFFICES ASSUME IInv, [Next]_vars PROVE Grows
  OBVIOUS
<1> DEFINE SettlementGrows ==
              /\ settlement.invoice => settlement'.invoice
              /\ settlement.payment => settlement'.payment
              /\ settlement.status = "RECORDED" => settlement'.status = "RECORDED"
              /\ settlement.method # NULL => settlement'.method # NULL
           GiftGrows ==
              /\ gift.made => gift'.made /\ gift'.refunded >= gift.refunded
              /\ gift.method # NULL => gift'.method # NULL
<1>1. settlement \in SettlementRow /\ gift \in GiftRow /\ gift.refunded \in Nat
  BY DEF IInv, TypeOK, GiftRow, Amount
<1>2. UNCHANGED history
  BY DEF Next, Step, vars, Deliver, Checkout, Gift, Invoice, StagePaid, RecordSettlement, Mark,
         StagePayment, ReadEvidence, Evidence, CheckoutMethod, SettlementMethod, GiftMethod,
         Refund, Delete, Finalize, Throw, Crash, GoesStale
<1>3. SettlementGrows
  <2>1. CASE UNCHANGED settlement
    BY <2>1
  <2>2. ASSUME NEW w \in Workers, StagePaid(w) PROVE SettlementGrows
    <3>1. settlement' = stageStripeInvoicePaid(settlement)
      BY <2>2 DEF StagePaid
    <3> QED BY <1>1, <3>1, SettlementWrites
  <2>3. ASSUME NEW w \in Workers, StagePayment(w) PROVE SettlementGrows
    <3>1. settlement' = stageStripeInvoicePayment(settlement)
      BY <2>3 DEF StagePayment
    <3> QED BY <1>1, <3>1, SettlementWrites
  <2>4. ASSUME NEW w \in Workers, Mark(w) PROVE SettlementGrows
    BY <1>1, <2>4 DEF Mark, SettlementRow
  <2>5. ASSUME NEW w \in Workers, SettlementMethod(w) PROVE SettlementGrows
    <3>1. settlement' = recordMethod(settlement, MethodEvent(w)) \/ UNCHANGED settlement
      BY <2>5 DEF SettlementMethod
    <3> QED BY <1>1, <3>1, SettlementWrites
  <2> QED
    BY <2>1, <2>2, <2>3, <2>4, <2>5
    DEF Next, Step, vars, Deliver, Checkout, Gift, Invoice, RecordSettlement, ReadEvidence,
        Evidence, CheckoutMethod, GiftMethod, Refund, Delete, Finalize, Throw, Crash, GoesStale
<1>4. GiftGrows
  <2>1. CASE UNCHANGED gift
    BY <1>1, <2>1
  <2>2. ASSUME NEW m, gift' = recordStripeGiftAndAcknowledgment(gift, m) PROVE GiftGrows
    <3>1. gift.method # NULL => gift.made
      BY DEF IInv, RowsKnow
    <3> QED BY <1>1, <2>2, <3>1, GiftWrites
  <2>3. ASSUME NEW w \in Workers, GiftMethod(w) PROVE GiftGrows
    <3>1. gift' = recordMethod(gift, MethodEvent(w)) \/ UNCHANGED gift
      BY <2>3 DEF GiftMethod
    <3>2. gift' = recordMethod(gift, MethodEvent(w)) =>
             /\ gift'.made = gift.made /\ gift'.refunded = gift.refunded
             /\ gift'.method = IF gift.method = NULL THEN MethodEvent(w) ELSE gift.method
      BY <1>1, GiftWrites
    <3> QED BY <1>1, <2>1, <3>1, <3>2
  <2>4. ASSUME NEW w \in Workers, Refund(w) PROVE GiftGrows
    <3>1. Ev(w) \in RefundEvents
      BY <2>4, Known DEF Refund, At, Ev, Knows, EventsAt
    <3>2. gift' = applyStripeRefund(gift, Ev(w)) \/ UNCHANGED gift
      BY <2>4 DEF Refund
    <3>3. gift' = applyStripeRefund(gift, Ev(w)) =>
             /\ gift'.made = gift.made /\ gift'.refunded >= gift.refunded
             /\ gift'.method = gift.method
      BY <1>1, <3>1, GiftWrites
    <3> QED BY <2>1, <3>2, <3>3
  <2>5. ASSUME NEW w \in Workers, Gift(w) \/ RecordSettlement(w) PROVE GiftGrows
    BY <2>2, <2>5 DEF Gift, RecordSettlement
  <2> QED
    BY <2>1, <2>3, <2>4, <2>5
    DEF Next, Step, vars, Deliver, Checkout, Invoice, StagePaid, Mark, StagePayment, ReadEvidence,
        Evidence, CheckoutMethod, SettlementMethod, Delete, Finalize, Throw, Crash, GoesStale
<1> QED BY <1>2, <1>3, <1>4 DEF Grows

\* What another delivery does takes nothing from what this one knows.
LEMMA Bystander ==
    ASSUME TypeOK, TypeOK', Grows, NEW v \in Workers, Knows(v), worker'[v] = worker[v]
    PROVE  Knows(v)'
<1>1. H' = H /\ Monthly' = Monthly /\ (\A e : Pays(e)' = Pays(e))
  BY SameHistory DEF Grows
<1>2. Behind(worker[v].settlement)'
  BY DEF Grows, Knows, Behind
<1>3. \A e \in RefundEvents :
         gift.made /\ gift.refunded >= RefundedBy(e) => gift'.made /\ gift'.refunded >= RefundedBy(e)
  <2>1. gift.refunded \in Nat /\ gift'.refunded \in Nat
    BY DEF TypeOK, GiftRow, Amount
  <2>2. \A e \in RefundEvents : RefundedBy(e) \in Nat
    BY DEF RefundedBy, Amount
  <2> QED BY <2>1, <2>2 DEF Grows
<1> QED BY <1>1, <1>2, <1>3 DEF Knows, Grows

\* A delivery that is over knows nothing.
LEMMA RestKnows ==
    ASSUME NEW w \in Workers, Rests(w)
    PROVE  Knows(w)'
<1>1. /\ worker'[w].pc = "idle" /\ worker'[w].event = NULL
      /\ worker'[w].settlement = NoSettlement
  BY DEF Rests, IdleWorker
<1>2. ~NoSettlement.invoice /\ ~NoSettlement.payment /\ NoSettlement.status = "NONE"
  BY DEF NoSettlement
<1>3. Behind(worker[w].settlement)'
  BY <1>1, <1>2 DEF Behind
<1>4. NULL \notin RefundEvents /\ NULL \in EventsAt["idle"]
  BY NullIsNoEvent DEF Events, EventsAt
<1> QED BY <1>1, <1>3, <1>4 DEF Knows, Staged

\* What a delivery has to know at its next statement.
LEMMA MoverKnows ==
    ASSUME IInv, Grows, NEW w \in Workers, NEW pc \in PCs, NEW s, Goes(w, pc, s),
           worker[w].pc # "idle", pc # "idle", Ev(w) \in EventsAt[pc],
           s.invoice => settlement'.invoice,
           s.payment => settlement'.payment,
           s.status = "RECORDED" => settlement'.status = "RECORDED",
           pc = "settle" => s.invoice /\ s.payment,
           pc = "mark" => gift'.made,
           pc \in Staged /\ Ev(w) = "invoice_paid" => settlement'.invoice,
           pc \in Staged /\ Ev(w) = "invoice_payment" => settlement'.payment,
           pc \in {"gift", "checkout_method"} => ~Monthly,
           pc = "finalize" /\ Ev(w) \in CheckoutEvents /\ ~Monthly /\ Pays(Ev(w)) => gift'.made,
           Ev(w) \in RefundEvents /\ pc \notin {"refund", "failed"} =>
              gift'.made /\ gift'.refunded >= RefundedBy(Ev(w))
    PROVE  Knows(w)'
<1>1. H' = H /\ Monthly' = Monthly /\ (\A e : Pays(e)' = Pays(e))
  BY SameHistory DEF Grows
<1>2. worker'[w].pc = pc /\ worker'[w].event = Ev(w) /\ worker'[w].settlement = s
  BY DEF Goes, Ev
<1>3. Behind(worker[w].settlement)'
  BY <1>2 DEF Behind
<1>4. Ev(w) \in DOMAIN H.created
  BY Known DEF Ev
<1> QED BY <1>1, <1>2, <1>3, <1>4 DEF Knows

LEMMA FailKnows ==
    ASSUME IInv, Grows, NEW w \in Workers, worker[w].pc # "idle", Goto(w, "failed")
    PROVE  Knows(w)'
<1>1. Goes(w, "failed", worker[w].settlement) /\ "failed" \in PCs
  BY Known, GotoGoes DEF PCs
<1>2. Ev(w) \in EventsAt["failed"]
  BY Known DEF Ev, EventsAt
<1>3. Behind(worker[w].settlement)
  BY Known DEF Knows
<1> QED BY <1>1, <1>2, <1>3, MoverKnows DEF Grows, Behind, Staged

\* The copy goes along, unless it is dropped.
LEMMA CopyBehind ==
    ASSUME IInv, Grows, NEW w \in Workers
    PROVE  LET s == worker[w].settlement IN
           /\ s.invoice => settlement'.invoice
           /\ s.payment => settlement'.payment
           /\ s.status = "RECORDED" => settlement'.status = "RECORDED"
BY Known DEF Knows, Behind, Grows

\* With both halves of the evidence in hand, or done.
LEMMA SettleKnows ==
    ASSUME IInv, Grows, NEW w \in Workers, NEW s \in SettlementRow, Settle(w, s),
           worker[w].pc # "idle", Ev(w) \in {"charge", "invoice_paid", "invoice_payment"},
           s.invoice => settlement'.invoice,
           s.payment => settlement'.payment,
           s.status = "RECORDED" => settlement'.status = "RECORDED",
           Ev(w) = "invoice_paid" => settlement'.invoice,
           Ev(w) = "invoice_payment" => settlement'.payment
    PROVE  Knows(w)'
<1>1. "settle" \in PCs /\ "finalize" \in PCs
  BY DEF PCs
<1>2. ~NoSettlement.invoice /\ ~NoSettlement.payment /\ NoSettlement.status = "NONE"
  BY DEF NoSettlement
<1>3. Ev(w) \notin CheckoutEvents /\ Ev(w) \notin RefundEvents /\ Ev(w) \in Events
  BY DEF CheckoutEvents, RefundEvents, Events, InvoiceEvents
<1>4. CASE Ready(s)
  <2>1. Goes(w, "settle", s) /\ s.invoice /\ s.payment
    BY <1>4, Known, SettleGoes DEF Ready
  <2>2. Ev(w) \in EventsAt["settle"]
    BY DEF EventsAt
  <2> QED BY <1>1, <1>3, <2>1, <2>2, MoverKnows
<1>5. CASE ~Ready(s)
  <2>1. Goes(w, "finalize", NoSettlement)
    BY <1>5, Known, SettleGoes
  <2>2. Ev(w) \in EventsAt["finalize"]
    BY <1>3 DEF EventsAt
  <2> QED BY <1>1, <1>2, <1>3, <2>1, <2>2, MoverKnows
<1> QED BY <1>4, <1>5

LEMMA DeliverKnows ==
    ASSUME IInv, Grows, NEW w \in Workers, NEW e \in Events, Deliver(w, e)
    PROVE  Knows(w)' /\ \A v \in Workers \ {w} : worker'[v] = worker[v]
<1>1. PICK k : k = [IdleWorker EXCEPT !.pc = FirstStep(e), !.event = e]
  OBVIOUS
<1>2. k.pc = FirstStep(e) /\ k.event = e /\ k.settlement = NoSettlement
  BY <1>1 DEF IdleWorker
<1>3. worker' = [worker EXCEPT ![w] = k] /\ worker \in [Workers -> Worker]
  BY <1>1, Known DEF Deliver
<1>4. worker'[w] = k /\ \A v \in Workers \ {w} : worker'[v] = worker[v]
  BY <1>3
<1>5. H' = H
  BY SameHistory DEF Grows
<1>6. ~NoSettlement.invoice /\ ~NoSettlement.payment /\ NoSettlement.status = "NONE"
  BY DEF NoSettlement
<1>7. Behind(worker[w].settlement)'
  BY <1>2, <1>4, <1>6 DEF Behind
<1>8. e \in DOMAIN H.created
  BY DEF Deliver
<1>9. /\ FirstStep(e) \in {"checkout", "invoice", "stage_payment", "evidence", "refund", "delete"}
      /\ e \in EventsAt[FirstStep(e)]
      /\ e \in RefundEvents => FirstStep(e) = "refund"
  <2>1. CASE e \in CheckoutEvents
    BY <2>1 DEF FirstStep, EventsAt, CheckoutEvents, RefundEvents, InvoiceEvents
  <2>2. CASE e \in InvoiceEvents
    BY <2>2 DEF FirstStep, EventsAt, CheckoutEvents, RefundEvents, InvoiceEvents
  <2>3. CASE e \in RefundEvents
    BY <2>3 DEF FirstStep, EventsAt, CheckoutEvents, RefundEvents, InvoiceEvents
  <2>4. CASE e = "charge"
    BY <2>4 DEF FirstStep, EventsAt, CheckoutEvents, RefundEvents, InvoiceEvents
  <2>5. CASE e = "invoice_payment"
    BY <2>5 DEF FirstStep, EventsAt, CheckoutEvents, RefundEvents, InvoiceEvents
  <2>6. CASE e = "deleted"
    BY <2>6 DEF FirstStep, EventsAt, CheckoutEvents, RefundEvents, InvoiceEvents
  <2> QED BY <2>1, <2>2, <2>3, <2>4, <2>5, <2>6 DEF Events
<1> QED BY <1>2, <1>4, <1>5, <1>7, <1>8, <1>9 DEF Knows, Staged

\* The delivery that takes a step knows what it has to know then.
LEMMA StepKnows ==
    ASSUME IInv, TypeOK', Grows, NEW w \in Workers, Step(w) \/ Throw(w) \/ Crash(w)
    PROVE  Knows(w)'
<1> DEFINE e == Ev(w)
           copy == worker[w].settlement
<1>1. /\ history \in Histories /\ settlement \in SettlementRow /\ gift \in GiftRow
      /\ worker \in [Workers -> Worker] /\ copy \in SettlementRow /\ Knows(w)
  BY Known
<1>2. /\ copy.invoice => settlement'.invoice
      /\ copy.payment => settlement'.payment
      /\ copy.status = "RECORDED" => settlement'.status = "RECORDED"
  BY CopyBehind
<1>3. gift.refunded \in Nat /\ gift'.refunded \in Nat
  BY DEF IInv, TypeOK, GiftRow, Amount
<1>4. /\ CheckoutEvents \cap RefundEvents = {} /\ CheckoutEvents \cap InvoiceEvents = {}
      /\ RefundEvents \cap InvoiceEvents = {}
      /\ {"charge", "invoice_payment", "deleted"} \cap
           (CheckoutEvents \cup RefundEvents \cup InvoiceEvents) = {}
      /\ "invoice_paid" \in InvoiceEvents
  BY DEF CheckoutEvents, RefundEvents, InvoiceEvents
<1>5. {"checkout", "gift", "invoice", "stage_paid", "settle", "mark", "stage_payment",
       "read_evidence", "evidence", "checkout_method", "settlement_method", "gift_method",
       "finalize", "failed"} \subseteq PCs
  BY DEF PCs
<1>6. ~NoSettlement.invoice /\ ~NoSettlement.payment /\ NoSettlement.status = "NONE"
      /\ NoSettlement \in SettlementRow
  BY DEF NoSettlement, SettlementRow
<1>7. ASSUME Checkout(w) PROVE Knows(w)'
  <2>1. worker[w].pc = "checkout" /\ e \in CheckoutEvents
    BY <1>1, <1>7 DEF Checkout, At, Ev, Knows, EventsAt
  <2>2. PICK pc : pc = IF ~Monthly /\ Pays(e) THEN "gift" ELSE "finalize"
    OBVIOUS
  <2>3. PICK m : worker' = [worker EXCEPT ![w].pc = pc, ![w].method = m]
    BY <1>7, <2>2 DEF Checkout
  <2>4. Goes(w, pc, copy)
    BY <1>1, <2>3 DEF Goes, Worker, IInv, TypeOK
  <2>5. e \in EventsAt[pc] /\ pc \in PCs
    BY <2>1, <2>2 DEF EventsAt, PCs, Events
  <2> QED BY <1>2, <1>4, <2>1, <2>2, <2>4, <2>5, MoverKnows
<1>8. ASSUME Gift(w) PROVE Knows(w)'
  <2>1. worker[w].pc = "gift" /\ e \in CheckoutEvents
    BY <1>1, <1>8 DEF Gift, At, Ev, Knows, EventsAt
  <2>2. gift' = recordStripeGiftAndAcknowledgment(gift, worker[w].method)
    BY <1>8 DEF Gift
  <2>3. gift'.made
    BY <1>1, <2>2, GiftWrites
  <2>4. CASE Goto(w, "finalize")
    <3>1. Goes(w, "finalize", copy)
      BY <1>1, <1>5, <2>4, GotoGoes
    <3>2. e \in EventsAt["finalize"]
      BY <2>1 DEF EventsAt, Events
    <3> QED BY <1>2, <1>4, <1>5, <2>1, <2>3, <3>1, <3>2, MoverKnows
  <2>5. CASE Goto(w, "failed")
    BY <2>1, <2>5, FailKnows
  <2> QED BY <1>8, <2>4, <2>5 DEF Gift
<1>9. ASSUME Invoice(w) PROVE Knows(w)'
  <2>1. worker[w].pc = "invoice" /\ e \in InvoiceEvents
    BY <1>1, <1>9 DEF Invoice, At, Ev, Knows, EventsAt
  <2>2. CASE e = "invoice_paid"
    <3>1. Goes(w, "stage_paid", copy)
      BY <1>1, <1>5, <1>9, <2>2, GotoGoes DEF Invoice
    <3>2. e \in EventsAt["stage_paid"]
      BY <2>2 DEF EventsAt
    <3> QED BY <1>2, <1>4, <1>5, <2>1, <3>1, <3>2, MoverKnows DEF Staged
  <2>3. CASE e # "invoice_paid"
    <3>1. Goes(w, "finalize", copy)
      BY <1>1, <1>5, <1>9, <2>3, GotoGoes DEF Invoice
    <3>2. e \in EventsAt["finalize"]
      BY <2>1 DEF EventsAt, Events
    <3> QED BY <1>2, <1>4, <1>5, <2>1, <2>3, <3>1, <3>2, MoverKnows
  <2> QED BY <2>2, <2>3
<1>10. ASSUME StagePaid(w) PROVE Knows(w)'
  <2>1. worker[w].pc = "stage_paid" /\ e = "invoice_paid"
    BY <1>1, <1>10 DEF StagePaid, At, Ev, Knows, EventsAt
  <2>2. settlement' = stageStripeInvoicePaid(settlement) /\ Settle(w, settlement')
    BY <1>10 DEF StagePaid
  <2>3. settlement' \in SettlementRow /\ settlement'.invoice
    BY <1>1, <2>2, SettlementTypes, SettlementWrites
  <2> QED BY <2>1, <2>2, <2>3, SettleKnows
<1>11. ASSUME RecordSettlement(w) PROVE Knows(w)'
  <2>1. worker[w].pc = "settle" /\ e \in {"charge", "invoice_paid", "invoice_payment"}
    BY <1>1, <1>11 DEF RecordSettlement, At, Ev, Knows, EventsAt
  <2>2. gift' = recordStripeGiftAndAcknowledgment(gift, copy.method)
    BY <1>11 DEF RecordSettlement
  <2>3. gift'.made
    BY <1>1, <2>2, GiftWrites
  <2>4. CASE Goto(w, "mark")
    <3>1. Goes(w, "mark", copy)
      BY <1>1, <1>5, <2>4, GotoGoes
    <3>2. e \in EventsAt["mark"]
      BY <2>1 DEF EventsAt
    <3>3. /\ e = "invoice_paid" => settlement'.invoice
          /\ e = "invoice_payment" => settlement'.payment
      BY <1>1, <2>1 DEF Knows, Staged, Ev, Grows
    <3> QED BY <1>2, <1>4, <1>5, <2>1, <2>3, <3>1, <3>2, <3>3, MoverKnows
  <2>5. CASE Goto(w, "failed")
    BY <2>1, <2>5, FailKnows
  <2> QED BY <1>11, <2>4, <2>5 DEF RecordSettlement
<1>12. ASSUME Mark(w) PROVE Knows(w)'
  <2>1. worker[w].pc = "mark" /\ e \in {"charge", "invoice_paid", "invoice_payment"}
    BY <1>1, <1>12 DEF Mark, At, Ev, Knows, EventsAt
  <2>2. Goes(w, "finalize", NoSettlement)
    BY <1>1, <1>5, <1>6, <1>12, CopyGoes DEF Mark
  <2>3. e \in EventsAt["finalize"]
    BY <2>1 DEF EventsAt, Events, InvoiceEvents
  <2>4. /\ e = "invoice_paid" => settlement'.invoice
        /\ e = "invoice_payment" => settlement'.payment
    BY <1>1, <2>1 DEF Knows, Staged, Ev, Grows
  <2> QED BY <1>4, <1>5, <1>6, <2>1, <2>2, <2>3, <2>4, MoverKnows
<1>13. ASSUME StagePayment(w) PROVE Knows(w)'
  <2>1. worker[w].pc = "stage_payment" /\ e = "invoice_payment"
    BY <1>1, <1>13 DEF StagePayment, At, Ev, Knows, EventsAt
  <2>2. settlement' = stageStripeInvoicePayment(settlement)
    BY <1>13 DEF StagePayment
  <2>3. settlement' \in SettlementRow /\ settlement'.payment
    BY <1>1, <2>2, SettlementTypes, SettlementWrites
  <2>4. worker' = [worker EXCEPT ![w].pc = "read_evidence", ![w].settlement = settlement']
    BY <1>13, <2>2 DEF StagePayment
  <2>5. Goes(w, "read_evidence", settlement')
    BY <1>1, <1>5, <2>3, <2>4, CopyGoes
  <2>6. e \in EventsAt["read_evidence"]
    BY <2>1 DEF EventsAt
  <2> QED BY <1>4, <1>5, <2>1, <2>3, <2>5, <2>6, MoverKnows
<1>14. ASSUME ReadEvidence(w) PROVE Knows(w)'
  <2>1. worker[w].pc = "read_evidence" /\ e = "invoice_payment"
    BY <1>1, <1>14 DEF ReadEvidence, At, Ev, Knows, EventsAt
  <2>2. settlement'.payment
    BY <1>1, <2>1 DEF Knows, Staged, Ev, Grows
  <2>3. CASE Goto(w, "settlement_method")
    <3>1. Goes(w, "settlement_method", copy)
      BY <1>1, <1>5, <2>3, GotoGoes
    <3>2. e \in EventsAt["settlement_method"]
      BY <2>1 DEF EventsAt
    <3> QED BY <1>2, <1>4, <1>5, <2>1, <2>2, <3>1, <3>2, MoverKnows
  <2>4. CASE Settle(w, copy)
    BY <1>1, <1>2, <2>1, <2>2, <2>4, SettleKnows
  <2> QED BY <1>14, <2>3, <2>4 DEF ReadEvidence
<1>15. ASSUME Evidence(w) PROVE Knows(w)'
  <2>1. worker[w].pc = "evidence" /\ e \in RefundEvents \cup {"charge"}
    BY <1>1, <1>15 DEF Evidence, At, Ev, Knows, EventsAt
  <2>2. e \in RefundEvents => gift'.made /\ gift'.refunded >= RefundedBy(e)
    <3>1. e \in RefundEvents => gift.made /\ gift.refunded >= RefundedBy(e)
      BY <1>1, <2>1 DEF Knows, Ev
    <3> QED BY <1>15, <3>1 DEF Evidence
  <2>3. ASSUME NEW pc \in {"settlement_method", "checkout_method"}, Goto(w, pc),
               pc = "checkout_method" => ~Monthly
        PROVE  Knows(w)'
    <3>1. Goes(w, pc, copy) /\ pc \in PCs
      BY <1>1, <1>5, <2>3, GotoGoes
    <3>2. e \in EventsAt[pc]
      BY <2>1 DEF EventsAt
    <3> QED BY <1>2, <1>4, <1>5, <2>1, <2>2, <2>3, <3>1, <3>2, MoverKnows
  <2>4. CASE Goto(w, "failed")
    BY <2>1, <2>4, FailKnows
  <2> QED BY <1>15, <2>3, <2>4 DEF Evidence
<1>16. ASSUME CheckoutMethod(w) PROVE Knows(w)'
  <2>1. worker[w].pc = "checkout_method" /\ e \in RefundEvents \cup {"charge"}
    BY <1>1, <1>16 DEF CheckoutMethod, At, Ev, Knows, EventsAt
  <2>2. e \in RefundEvents => gift'.made /\ gift'.refunded >= RefundedBy(e)
    <3>1. e \in RefundEvents => gift.made /\ gift.refunded >= RefundedBy(e)
      BY <1>1, <2>1 DEF Knows, Ev
    <3> QED BY <1>16, <3>1 DEF CheckoutMethod
  <2>3. CASE Goto(w, "gift_method")
    <3>1. Goes(w, "gift_method", copy)
      BY <1>1, <1>5, <2>3, GotoGoes
    <3>2. e \in EventsAt["gift_method"]
      BY <2>1 DEF EventsAt
    <3> QED BY <1>2, <1>4, <1>5, <2>1, <2>2, <3>1, <3>2, MoverKnows
  <2>4. CASE Goto(w, "failed")
    BY <2>1, <2>4, FailKnows
  <2> QED BY <1>16, <2>3, <2>4 DEF CheckoutMethod
<1>17. ASSUME SettlementMethod(w) PROVE Knows(w)'
  <2>1. /\ worker[w].pc = "settlement_method"
        /\ e \in RefundEvents \cup {"charge", "invoice_payment"}
    BY <1>1, <1>17 DEF SettlementMethod, At, Ev, Knows, EventsAt
  <2>2. e \in RefundEvents => gift'.made /\ gift'.refunded >= RefundedBy(e)
    <3>1. e \in RefundEvents => gift.made /\ gift.refunded >= RefundedBy(e)
      BY <1>1, <2>1 DEF Knows, Ev
    <3> QED BY <1>17, <3>1 DEF SettlementMethod
  <2>3. e = "invoice_payment" => settlement'.payment
    BY <1>1, <2>1 DEF Knows, Staged, Ev, Grows
  <2>4. CASE settlement.payment
    <3>1. settlement' \in SettlementRow
      BY DEF TypeOK
    <3>2. worker' = [worker EXCEPT ![w].pc = "gift_method", ![w].settlement = settlement']
      BY <1>17, <2>4 DEF SettlementMethod
    <3>3. Goes(w, "gift_method", settlement')
      BY <1>1, <1>5, <3>1, <3>2, CopyGoes
    <3>4. e \in EventsAt["gift_method"]
      BY <2>1 DEF EventsAt
    <3> QED BY <1>4, <1>5, <2>1, <2>2, <2>3, <3>3, <3>4, MoverKnows
  <2>5. CASE ~settlement.payment
    <3>1. Goes(w, "finalize", copy)
      BY <1>1, <1>5, <1>17, <2>5, GotoGoes DEF SettlementMethod
    <3>2. e \in EventsAt["finalize"]
      BY <2>1 DEF EventsAt, Events
    <3> QED BY <1>2, <1>4, <1>5, <2>1, <2>2, <2>3, <3>1, <3>2, MoverKnows
  <2> QED BY <2>4, <2>5
<1>18. ASSUME GiftMethod(w) PROVE Knows(w)'
  <2>1. /\ worker[w].pc = "gift_method"
        /\ e \in RefundEvents \cup {"charge", "invoice_payment"}
    BY <1>1, <1>18 DEF GiftMethod, At, Ev, Knows, EventsAt
  <2>2. e \in RefundEvents => gift.made /\ gift'.made /\ gift'.refunded >= RefundedBy(e)
    <3>1. e \in RefundEvents => gift.made /\ gift.refunded >= RefundedBy(e)
      BY <1>1, <2>1 DEF Knows, Ev
    <3>2. e \in RefundEvents => RefundedBy(e) \in Nat
      BY DEF RefundedBy, Amount
    <3> QED BY <1>3, <3>1, <3>2 DEF Grows
  <2>3. e = "invoice_payment" => settlement'.payment
    BY <1>1, <2>1 DEF Knows, Staged, Ev, Grows
  <2>4. CASE Monthly /\ (e = "invoice_payment" \/ ~gift.made)
    <3>1. Settle(w, copy)
      BY <1>18, <2>4 DEF GiftMethod
    <3>2. e \in {"charge", "invoice_payment"}
      BY <1>4, <2>1, <2>2, <2>4
    <3> QED BY <1>1, <1>2, <1>4, <2>1, <2>3, <3>1, <3>2, SettleKnows
  <2>5. CASE ~(Monthly /\ (e = "invoice_payment" \/ ~gift.made))
    <3>1. worker' = [worker EXCEPT ![w].pc = "finalize", ![w].settlement = NoSettlement]
      BY <1>18, <2>5 DEF GiftMethod
    <3>2. Goes(w, "finalize", NoSettlement)
      BY <1>1, <1>5, <1>6, <3>1, CopyGoes
    <3>3. e \in EventsAt["finalize"]
      BY <2>1 DEF EventsAt, Events
    <3> QED BY <1>4, <1>5, <1>6, <2>1, <2>2, <2>3, <3>2, <3>3, MoverKnows
  <2> QED BY <2>4, <2>5
<1>19. ASSUME Refund(w) PROVE Knows(w)'
  <2>1. worker[w].pc = "refund" /\ e \in RefundEvents
    BY <1>1, <1>19 DEF Refund, At, Ev, Knows, EventsAt
  <2>2. CASE gift.made
    <3>1. gift' = applyStripeRefund(gift, e)
      BY <1>19, <2>2 DEF Refund
    <3>2. gift'.made /\ gift'.refunded >= RefundedBy(e)
      BY <1>1, <2>1, <2>2, <3>1, GiftWrites
    <3>3. PICK pc \in {"evidence", "finalize"} : Goto(w, pc)
      BY <1>19, <2>2 DEF Refund
    <3>4. Goes(w, pc, copy)
      BY <1>1, <1>5, <3>3, GotoGoes
    <3>5. e \in EventsAt[pc]
      BY <2>1 DEF EventsAt, Events
    <3> QED BY <1>2, <1>4, <1>5, <2>1, <3>2, <3>4, <3>5, MoverKnows
  <2>3. CASE ~gift.made
    BY <1>19, <2>1, <2>3, FailKnows DEF Refund
  <2> QED BY <2>2, <2>3
<1>20. ASSUME Delete(w) PROVE Knows(w)'
  <2>1. worker[w].pc = "delete" /\ e = "deleted"
    BY <1>1, <1>20 DEF Delete, At, Ev, Knows, EventsAt
  <2>2. CASE Goto(w, "finalize")
    <3>1. Goes(w, "finalize", copy)
      BY <1>1, <1>5, <2>2, GotoGoes
    <3>2. e \in EventsAt["finalize"]
      BY <2>1 DEF EventsAt, Events
    <3> QED BY <1>2, <1>4, <1>5, <2>1, <3>1, <3>2, MoverKnows
  <2>3. CASE Goto(w, "failed")
    BY <2>1, <2>3, FailKnows
  <2> QED BY <1>20, <2>2, <2>3 DEF Delete
<1>21. ASSUME Finalize(w) \/ Crash(w) PROVE Knows(w)'
  BY <1>1, <1>21, RestGoes, RestKnows DEF Finalize, Crash
<1>22. ASSUME Throw(w) PROVE Knows(w)'
  BY <1>22, FailKnows DEF Throw
<1> QED
  BY <1>7, <1>8, <1>9, <1>10, <1>11, <1>12, <1>13, <1>14, <1>15, <1>16, <1>17, <1>18, <1>19,
     <1>20, <1>21, <1>22 DEF Step

LEMMA OthersRest ==
    ASSUME TypeOK, NEW w \in Workers, Step(w) \/ Throw(w) \/ Crash(w)
    PROVE  \A v \in Workers \ {w} : worker'[v] = worker[v]
<1>1. worker \in [Workers -> Worker]
  BY DEF TypeOK
<1>2. ASSUME NEW s, Settle(w, s) PROVE \A v \in Workers \ {w} : worker'[v] = worker[v]
  BY <1>1, <1>2 DEF Settle
<1>3. ASSUME NEW pc, Goto(w, pc) PROVE \A v \in Workers \ {w} : worker'[v] = worker[v]
  BY <1>1, <1>3 DEF Goto
<1>4. ASSUME Checkout(w) \/ Mark(w) \/ StagePayment(w) \/ Finalize(w) \/ Crash(w)
      PROVE  \A v \in Workers \ {w} : worker'[v] = worker[v]
  BY <1>1, <1>4 DEF Checkout, Mark, StagePayment, Finalize, Crash
<1>5. ASSUME SettlementMethod(w) PROVE \A v \in Workers \ {w} : worker'[v] = worker[v]
  BY <1>1, <1>3, <1>5 DEF SettlementMethod
<1>6. ASSUME GiftMethod(w) PROVE \A v \in Workers \ {w} : worker'[v] = worker[v]
  BY <1>1, <1>2, <1>6 DEF GiftMethod
<1>7. ASSUME Gift(w) \/ Invoice(w) \/ StagePaid(w) \/ RecordSettlement(w) \/ ReadEvidence(w)
               \/ Evidence(w) \/ CheckoutMethod(w) \/ Refund(w) \/ Delete(w) \/ Throw(w)
      PROVE  \A v \in Workers \ {w} : worker'[v] = worker[v]
  BY <1>2, <1>3, <1>7 DEF Gift, Invoice, StagePaid, RecordSettlement, ReadEvidence, Evidence,
     CheckoutMethod, Refund, Delete, Throw
<1> QED BY <1>4, <1>5, <1>6, <1>7 DEF Step

\* A delivery keeps its event until it is over.
LEMMA SameEvent ==
    ASSUME TypeOK, NEW w \in Workers, Step(w) \/ Throw(w), ~Finalize(w)
    PROVE  worker'[w].event = worker[w].event
<1>1. worker \in [Workers -> Worker]
  BY DEF TypeOK
<1>2. ASSUME NEW pc, Goto(w, pc) PROVE worker'[w].event = worker[w].event
  BY <1>1, <1>2 DEF Goto, Worker
<1>3. ASSUME NEW s, Settle(w, s) PROVE worker'[w].event = worker[w].event
  BY <1>1, <1>3 DEF Settle, Worker
<1>4. ASSUME NEW pc, NEW s, worker' = [worker EXCEPT ![w].pc = pc, ![w].settlement = s]
      PROVE  worker'[w].event = worker[w].event
  BY <1>1, <1>4 DEF Worker
<1>5. CASE Checkout(w)
  <2>1. PICK pc, m : worker' = [worker EXCEPT ![w].pc = pc, ![w].method = m]
    BY <1>5 DEF Checkout
  <2> QED BY <1>1, <2>1 DEF Worker
<1> QED BY <1>2, <1>3, <1>4, <1>5
        DEF Step, Gift, Invoice, StagePaid, RecordSettlement, Mark, StagePayment, ReadEvidence,
            Evidence, CheckoutMethod, SettlementMethod, GiftMethod, Refund, Delete, Throw

LEMMA EventOfMover ==
    ASSUME IInv, [Next]_vars, ~\E w \in Workers, f \in Events : Deliver(w, f), NEW v \in Workers
    PROVE  worker'[v].event \in {worker[v].event, NULL}
<1>1. TypeOK /\ worker \in [Workers -> Worker]
  BY DEF IInv, TypeOK
<1>2. ASSUME NEW w \in Workers, Step(w) \/ Throw(w) \/ Crash(w)
      PROVE  worker'[v].event \in {worker[v].event, NULL}
  <2>1. CASE v # w
    BY <1>1, <1>2, <2>1, OthersRest
  <2>2. CASE v = w /\ (Finalize(w) \/ Crash(w))
    BY <1>1, <2>2 DEF Finalize, Crash, IdleWorker
  <2>3. CASE v = w /\ ~Finalize(w) /\ ~Crash(w)
    BY <1>1, <1>2, <2>3, SameEvent
  <2> QED BY <2>1, <2>2, <2>3
<1> QED BY <1>2 DEF Next, GoesStale, vars

LEMMA KnowsStep == IInv /\ [Next]_vars => \A w \in Workers : Knows(w)'
<1> SUFFICES ASSUME IInv, [Next]_vars, NEW v \in Workers PROVE Knows(v)'
  OBVIOUS
<1>1. TypeOK /\ TypeOK' /\ Grows /\ Knows(v)
  BY TypeStep, GrowsStep DEF IInv
<1>2. ASSUME NEW w \in Workers, Step(w) \/ Throw(w) \/ Crash(w) PROVE Knows(v)'
  BY <1>1, <1>2, StepKnows, OthersRest, Bystander
<1>3. ASSUME NEW w \in Workers, NEW e \in Events, Deliver(w, e) PROVE Knows(v)'
  BY <1>1, <1>3, DeliverKnows, Bystander
<1>4. CASE UNCHANGED worker
  BY <1>1, <1>4, Bystander
<1> QED BY <1>2, <1>3, <1>4 DEF Next, GoesStale, vars

-----------------------------------------------------------------------------
(* The rows know what the events that are done have said.                  *)

\* An event is done by a delivery that has come to its end.
LEMMA DoneStep ==
    ASSUME IInv, [Next]_vars, NEW e \in Events, ~Done(e), Done(e)'
    PROVE  \E w \in Workers :
              /\ Finalize(w) /\ worker[w].pc = "finalize" /\ worker[w].event = e
              /\ stripe_webhook_events[e].status = "PROCESSING"
              /\ stripe_webhook_events[e].claim = w
<1>1. stripe_webhook_events \in [Events -> EventRow]
  BY DEF IInv, TypeOK
<1>2. stripe_webhook_events'[e].status = "PROCESSED" /\ stripe_webhook_events[e].status # "PROCESSED"
  BY DEF Done
<1>3. ASSUME NEW w \in Workers, NEW f \in Events, Deliver(w, f) PROVE FALSE
  BY <1>1, <1>2, <1>3 DEF Deliver, SetEvent, claimStripeWebhookEvent, EventRow
<1>4. ASSUME NEW w \in Workers, Evidence(w) PROVE FALSE
  BY <1>1, <1>2, <1>4 DEF Evidence, SetEvent, EventRow
<1>5. ASSUME NEW f \in Events, GoesStale(f) PROVE FALSE
  BY <1>1, <1>2, <1>5 DEF GoesStale, SetEvent, EventRow
<1>6. ASSUME NEW w \in Workers, Finalize(w)
      PROVE  /\ worker[w].pc = "finalize" /\ worker[w].event = e
             /\ stripe_webhook_events[e].status = "PROCESSING"
             /\ stripe_webhook_events[e].claim = w
  <2> DEFINE row == stripe_webhook_events[Ev(w)]
  <2>1. Ev(w) \in Events
    BY <1>6, Known DEF Finalize, Ev
  <2>2. finalizeStripeWebhookEventEnabled(row, w)
    BY <1>2, <1>6 DEF Finalize
  <2>3. PICK outcome : /\ outcome = IF At(w, "finalize") THEN "PROCESSED" ELSE "FAILED"
                       /\ SetEvent(Ev(w), finalizeStripeWebhookEvent(row, outcome))
    BY <1>6, <2>2 DEF Finalize
  <2>4. finalizeStripeWebhookEvent(row, outcome).status = outcome
    BY <1>1, <2>1 DEF finalizeStripeWebhookEvent, EventRow
  <2>5. Ev(w) = e
    BY <1>1, <1>2, <2>1, <2>3 DEF SetEvent
  <2>6. outcome = "PROCESSED"
    BY <1>1, <1>2, <2>3, <2>4, <2>5 DEF SetEvent
  <2> QED BY <2>2, <2>3, <2>5, <2>6 DEF At, Ev, finalizeStripeWebhookEventEnabled
<1>7. \/ \E w \in Workers : Evidence(w) \/ Finalize(w) \/ \E f \in Events : Deliver(w, f)
      \/ \E f \in Events : GoesStale(f)
  BY <1>2 DEF Next, Step, vars, Checkout, Gift, Invoice, StagePaid, RecordSettlement, Mark,
         StagePayment, ReadEvidence, CheckoutMethod, SettlementMethod, GiftMethod,
         Refund, Delete, Throw, Crash
<1> QED BY <1>3, <1>4, <1>5, <1>6, <1>7

LEMMA RowsStep == IInv /\ [Next]_vars => RowsKnow'
<1> SUFFICES ASSUME IInv, [Next]_vars PROVE RowsKnow'
  OBVIOUS
<1>1. TypeOK /\ TypeOK' /\ Grows /\ RowsKnow
  BY TypeStep, GrowsStep DEF IInv
<1>2. settlement \in SettlementRow /\ gift \in GiftRow
  BY <1>1 DEF TypeOK
<1>3. Monthly' = Monthly /\ (\A e : Pays(e)' = Pays(e))
  BY <1>1, SameHistory DEF Grows
<1>4. ASSUME NEW e \in Events, Done(e)'
      PROVE  \/ Done(e)
             \/ \E w \in Workers : worker[w].pc = "finalize" /\ worker[w].event = e /\ Knows(w)
  BY <1>4, DoneStep, Known
<1>5. ASSUME NEW e \in CheckoutEvents, ~Monthly, Pays(e), Done(e)' PROVE gift'.made
  <2>1. e \in Events
    BY DEF Events
  <2> QED BY <1>1, <1>4, <1>5, <2>1 DEF RowsKnow, Knows, Grows
<1>6. ASSUME NEW e \in RefundEvents, Done(e)' PROVE gift'.made /\ gift'.refunded >= RefundedBy(e)
  <2>1. e \in Events
    BY DEF Events
  <2>2. gift.refunded \in Nat /\ gift'.refunded \in Nat /\ RefundedBy(e) \in Nat
    BY <1>1 DEF TypeOK, GiftRow, Amount, RefundedBy
  <2>3. gift.made /\ gift.refunded >= RefundedBy(e)
    BY <1>1, <1>4, <1>6, <2>1 DEF RowsKnow, Knows
  <2> QED BY <1>1, <2>2, <2>3 DEF Grows
<1>7. Done("invoice_paid")' => settlement'.invoice
  <2>1. "invoice_paid" \in Events
    BY DEF Events, InvoiceEvents
  <2> QED BY <1>1, <1>4, <2>1 DEF RowsKnow, Knows, Staged, Grows
<1>8. Done("invoice_payment")' => settlement'.payment
  <2>1. "invoice_payment" \in Events
    BY DEF Events
  <2> QED BY <1>1, <1>4, <2>1 DEF RowsKnow, Knows, Staged, Grows
<1>9. settlement'.status = "RECORDED" => gift'.made
  <2>1. ASSUME NEW w \in Workers, Mark(w) PROVE gift'.made
    BY <1>1, <2>1, Known DEF Mark, At, Knows, Grows
  <2>2. ASSUME NEW w \in Workers, StagePaid(w) \/ StagePayment(w) \/ SettlementMethod(w)
        PROVE  settlement'.status = "RECORDED" => settlement.status = "RECORDED"
    BY <1>2, <2>2, SettlementWrites DEF StagePaid, StagePayment, SettlementMethod
  <2>3. CASE UNCHANGED settlement
    BY <1>1, <2>3 DEF RowsKnow, Grows
  <2> QED BY <1>1, <2>1, <2>2, <2>3
          DEF RowsKnow, Grows, Next, Step, vars, Deliver, Checkout, Gift, Invoice,
              RecordSettlement, ReadEvidence, Evidence, CheckoutMethod, GiftMethod, Refund,
              Delete, Finalize, Throw, Crash, GoesStale
<1>10. ~gift'.made => gift'.method = NULL
  <2>1. ASSUME NEW w \in Workers, Gift(w) \/ RecordSettlement(w) PROVE gift'.made
    BY <1>2, <2>1, GiftWrites DEF Gift, RecordSettlement
  <2>2. ASSUME NEW w \in Workers, GiftMethod(w), ~gift.made PROVE UNCHANGED gift
    BY <2>2 DEF GiftMethod, giftMethodEnabled
  <2>3. ASSUME NEW w \in Workers, Refund(w), ~gift.made PROVE UNCHANGED gift
    BY <2>3 DEF Refund
  <2>4. UNCHANGED gift \/ gift'.made
    BY <1>1, <2>1, <2>2, <2>3
       DEF Grows, Next, Step, vars, Deliver, Checkout, Invoice, StagePaid, Mark, StagePayment,
           ReadEvidence, Evidence, CheckoutMethod, SettlementMethod, Delete, Finalize, Throw,
           Crash, GoesStale
  <2> QED BY <1>1, <2>4 DEF RowsKnow
<1> QED BY <1>3, <1>5, <1>6, <1>7, <1>8, <1>9, <1>10 DEF RowsKnow

-----------------------------------------------------------------------------
(* The invoice is settled by whichever delivery sees both halves of it.    *)

LEMMA Finished ==
    ASSUME IInv, Grows, NEW w \in Workers, NEW s \in SettlementRow, Settle(w, s),
           s.invoice, s.payment,
           s.status = "RECORDED" => settlement'.status = "RECORDED",
           settlement'.status = "RECORDED" => gift'.made
    PROVE  Finishes(w)'
<1>1. CASE Ready(s)
  BY <1>1, Known, SettleGoes DEF Goes, Finishes
<1>2. CASE ~Ready(s)
  <2>1. Settled'
    BY <1>2 DEF Ready, Settled
  <2>2. worker'[w].pc = "finalize"
    BY <1>2, Known, SettleGoes DEF Goes
  <2> QED BY <2>1, <2>2 DEF Finishes
<1> QED BY <1>1, <1>2

LEMMA CompletesStep ==
    ASSUME IInv, [Next]_vars, settlement'.invoice, settlement'.payment,
           NEW e \in {"invoice_paid", "invoice_payment"}, Completes(e)
    PROVE  Completes(e)'
<1>1. /\ TypeOK /\ TypeOK' /\ Grows /\ RowsKnow' /\ settlement \in SettlementRow
      /\ worker \in [Workers -> Worker] /\ settlement' \in SettlementRow
  BY TypeStep, GrowsStep, RowsStep DEF IInv, TypeOK
<1>2. Settled => Settled'
  BY <1>1 DEF Settled, Grows
<1>3. Done(e)' => Settled'
  <2>1. e \in Events
    BY DEF Events, InvoiceEvents
  <2> QED BY <1>2, <2>1, DoneStep DEF Completes, Finishes
<1>4. settlement'.status = "RECORDED" => gift'.made
  BY <1>1 DEF RowsKnow
<1>5. ASSUME NEW v \in Workers, worker'[v] = worker[v], worker'[v].event = e PROVE Finishes(v)'
  <2>1. Finishes(v)
    BY <1>5 DEF Completes
  <2> QED BY <1>2, <1>5, <2>1 DEF Finishes
<1>6. ASSUME NEW w \in Workers, Step(w) \/ Throw(w) \/ Crash(w), worker'[w].event = e
      PROVE  Finishes(w)'
  <2> DEFINE copy == worker[w].settlement
  <2>0. Knows(w) /\ copy \in SettlementRow
    BY Known
  <2>1. CASE Finalize(w) \/ Crash(w)
    <3>1. worker'[w] = IdleWorker
      BY <1>1, <2>1 DEF Finalize, Crash
    <3> QED BY <3>1 DEF IdleWorker, Finishes
  <2>2. CASE Throw(w)
    BY <1>1, <2>2, GotoGoes DEF Throw, Goes, PCs, Finishes
  <2>3. CASE StagePaid(w)
    <3>1. Settle(w, settlement')
      BY <2>3 DEF StagePaid
    <3> QED BY <1>1, <1>4, <3>1, Finished
  <2>4. CASE StagePayment(w)
    <3>1. worker' = [worker EXCEPT ![w].pc = "read_evidence", ![w].settlement = settlement']
      BY <2>4 DEF StagePayment
    <3>2. Goes(w, "read_evidence", settlement')
      BY <1>1, <3>1, CopyGoes DEF PCs
    <3> QED BY <3>2 DEF Goes, Finishes
  <2>5. ASSUME Ev(w) = e PROVE Finishes(w)'
    <3>1. Finishes(w)
      BY <2>5 DEF Completes, Ev
    <3>2. CASE ReadEvidence(w)
      <4>1. copy.invoice /\ copy.payment
        BY <3>1, <3>2 DEF ReadEvidence, At, Finishes
      <4>2. CASE Goto(w, "settlement_method")
        BY <1>1, <4>1, <4>2, GotoGoes DEF Goes, PCs, Finishes
      <4>3. CASE Settle(w, copy)
        BY <1>1, <1>4, <2>0, <4>1, <4>3, CopyBehind, Finished
      <4> QED BY <3>2, <4>2, <4>3 DEF ReadEvidence
    <3>3. CASE SettlementMethod(w)
      <4>1. settlement.payment
        BY <2>0, <2>5, <3>3 DEF SettlementMethod, At, Knows, EventsAt, Staged, Ev, RefundEvents
      <4>2. worker' = [worker EXCEPT ![w].pc = "gift_method", ![w].settlement = settlement']
        BY <3>3, <4>1 DEF SettlementMethod
      <4>3. Goes(w, "gift_method", settlement')
        BY <1>1, <4>2, CopyGoes DEF PCs
      <4> QED BY <4>3 DEF Goes, Finishes
    <3>4. CASE GiftMethod(w)
      <4>1. copy.invoice /\ copy.payment
        BY <3>1, <3>4 DEF GiftMethod, At, Finishes
      <4>2. Ev(w) = "invoice_payment" /\ Ev(w) \in DOMAIN H.created
        BY <2>0, <2>5, <3>4 DEF GiftMethod, At, Knows, EventsAt, Ev, RefundEvents
      <4>3. Monthly
        BY <4>2, Known, OfHistory
      <4>4. Settle(w, copy)
        BY <3>4, <4>2, <4>3 DEF GiftMethod
      <4> QED BY <1>1, <1>4, <2>0, <4>1, <4>4, CopyBehind, Finished
    <3>5. CASE Mark(w)
      <4>1. settlement'.status = "RECORDED"
        BY <1>1, <3>5 DEF Mark, SettlementRow
      <4>2. worker'[w].pc = "finalize"
        BY <1>1, <3>5 DEF Mark
      <4> QED BY <1>4, <4>1, <4>2 DEF Finishes, Settled
    <3>6. CASE RecordSettlement(w)
      <4>1. PICK pc \in {"mark", "failed"} : Goto(w, pc)
        BY <3>6 DEF RecordSettlement
      <4> QED BY <1>1, <4>1, GotoGoes DEF Goes, PCs, Finishes
    <3>7. CASE Invoice(w)
      <4>1. Ev(w) = "invoice_paid"
        BY <2>0, <2>5, <3>7 DEF Invoice, At, Knows, EventsAt, Ev, InvoiceEvents
      <4>2. Goto(w, "stage_paid")
        BY <3>7, <4>1 DEF Invoice
      <4> QED BY <1>1, <4>2, GotoGoes DEF Goes, PCs, Finishes
    <3>8. CASE Checkout(w) \/ Gift(w) \/ Evidence(w) \/ CheckoutMethod(w) \/ Refund(w) \/ Delete(w)
      BY <2>0, <2>5, <3>8 DEF Checkout, Gift, Evidence, CheckoutMethod, Refund, Delete,
         At, Knows, EventsAt, Ev, RefundEvents, CheckoutEvents
    <3> QED BY <1>6, <2>1, <2>2, <2>3, <2>4, <3>2, <3>3, <3>4, <3>5, <3>6, <3>7, <3>8 DEF Step
  <2>6. ASSUME ~Finalize(w), ~Crash(w) PROVE Ev(w) = e
    BY <1>1, <1>6, <2>6, SameEvent DEF Ev
  <2> QED BY <2>1, <2>5, <2>6
<1>7. ASSUME NEW w \in Workers, NEW f \in Events, Deliver(w, f), worker'[w].event = e
      PROVE  Finishes(w)'
  <2>1. worker'[w].pc = FirstStep(f) /\ f = e
    BY <1>1, <1>7 DEF Deliver, IdleWorker
  <2>2. FirstStep(f) \in {"invoice", "stage_payment"}
    <3>1. CASE f = "invoice_paid"
      BY <3>1 DEF FirstStep, CheckoutEvents, InvoiceEvents, RefundEvents
    <3>2. CASE f = "invoice_payment"
      BY <3>2 DEF FirstStep, CheckoutEvents, InvoiceEvents, RefundEvents
    <3> QED BY <2>1, <3>1, <3>2
  <2> QED BY <2>1, <2>2 DEF Finishes
<1>8. ASSUME NEW v \in Workers, worker'[v].event = e PROVE Finishes(v)'
  <2>1. ASSUME NEW w \in Workers, Step(w) \/ Throw(w) \/ Crash(w) PROVE Finishes(v)'
    BY <1>1, <1>5, <1>6, <1>8, <2>1, OthersRest
  <2>2. ASSUME NEW w \in Workers, NEW f \in Events, Deliver(w, f) PROVE Finishes(v)'
    BY <1>1, <1>5, <1>7, <1>8, <2>2, DeliverKnows
  <2>3. CASE UNCHANGED worker
    BY <1>5, <1>8, <2>3
  <2> QED BY <2>1, <2>2, <2>3 DEF Next, GoesStale, vars
<1> QED BY <1>3, <1>8 DEF Completes

LEMMA OneCompletesStep == IInv /\ [Next]_vars => OneCompletes'
<1> SUFFICES ASSUME IInv, [Next]_vars PROVE OneCompletes'
  OBVIOUS
<1>1. CASE settlement'.invoice /\ settlement'.payment
  <2>1. PICK e \in {"invoice_paid", "invoice_payment"} : Completes(e)
    BY DEF IInv, OneCompletes
  <2>2. Completes(e)'
    BY <1>1, <2>1, CompletesStep
  <2> QED BY <2>2 DEF OneCompletes
<1>2. CASE ~(settlement'.invoice /\ settlement'.payment)
  <2>1. RowsKnow' /\ \A w \in Workers : Knows(w)'
    BY RowsStep, KnowsStep
  <2>2. ~settlement'.invoice => Completes("invoice_paid")'
    BY <2>1 DEF RowsKnow, Knows, Completes, Finishes, Staged
  <2>3. ~settlement'.payment => Completes("invoice_payment")'
    BY <2>1 DEF RowsKnow, Knows, Completes, Finishes, Staged
  <2> QED BY <1>2, <2>2, <2>3 DEF OneCompletes
<1> QED BY <1>1, <1>2

-----------------------------------------------------------------------------
(* The monthly gift gets its method from the charge or from the payment.   *)

\* A claim is held as long as nobody takes it, and evidence stays.
LEMMA EventStep ==
    ASSUME IInv, [Next]_vars
    PROVE  /\ \A e \in Events : stripe_webhook_events[e].evidence => stripe_webhook_events'[e].evidence
           /\ \A w \in Workers : Holds(w)' => Holds(w) \/ Deliver(w, "charge")
<1>1. stripe_webhook_events \in [Events -> EventRow] /\ "charge" \in Events
  BY DEF IInv, TypeOK, Events
<1> DEFINE Kept == \A e \in Events :
              /\ stripe_webhook_events[e].evidence => stripe_webhook_events'[e].evidence
              /\ stripe_webhook_events'[e].status = "PROCESSING" =>
                    /\ stripe_webhook_events[e].status = "PROCESSING"
                    /\ stripe_webhook_events'[e].claim = stripe_webhook_events[e].claim
<1>2. ASSUME NEW w \in Workers, NEW f \in Events, Deliver(w, f)
      PROVE  /\ \A e \in Events : stripe_webhook_events[e].evidence => stripe_webhook_events'[e].evidence
             /\ \A v \in Workers : Holds(v)' => Holds(v) \/ Deliver(v, "charge")
  <2>1. PICK row : /\ row = claimStripeWebhookEvent(stripe_webhook_events[f], w)
                   /\ stripe_webhook_events' = [stripe_webhook_events EXCEPT ![f] = row]
    BY <1>2 DEF Deliver, SetEvent
  <2>2. row.claim = w /\ row.evidence = stripe_webhook_events[f].evidence
    BY <1>1, <2>1 DEF claimStripeWebhookEvent, EventRow
  <2>3. ASSUME NEW v \in Workers, Holds(v)' PROVE Holds(v) \/ Deliver(v, "charge")
    <3>1. /\ worker'[v].event = "charge"
          /\ stripe_webhook_events'["charge"].status = "PROCESSING"
          /\ stripe_webhook_events'["charge"].claim = v
      BY <2>3 DEF Holds
    <3>2. CASE f = "charge"
      BY <1>1, <1>2, <2>1, <2>2, <3>1, <3>2
    <3>3. CASE f # "charge"
      <4>1. w # v
        <5>1. worker'[w].event = f
          BY <1>2, Known DEF Deliver, IdleWorker
        <5> QED BY <3>1, <3>3, <5>1
      <4>2. worker'[v] = worker[v]
        BY <1>2, <4>1, Known DEF Deliver
      <4> QED BY <1>1, <2>1, <3>1, <3>3, <4>2 DEF Holds
    <3> QED BY <3>2, <3>3
  <2> QED BY <1>1, <2>1, <2>2, <2>3
<1>3. Kept \/ \E w \in Workers, f \in Events : Deliver(w, f)
  <2>1. CASE UNCHANGED stripe_webhook_events
    BY <2>1
  <2>2. ASSUME NEW w \in Workers, Evidence(w) PROVE Kept
    <3>1. \/ UNCHANGED stripe_webhook_events
          \/ SetEvent(Ev(w), [stripe_webhook_events[Ev(w)] EXCEPT !.evidence = TRUE])
      BY <2>2 DEF Evidence
    <3> QED BY <1>1, <3>1 DEF SetEvent, EventRow
  <2>3. ASSUME NEW f \in Events, GoesStale(f) PROVE Kept
    BY <1>1, <2>3 DEF GoesStale, SetEvent, EventRow
  <2>4. ASSUME NEW w \in Workers, Finalize(w) PROVE Kept
    <3>1. PICK outcome \in {"PROCESSED", "FAILED"} :
             \/ SetEvent(Ev(w), finalizeStripeWebhookEvent(stripe_webhook_events[Ev(w)], outcome))
             \/ UNCHANGED stripe_webhook_events
      BY <2>4 DEF Finalize
    <3>2. Ev(w) \in Events
      BY <2>4, Known DEF Finalize, Ev
    <3> QED BY <1>1, <3>1, <3>2 DEF SetEvent, finalizeStripeWebhookEvent, EventRow
  <2> QED
    BY <2>1, <2>2, <2>3, <2>4
    DEF Next, Step, vars, Checkout, Gift, Invoice, StagePaid, RecordSettlement, Mark,
        StagePayment, ReadEvidence, CheckoutMethod, SettlementMethod, GiftMethod, Refund, Delete,
        Throw, Crash
<1>4. ASSUME Kept, ~\E w \in Workers, f \in Events : Deliver(w, f), NEW v \in Workers, Holds(v)'
      PROVE  Holds(v)
  <2>1. worker'[v].event = "charge" => worker[v].event = "charge"
    BY <1>4, EventOfMover, NullIsNoEvent DEF Events
  <2> QED BY <1>1, <1>4, <2>1 DEF Holds
<1> QED BY <1>2, <1>3, <1>4

LEMMA LeavesStep ==
    ASSUME IInv, [Next]_vars, Leaves
    PROVE  Leaves'
<1> DEFINE left == stripe_webhook_events["charge"].evidence
<1>1. "charge" \in Events /\ TypeOK /\ (left => left')
  BY EventStep DEF IInv, Events
<1>2. ASSUME Done("charge")' PROVE left'
  <2>1. CASE Done("charge")
    BY <1>1, <2>1 DEF Leaves
  <2>2. CASE ~Done("charge")
    <3>1. PICK w \in Workers : Holds(w) /\ worker[w].pc = "finalize"
      BY <1>1, <1>2, <2>2, DoneStep DEF Holds
    <3> QED BY <1>1, <3>1 DEF Leaves
  <2> QED BY <2>1, <2>2
<1>3. ASSUME NEW v \in Workers, Holds(v)', worker'[v].pc \notin {"idle", "evidence", "failed"}
      PROVE  left'
  <2>1. worker \in [Workers -> Worker]
    BY <1>1 DEF TypeOK
  <2>2. ~Deliver(v, "charge")
    <3>1. FirstStep("charge") = "evidence"
      BY DEF FirstStep, CheckoutEvents, InvoiceEvents, RefundEvents
    <3> QED BY <1>3, <2>1, <3>1 DEF Deliver, IdleWorker
  <2>3. Holds(v)
    BY <1>3, <2>2, EventStep
  <2>4. CASE worker[v].pc \notin {"idle", "evidence", "failed"}
    BY <1>1, <2>3, <2>4 DEF Leaves
  <2>5. CASE worker[v].pc = "idle"
    <3>1. Knows(v) /\ worker[v].event = "charge"
      BY <2>3, Known DEF Holds
    <3>2. worker[v].event \in {NULL}
      BY <2>5, <3>1 DEF Knows, EventsAt
    <3> QED BY <1>1, <3>1, <3>2, NullIsNoEvent
  <2>6. CASE worker[v].pc = "evidence"
    <3>1. worker'[v] # worker[v]
      BY <1>3, <2>6
    <3>2. ASSUME NEW w \in Workers, Step(w) \/ Throw(w) \/ Crash(w) PROVE w = v
      BY <1>1, <3>1, <3>2, OthersRest
    <3>3. ASSUME NEW w \in Workers, NEW f \in Events, Deliver(w, f) PROVE FALSE
      BY <2>1, <2>6, <3>1, <3>3 DEF Deliver, At
    <3>4. Step(v) \/ Throw(v) \/ Crash(v)
      BY <3>1, <3>2, <3>3 DEF Next, GoesStale, vars
    <3>5. ~Throw(v) /\ ~Crash(v)
      BY <1>3, <2>1 DEF Throw, Crash, Goto, IdleWorker, Worker
    <3>6. Evidence(v)
      BY <2>6, <3>4, <3>5 DEF Step, Checkout, Gift, Invoice, StagePaid, RecordSettlement, Mark,
         StagePayment, ReadEvidence, CheckoutMethod, SettlementMethod, GiftMethod, Refund,
         Delete, Finalize, At
    <3>7. Ev(v) = "charge" /\ stripe_webhook_events["charge"].status = "PROCESSING"
      BY <2>3 DEF Holds, Ev
    <3> QED BY <1>1, <3>6, <3>7 DEF Evidence, SetEvent, TypeOK, EventRow
  <2>7. CASE worker[v].pc = "failed"
    <3>1. worker'[v] # worker[v]
      BY <1>3, <2>7
    <3>2. ASSUME NEW w \in Workers, Step(w) \/ Throw(w) \/ Crash(w) PROVE w = v
      BY <1>1, <3>1, <3>2, OthersRest
    <3>3. ASSUME NEW w \in Workers, NEW f \in Events, Deliver(w, f) PROVE FALSE
      BY <2>1, <2>7, <3>1, <3>3 DEF Deliver, At
    <3>4. Step(v) \/ Throw(v) \/ Crash(v)
      BY <3>1, <3>2, <3>3 DEF Next, GoesStale, vars
    <3>5. Finalize(v) \/ Crash(v)
      BY <2>7, <3>4 DEF Step, Checkout, Gift, Invoice, StagePaid, RecordSettlement, Mark,
         StagePayment, ReadEvidence, Evidence, CheckoutMethod, SettlementMethod, GiftMethod,
         Refund, Delete, Throw, At
    <3> QED BY <1>3, <2>1, <3>5 DEF Finalize, Crash, IdleWorker
  <2> QED BY <2>4, <2>5, <2>6, <2>7
<1> QED BY <1>2, <1>3 DEF Leaves

\* Once the settlement has its method nobody takes a copy without it.
LEMMA NoBadStays ==
    ASSUME IInv, [Next]_vars, Monthly, settlement.method # NULL, NoBad
    PROVE  NoBad'
<1>1. /\ TypeOK /\ TypeOK' /\ Grows /\ settlement' \in SettlementRow
      /\ worker \in [Workers -> Worker] /\ settlement'.method # NULL
  BY TypeStep, GrowsStep DEF IInv, TypeOK, Grows
<1>2. SUFFICES ASSUME NEW v \in Workers, Bad(v)' PROVE FALSE
  BY DEF NoBad
<1>3. /\ worker'[v].pc \in {"read_evidence", "settle"}
      /\ worker'[v].settlement.invoice /\ worker'[v].settlement.payment
      /\ worker'[v].settlement.method = NULL
  BY <1>2 DEF Bad
<1>4. ~Bad(v) /\ worker'[v] # worker[v]
  BY <1>3 DEF NoBad, Bad
<1>5. ASSUME NEW w \in Workers, NEW f \in Events, Deliver(w, f) PROVE FALSE
  <2>1. worker'[v].settlement = NoSettlement
    BY <1>1, <1>4, <1>5 DEF Deliver, IdleWorker
  <2> QED BY <1>3, <2>1 DEF NoSettlement
<1>6. Step(v) \/ Throw(v) \/ Crash(v)
  BY <1>1, <1>4, <1>5, OthersRest DEF Next, GoesStale, vars
<1>7. ASSUME NEW s \in SettlementRow, Settle(v, s)
      PROVE  s.invoice /\ s.payment /\ s.method = NULL
  BY <1>1, <1>3, <1>7, SettleGoes DEF Goes
<1>8. ASSUME NEW pc \in PCs, Goto(v, pc) PROVE pc \in {"read_evidence", "settle"}
  BY <1>1, <1>3, <1>8, GotoGoes DEF Goes
<1>9. CASE StagePaid(v)
  <2>1. Settle(v, settlement')
    BY <1>9 DEF StagePaid
  <2> QED BY <1>1, <1>7, <2>1
<1>10. CASE StagePayment(v)
  <2>1. worker' = [worker EXCEPT ![v].pc = "read_evidence", ![v].settlement = settlement']
    BY <1>10 DEF StagePayment
  <2>2. "read_evidence" \in PCs
    BY DEF PCs
  <2>3. Goes(v, "read_evidence", settlement')
    BY <1>1, <2>1, <2>2, CopyGoes
  <2> QED BY <1>1, <1>3, <2>3 DEF Goes
<1>11. CASE ReadEvidence(v)
  <2>1. worker[v].settlement \in SettlementRow /\ worker[v].pc = "read_evidence"
    BY <1>11, Known DEF ReadEvidence, At
  <2>2. Settle(v, worker[v].settlement)
    BY <1>8, <1>11 DEF ReadEvidence, PCs
  <2> QED BY <1>4, <1>7, <2>1, <2>2 DEF Bad
<1>12. CASE GiftMethod(v)
  <2>1. worker[v].settlement \in SettlementRow /\ worker[v].pc = "gift_method"
    BY <1>12, Known DEF GiftMethod, At
  <2>2. worker[v].settlement.method # NULL
    BY <2>1 DEF IInv, MethodInv, KnowsMethod
  <2>3. CASE Settle(v, worker[v].settlement)
    BY <1>7, <2>1, <2>2, <2>3
  <2>4. CASE worker' = [worker EXCEPT ![v].pc = "finalize", ![v].settlement = NoSettlement]
    BY <1>1, <1>3, <2>4
  <2> QED BY <1>12, <2>3, <2>4 DEF GiftMethod
<1>13. CASE SettlementMethod(v)
  <2>1. CASE Goto(v, "finalize")
    BY <1>8, <2>1 DEF PCs
  <2>2. CASE ~Goto(v, "finalize")
    <3>1. worker' = [worker EXCEPT ![v].pc = "gift_method", ![v].settlement = settlement']
      BY <1>13, <2>2 DEF SettlementMethod
    <3> QED BY <1>1, <1>3, <3>1
  <2> QED BY <2>1, <2>2
<1>14. CASE Checkout(v)
  <2>1. PICK pc \in {"gift", "finalize"} : \E m : worker' = [worker EXCEPT ![v].pc = pc, ![v].method = m]
    BY <1>14 DEF Checkout
  <2>2. PICK m : worker' = [worker EXCEPT ![v].pc = pc, ![v].method = m]
    BY <2>1
  <2> QED BY <1>1, <1>3, <2>2 DEF Worker
<1>15. CASE Mark(v) \/ Finalize(v) \/ Crash(v)
  <2>1. CASE Mark(v)
    BY <1>1, <1>3, <2>1 DEF Mark
  <2>2. CASE Finalize(v) \/ Crash(v)
    <3>1. worker'[v] = IdleWorker
      BY <1>1, <2>2 DEF Finalize, Crash
    <3> QED BY <1>3, <3>1 DEF IdleWorker
  <2> QED BY <1>15, <2>1, <2>2
<1>16. CASE Gift(v) \/ Invoice(v) \/ RecordSettlement(v) \/ Evidence(v) \/ CheckoutMethod(v)
              \/ Refund(v) \/ Delete(v) \/ Throw(v)
  <2>1. PICK pc \in PCs \ {"read_evidence", "settle"} : Goto(v, pc)
    BY <1>16 DEF Gift, Invoice, RecordSettlement, Evidence, CheckoutMethod, Refund, Delete,
       Throw, PCs
  <2> QED BY <1>8, <2>1
<1> QED BY <1>6, <1>9, <1>10, <1>11, <1>12, <1>13, <1>14, <1>15, <1>16 DEF Step

LEMMA HasMethodStays ==
    ASSUME IInv, [Next]_vars, Monthly, HasMethod
    PROVE  HasMethod'
<1>1. /\ TypeOK /\ Grows /\ gift \in GiftRow
  BY GrowsStep DEF IInv, TypeOK
<1>2. CASE gift.method # NULL
  BY <1>1, <1>2 DEF Grows, HasMethod
<1>3. CASE settlement.method # NULL /\ ~gift.made /\ NoBad
  <2>1. settlement'.method # NULL /\ NoBad'
    BY <1>1, <1>3, NoBadStays DEF Grows
  <2>2. ASSUME NEW w \in Workers, RecordSettlement(w) PROVE gift'.method # NULL
    <3>1. worker[w].pc = "settle" /\ Knows(w) /\ ~Bad(w)
      BY <1>3, <2>2, Known DEF RecordSettlement, At, NoBad
    <3>2. worker[w].settlement.method # NULL
      BY <3>1 DEF Knows, Bad
    <3>3. gift' = recordStripeGiftAndAcknowledgment(gift, worker[w].settlement.method)
      BY <2>2 DEF RecordSettlement
    <3> QED BY <1>1, <1>3, <3>2, <3>3, GiftWrites
  <2>3. ASSUME NEW w \in Workers, Gift(w) PROVE FALSE
    BY <2>3, Known DEF Gift, At, Knows
  <2>4. ASSUME NEW w \in Workers, GiftMethod(w) \/ Refund(w) PROVE UNCHANGED gift
    BY <1>3, <2>4 DEF GiftMethod, Refund, giftMethodEnabled
  <2>5. UNCHANGED gift \/ gift'.method # NULL
    BY <2>2, <2>3, <2>4
       DEF Next, Step, vars, Deliver, Checkout, Invoice, StagePaid, Mark, StagePayment,
           ReadEvidence, Evidence, CheckoutMethod, SettlementMethod, Delete, Finalize, Throw,
           Crash, GoesStale
  <2> QED BY <1>3, <2>1, <2>5 DEF HasMethod
<1> QED BY <1>2, <1>3 DEF HasMethod

LEMMA KnowsMethodStep ==
    ASSUME IInv, [Next]_vars, Monthly, NEW v \in Workers
    PROVE  KnowsMethod(v)'
<1>1. /\ TypeOK /\ Grows /\ settlement \in SettlementRow /\ worker \in [Workers -> Worker]
      /\ settlement' \in SettlementRow /\ KnowsMethod(v)
  BY TypeStep, GrowsStep DEF IInv, TypeOK, MethodInv
<1> SUFFICES ASSUME worker'[v].pc = "gift_method"
             PROVE  LET s == worker'[v].settlement IN
                    /\ settlement'.method # NULL /\ s.method # NULL /\ s.payment
                    /\ s.invoice \/ NoBad'
  BY DEF KnowsMethod
<1>2. CASE worker'[v] = worker[v]
  BY <1>1, <1>2, NoBadStays DEF KnowsMethod, Grows
<1>3. CASE worker'[v] # worker[v]
  <2>1. ASSUME NEW w \in Workers, NEW f \in Events, Deliver(w, f) PROVE FALSE
    <3>1. w = v /\ worker'[v].pc = FirstStep(f)
      BY <1>1, <1>3, <2>1 DEF Deliver, IdleWorker
    <3>2. FirstStep(f) # "gift_method"
      BY DEF FirstStep, Events, CheckoutEvents, RefundEvents, InvoiceEvents
    <3> QED BY <3>1, <3>2
  <2>2. Step(v) \/ Throw(v) \/ Crash(v)
    BY <1>1, <1>3, <2>1, OthersRest DEF Next, GoesStale, vars
  <2>3. ASSUME NEW s \in SettlementRow, Settle(v, s) PROVE FALSE
    BY <1>1, <2>3, SettleGoes DEF Goes
  <2>4. ASSUME NEW pc \in PCs, Goto(v, pc) PROVE pc = "gift_method"
    BY <1>1, <2>4, GotoGoes DEF Goes
  <2>5. CASE SettlementMethod(v)
    <3>1. settlement.payment
      BY <2>4, <2>5 DEF SettlementMethod, PCs
    <3>2. /\ settlement' = recordMethod(settlement, MethodEvent(v))
          /\ worker' = [worker EXCEPT ![v].pc = "gift_method", ![v].settlement = settlement']
      BY <2>5, <3>1 DEF SettlementMethod
    <3>3. worker'[v].settlement = settlement'
      BY <1>1, <3>2, CopyGoes DEF Goes, PCs
    <3>4. MethodEvent(v) # NULL
      BY <2>5, Known, NullIsNoEvent DEF SettlementMethod, At, Ev, MethodEvent, Events
    <3>5. settlement'.method # NULL /\ settlement'.payment
      BY <1>1, <3>1, <3>2, <3>4, SettlementWrites
    <3>6. ~settlement'.invoice => NoBad'
      <4>1. \A w \in Workers : Behind(worker[w].settlement)'
        BY KnowsStep DEF Knows
      <4> QED BY <4>1 DEF NoBad, Bad, Behind
    <3> QED BY <3>3, <3>5, <3>6
  <2>6. CASE CheckoutMethod(v)
    BY <2>6, Known DEF CheckoutMethod, At, Knows
  <2>7. CASE StagePaid(v)
    <3>1. Settle(v, settlement')
      BY <2>7 DEF StagePaid
    <3> QED BY <1>1, <2>3, <3>1
  <2>8. CASE StagePayment(v)
    <3>1. worker' = [worker EXCEPT ![v].pc = "read_evidence", ![v].settlement = settlement']
      BY <2>8 DEF StagePayment
    <3> QED BY <1>1, <3>1, CopyGoes DEF Goes, PCs
  <2>9. CASE ReadEvidence(v)
    BY <2>3, <2>4, <2>9, Known DEF ReadEvidence, PCs
  <2>10. CASE GiftMethod(v)
    <3>1. CASE Settle(v, worker[v].settlement)
      BY <2>3, <3>1, Known
    <3>2. CASE worker' = [worker EXCEPT ![v].pc = "finalize", ![v].settlement = NoSettlement]
      BY <1>1, <3>2
    <3> QED BY <2>10, <3>1, <3>2 DEF GiftMethod
  <2>11. CASE Checkout(v)
    <3>1. PICK pc \in {"gift", "finalize"} : \E m : worker' = [worker EXCEPT ![v].pc = pc, ![v].method = m]
      BY <2>11 DEF Checkout
    <3>2. PICK m : worker' = [worker EXCEPT ![v].pc = pc, ![v].method = m]
      BY <3>1
    <3> QED BY <1>1, <3>2 DEF Worker
  <2>12. CASE Mark(v)
    BY <1>1, <2>12 DEF Mark
  <2>13. CASE Finalize(v) \/ Crash(v)
    <3>1. worker'[v] = IdleWorker
      BY <1>1, <2>13 DEF Finalize, Crash
    <3> QED BY <3>1 DEF IdleWorker
  <2>14. CASE Gift(v) \/ Invoice(v) \/ RecordSettlement(v) \/ Evidence(v) \/ Refund(v)
                \/ Delete(v) \/ Throw(v)
    <3>1. PICK pc \in PCs \ {"gift_method"} : Goto(v, pc)
      BY <2>14 DEF Gift, Invoice, RecordSettlement, Evidence, Refund, Delete, Throw, PCs
    <3> QED BY <2>4, <3>1
  <2> QED BY <2>2, <2>5, <2>6, <2>7, <2>8, <2>9, <2>10, <2>11, <2>12, <2>13, <2>14 DEF Step
<1> QED BY <1>2, <1>3

\* What comes of the delivery that has stored the method.
LEMMA GiftMethodBrings ==
    ASSUME IInv, [Next]_vars, Monthly, NEW w \in Workers, GiftMethod(w)
    PROVE  Brings(w)'
<1> DEFINE copy == worker[w].settlement
<1>1. /\ TypeOK /\ Grows /\ gift \in GiftRow /\ copy \in SettlementRow
      /\ worker \in [Workers -> Worker]
  BY GrowsStep, Known DEF IInv, TypeOK
<1>2. /\ settlement.method # NULL /\ copy.method # NULL /\ copy.payment
      /\ copy.invoice \/ NoBad
  BY DEF IInv, MethodInv, KnowsMethod, GiftMethod, At
<1>3. CASE gift.made
  <2>1. MethodEvent(w) # NULL
    BY Known, NullIsNoEvent DEF GiftMethod, At, Ev, MethodEvent, Events
  <2>2. gift' = recordMethod(gift, MethodEvent(w))
    BY <1>3 DEF GiftMethod, giftMethodEnabled
  <2>3. gift'.method # NULL
    BY <1>1, <2>1, <2>2, GiftWrites
  <2> QED BY <2>3 DEF Brings, HasMethod
<1>4. CASE ~gift.made
  <2>1. Settle(w, copy) /\ UNCHANGED gift
    BY <1>4 DEF GiftMethod, giftMethodEnabled
  <2>2. CASE Ready(copy)
    BY <1>1, <1>2, <2>1, <2>2, SettleGoes DEF Goes, Brings
  <2>3. CASE ~Ready(copy)
    <3>1. copy.status # "RECORDED"
      BY <1>4, Known DEF Knows, Behind, IInv, RowsKnow
    <3>2. NoBad
      BY <1>2, <2>3, <3>1 DEF Ready
    <3>3. HasMethod
      BY <1>2, <1>4, <3>2 DEF HasMethod
    <3>4. HasMethod'
      BY <3>3, HasMethodStays
    <3> QED BY <3>4 DEF Brings
  <2> QED BY <2>2, <2>3
<1> QED BY <1>3, <1>4

\* Once the method is there, or in hand, the delivery keeps its word.
LEMMA BringsStays ==
    ASSUME IInv, [Next]_vars, Monthly, NEW v \in Workers, Brings(v),
           \/ worker'[v] = worker[v]
           \/ RecordSettlement(v) \/ Mark(v) \/ Finalize(v) \/ Crash(v)
    PROVE  Brings(v)'
<1>1. /\ TypeOK /\ gift \in GiftRow /\ worker \in [Workers -> Worker]
      /\ HasMethod => HasMethod'
  BY HasMethodStays DEF IInv, TypeOK
<1>2. CASE worker'[v] = worker[v]
  BY <1>1, <1>2 DEF Brings
<1>3. CASE RecordSettlement(v)
  <2> DEFINE copy == worker[v].settlement
  <2>1. gift' = recordStripeGiftAndAcknowledgment(gift, copy.method) /\ At(v, "settle")
    BY <1>3 DEF RecordSettlement
  <2>2. CASE Goto(v, "mark") /\ stripeGiftMatches(gift', copy.method)
    <3>1. copy.method # NULL => gift'.method # NULL
      BY <2>2 DEF stripeGiftMatches
    <3>2. HasMethod'
      BY <1>1, <2>1, <3>1 DEF Brings, At, HasMethod
    <3> QED BY <1>1, <2>2, <3>2, GotoGoes DEF Goes, PCs, Brings
  <2>3. CASE Goto(v, "failed")
    BY <1>1, <2>3, GotoGoes DEF Goes, PCs, Brings
  <2> QED BY <1>3, <2>2, <2>3 DEF RecordSettlement
<1>4. CASE Mark(v)
  <2>1. HasMethod'
    BY <1>1, <1>4 DEF Mark, At, Brings
  <2> QED BY <2>1 DEF Brings
<1>5. CASE Finalize(v) \/ Crash(v)
  <2>1. worker'[v] = IdleWorker
    BY <1>1, <1>5 DEF Finalize, Crash
  <2> QED BY <2>1 DEF IdleWorker, Brings
<1> QED BY <1>2, <1>3, <1>4, <1>5

LEMMA QuietBrings ==
    ASSUME TypeOK, NEW v \in Workers, NEW pc \in PCs \ {"settle", "mark", "finalize"}, NEW s,
           Goto(v, pc) \/ worker' = [worker EXCEPT ![v].pc = pc, ![v].settlement = s]
    PROVE  Brings(v)'
<1>1. worker'[v].pc = pc
  BY DEF TypeOK, Goto, Worker
<1> QED BY <1>1 DEF Brings

\* Whose delivery takes a step: this one's, or the row it knows stays the same.
LEMMA Whose ==
    ASSUME IInv, [Next]_vars, NEW v \in Workers
    PROVE  \/ worker'[v] = worker[v]
           \/ Step(v) \/ Throw(v) \/ Crash(v)
           \/ \E f \in Events : Deliver(v, f)
<1>1. TypeOK /\ worker \in [Workers -> Worker]
  BY DEF IInv, TypeOK
<1>2. ASSUME NEW w \in Workers, w # v, Step(w) \/ Throw(w) \/ Crash(w)
      PROVE  worker'[v] = worker[v]
  BY <1>1, <1>2, OthersRest
<1>3. ASSUME NEW w \in Workers, w # v, NEW f \in Events, Deliver(w, f)
      PROVE  worker'[v] = worker[v]
  BY <1>1, <1>3 DEF Deliver
<1> QED BY <1>2, <1>3 DEF Next, GoesStale, vars

LEMMA DeliverBrings ==
    ASSUME TypeOK, NEW v \in Workers, NEW f \in Events, Deliver(v, f)
    PROVE  Brings(v)'
<1>1. worker'[v].pc = FirstStep(f)
  BY DEF TypeOK, Deliver, IdleWorker
<1>2. FirstStep(f) \notin {"settle", "mark", "finalize"}
  BY DEF FirstStep, Events, CheckoutEvents, RefundEvents, InvoiceEvents
<1> QED BY <1>1, <1>2 DEF Brings

LEMMA PaymentBringsStep ==
    ASSUME IInv, [Next]_vars, Monthly, PaymentBrings, Seen'
    PROVE  PaymentBrings'
<1>1. TypeOK /\ worker \in [Workers -> Worker] /\ (HasMethod => HasMethod')
  BY HasMethodStays DEF IInv, TypeOK
<1>2. ASSUME Done("invoice_payment")' PROVE HasMethod'
  <2>1. "invoice_payment" \in Events
    BY DEF Events
  <2> QED BY <1>1, <1>2, <2>1, DoneStep DEF PaymentBrings, Brings
<1>3. ASSUME NEW v \in Workers, worker'[v].event = "invoice_payment" PROVE Brings(v)'
  <2>1. CASE worker'[v] = worker[v]
    BY <1>3, <2>1, BringsStays DEF PaymentBrings
  <2>2. CASE \E f \in Events : Deliver(v, f)
    BY <1>1, <2>2, DeliverBrings
  <2>3. CASE Finalize(v) \/ Crash(v)
    <3>1. worker'[v] = IdleWorker
      BY <1>1, <2>3 DEF Finalize, Crash
    <3> QED BY <3>1 DEF IdleWorker, Brings
  <2>4. CASE Throw(v)
    BY <1>1, <2>4, QuietBrings DEF Throw, PCs
  <2>5. CASE Step(v) /\ ~Finalize(v)
    <3>1. worker[v].event = "invoice_payment" /\ Knows(v)
      BY <1>1, <1>3, <2>5, SameEvent, Known
    <3>2. Brings(v) /\ (worker[v].pc = "read_evidence" => Seen)
      BY <3>1 DEF PaymentBrings
    <3>3. CASE StagePayment(v)
      BY <1>1, <3>3, QuietBrings DEF StagePayment, PCs
    <3>4. CASE ReadEvidence(v)
      <4>1. Goto(v, "settlement_method")
        BY <3>2, <3>4 DEF ReadEvidence, At, Seen
      <4> QED BY <1>1, <4>1, QuietBrings DEF PCs
    <3>5. CASE SettlementMethod(v)
      <4>1. settlement.payment
        BY <3>1, <3>5 DEF SettlementMethod, At, Knows, Staged
      <4> QED BY <1>1, <3>5, <4>1, QuietBrings DEF SettlementMethod, PCs
    <3>6. CASE GiftMethod(v)
      BY <3>6, GiftMethodBrings
    <3>7. CASE RecordSettlement(v) \/ Mark(v)
      BY <3>2, <3>7, BringsStays
    <3>8. CASE Checkout(v) \/ Gift(v) \/ Invoice(v) \/ StagePaid(v) \/ Evidence(v)
                 \/ CheckoutMethod(v) \/ Refund(v) \/ Delete(v)
      BY <3>1, <3>8 DEF Checkout, Gift, Invoice, StagePaid, Evidence, CheckoutMethod, Refund,
         Delete, At, Knows, EventsAt, RefundEvents, CheckoutEvents, InvoiceEvents
    <3> QED BY <2>5, <3>3, <3>4, <3>5, <3>6, <3>7, <3>8 DEF Step
  <2> QED BY <2>1, <2>2, <2>3, <2>4, <2>5, Whose
<1> QED BY <1>2, <1>3 DEF PaymentBrings

LEMMA ChargeBringsStep ==
    ASSUME IInv, [Next]_vars, Monthly, settlement.payment, ChargeBrings
    PROVE  ChargeBrings'
<1>1. TypeOK /\ worker \in [Workers -> Worker] /\ (HasMethod => HasMethod')
  BY HasMethodStays DEF IInv, TypeOK
<1>2. ASSUME Done("charge")' PROVE HasMethod'
  <2>1. "charge" \in Events
    BY DEF Events
  <2>2. Done("charge") \/ \E w \in Workers : Holds(w) /\ worker[w].pc = "finalize"
    BY <1>2, <2>1, DoneStep DEF Holds
  <2> QED BY <1>1, <2>2 DEF ChargeBrings, Brings
<1>3. ASSUME NEW v \in Workers, Holds(v)' PROVE Brings(v)'
  <2>1. CASE Deliver(v, "charge")
    <3>1. "charge" \in Events
      BY DEF Events
    <3> QED BY <1>1, <2>1, <3>1, DeliverBrings
  <2>2. CASE ~Deliver(v, "charge")
    <3>1. Holds(v) /\ Brings(v) /\ worker[v].event = "charge" /\ Knows(v)
      BY <1>3, <2>2, EventStep, Known DEF ChargeBrings, Holds
    <3>2. CASE worker'[v] = worker[v] \/ RecordSettlement(v) \/ Mark(v) \/ Finalize(v) \/ Crash(v)
      BY <3>1, <3>2, BringsStays
    <3>3. CASE \E f \in Events : Deliver(v, f)
      BY <1>1, <3>3, DeliverBrings
    <3>4. CASE Throw(v)
      BY <1>1, <3>4, QuietBrings DEF Throw, PCs
    <3>5. CASE Evidence(v)
      BY <1>1, <3>5, QuietBrings DEF Evidence, PCs
    <3>6. CASE CheckoutMethod(v)
      BY <3>1, <3>6 DEF CheckoutMethod, At, Knows
    <3>7. CASE SettlementMethod(v)
      BY <1>1, <3>7, QuietBrings DEF SettlementMethod, PCs
    <3>8. CASE GiftMethod(v)
      BY <3>8, GiftMethodBrings
    <3>9. CASE Checkout(v) \/ Gift(v) \/ Invoice(v) \/ StagePaid(v) \/ StagePayment(v)
                 \/ ReadEvidence(v) \/ Refund(v) \/ Delete(v)
      BY <3>1, <3>9 DEF Checkout, Gift, Invoice, StagePaid, StagePayment, ReadEvidence, Refund,
         Delete, At, Knows, EventsAt, RefundEvents, CheckoutEvents, InvoiceEvents
    <3> QED BY <3>2, <3>3, <3>4, <3>5, <3>6, <3>7, <3>8, <3>9, Whose DEF Step
  <2> QED BY <2>1, <2>2
<1> QED BY <1>2, <1>3 DEF ChargeBrings

LEMMA MethodStep == IInv /\ [Next]_vars => MethodInv'
<1> SUFFICES ASSUME IInv, [Next]_vars PROVE MethodInv'
  OBVIOUS
<1>0. Monthly' = Monthly
  BY GrowsStep, SameHistory DEF Grows
<1> SUFFICES ASSUME Monthly PROVE MethodInv'
  BY <1>0 DEF MethodInv
<1>1. Leaves /\ OneBrings
  BY DEF IInv, MethodInv
<1>2. Leaves' /\ \A v \in Workers : KnowsMethod(v)'
  BY <1>1, LeavesStep, KnowsMethodStep
<1>3. CASE ~settlement'.payment
  <2>1. RowsKnow' /\ \A w \in Workers : Knows(w)'
    BY RowsStep, KnowsStep
  <2>2. PaymentBrings'
    BY <1>3, <2>1 DEF RowsKnow, Knows, Staged, PaymentBrings, Brings
  <2> QED BY <1>2, <2>2 DEF MethodInv, OneBrings
<1>4. CASE settlement'.payment /\ ~Seen'
  <2>1. ~Done("charge")'
    BY <1>2, <1>4 DEF Leaves, Done, Seen, getStripeChargePaymentMethodByPaymentIntent
  <2>2. ASSUME NEW v \in Workers, Holds(v)' PROVE worker'[v].pc \in {"idle", "evidence", "failed"}
    BY <1>2, <1>4, <2>2 DEF Leaves, Holds, Seen, getStripeChargePaymentMethodByPaymentIntent
  <2>3. ChargeBrings'
    BY <2>1, <2>2 DEF ChargeBrings, Brings
  <2> QED BY <1>2, <1>4, <2>3 DEF MethodInv, OneBrings
<1>5. CASE settlement'.payment /\ Seen'
  <2>1. CASE PaymentBrings
    BY <1>2, <1>5, <2>1, PaymentBringsStep DEF MethodInv, OneBrings
  <2>2. CASE settlement.payment /\ ChargeBrings
    BY <1>2, <1>5, <2>2, ChargeBringsStep DEF MethodInv, OneBrings
  <2> QED BY <1>1, <2>1, <2>2 DEF OneBrings
<1> QED BY <1>3, <1>4, <1>5

-----------------------------------------------------------------------------
(* The theorems.                                                           *)

LEMMA InitInv == Init => IInv
<1> SUFFICES ASSUME Init PROVE IInv
  OBVIOUS
<1> USE DEF Init
<1>1. TypeOK
  <2>1. NewCheckout \in CheckoutRow
    BY DEF NewCheckout, CheckoutRow
  <2>2. NoSettlement \in SettlementRow
    BY DEF NoSettlement, SettlementRow
  <2>3. NoGift \in GiftRow
    BY DEF NoGift, GiftRow, Amount
  <2>4. NoEvent \in EventRow
    BY DEF NoEvent, EventRow
  <2>5. IdleWorker \in Worker
    BY <2>2 DEF IdleWorker, Worker
  <2> QED BY <2>1, <2>2, <2>3, <2>4, <2>5 DEF TypeOK
<1>2. CheckoutInv
  BY DEF CheckoutInv, CheckoutNewest, SubscriptionNewest, NewCheckout
<1>3. \A e \in Events : ~Done(e) /\ ~stripe_webhook_events[e].evidence
  BY DEF Done, NoEvent
<1>4. ~gift.made /\ gift.method = NULL /\ settlement.status = "NONE"
  BY DEF NoGift, NoSettlement
<1>5. \A w \in Workers : worker[w] = IdleWorker
  OBVIOUS
<1>6. /\ IdleWorker.pc = "idle" /\ IdleWorker.event = NULL
      /\ ~IdleWorker.settlement.invoice /\ ~IdleWorker.settlement.payment
      /\ IdleWorker.settlement.status = "NONE"
  BY DEF IdleWorker, NoSettlement
<1>7. /\ {"charge", "invoice_paid", "invoice_payment"} \subseteq Events
      /\ RefundEvents \subseteq Events /\ CheckoutEvents \subseteq Events
      /\ NULL \in EventsAt["idle"]
  BY DEF Events, InvoiceEvents, EventsAt
<1>8. \A w \in Workers : Knows(w)
  BY <1>5, <1>6, <1>7, NullIsNoEvent DEF Knows, Behind, Staged
<1>9. RowsKnow
  BY <1>3, <1>4, <1>7 DEF RowsKnow
<1>10. OneCompletes
  BY <1>3, <1>5, <1>6, <1>7 DEF OneCompletes, Completes, Finishes
<1>11. MethodInv
  <2>1. \A w \in Workers : KnowsMethod(w) /\ Brings(w) /\ ~Holds(w)
    BY <1>5, <1>6, <1>7, NullIsNoEvent DEF KnowsMethod, Brings, Holds
  <2>2. Leaves
    BY <1>3, <1>7, <2>1 DEF Leaves
  <2>3. PaymentBrings
    BY <1>3, <1>5, <1>6, <1>7, <2>1 DEF PaymentBrings
  <2> QED BY <2>1, <2>2, <2>3 DEF MethodInv, OneBrings
<1> QED BY <1>1, <1>2, <1>8, <1>9, <1>10, <1>11 DEF IInv

\* The inductive invariant of the rows and of the deliveries in flight
\* (stripeWebhook.ts and storage/repository/stripeDonations.ts).
THEOREM InvariantHolds == Spec => []IInv
<1>1. IInv /\ [Next]_vars => IInv'
  <2> SUFFICES ASSUME IInv, [Next]_vars PROVE IInv'
    OBVIOUS
  <2>1. history' \in Histories
    BY GrowsStep DEF Grows, IInv
  <2> QED BY <2>1, TypeStep, CheckoutStep, KnowsStep, RowsStep, OneCompletesStep, MethodStep
          DEF IInv
<1> QED BY InitInv, <1>1, PTL DEF Spec

\* The rows keep the shape of their tables and the deliveries that of theirs.
THEOREM TypeCorrect == Spec => []TypeOK
<1>1. IInv => TypeOK
  BY DEF IInv
<1> QED BY <1>1, InvariantHolds, PTL

\* In whatever order, however often and however many at a time the events come,
\* the checkout row is what its newest events say (the WHERE and CASE clauses of
\* the three statements that move it).
THEOREM NewestWins == Spec => []CheckoutIsOfNewest
<1>1. IInv => CheckoutIsOfNewest
  <2> SUFFICES ASSUME IInv PROVE CheckoutIsOfNewest
    OBVIOUS
  <2> USE DEF IInv, CheckoutInv
  <2>1. checkout.payment = "UNPAID" /\ applied \cap CheckoutEvents # {} =>
           \E e \in NewestOf(applied \cap CheckoutEvents, EventAt) : checkout.status = StatusOf(e)
    BY DEF CheckoutNewest
  <2>2. "deleted" \in SubscriptionEvents
    BY DEF SubscriptionEvents, Events
  <2>3. applied \cap SubscriptionEvents # {} =>
           \/ \E e \in NewestOf(applied \cap SubscriptionEvents, SubscriptionAt) :
                 checkout.subscription = SubscriptionOf(e)
           \/ checkout.subscription = "CANCELED" /\ "deleted" \in applied \cap SubscriptionEvents
    BY <2>2 DEF SubscriptionNewest
  <2> QED BY <2>1, <2>3 DEF CheckoutIsOfNewest
<1> QED BY <1>1, InvariantHolds, PTL

\* An event that Stripe will not send again is in the ledger, whatever other
\* deliveries run beside it, die or are late (the handlers of stripeWebhook.ts).
THEOREM DoneIsDone == Spec => []ProcessedIsDone
<1>1. IInv => ProcessedIsDone
  <2> SUFFICES ASSUME IInv PROVE ProcessedIsDone
    OBVIOUS
  <2>1. RowsKnow /\ OneCompletes /\ MethodInv
    BY DEF IInv
  <2>2. Done("invoice_paid") /\ Done("invoice_payment") => Settled
    BY <2>1 DEF OneCompletes, Completes
  <2>3. Monthly /\ gift.made /\ Done("charge") /\ Done("invoice_payment") => gift.method # NULL
    BY <2>1 DEF MethodInv, OneBrings, PaymentBrings, ChargeBrings, HasMethod
  <2> QED BY <2>1, <2>2, <2>3 DEF ProcessedIsDone, RowsKnow, Settled, Done
<1> QED BY <1>1, InvariantHolds, PTL

-----------------------------------------------------------------------------
(* The annual statements: the inductive invariant.                         *)

\* The row that r works on is being processed under r's claim.
Claims(r) ==
    LET i == run[r].row IN
    deliveries[i].status = "PROCESSING" /\ deliveries[i].claim = r

\* The provider was called with the statement and may have taken it.
MayBeSent(i) == deliveries[i].dispatched /\ deliveries[i].status \in {"PROCESSING", "SENT", "REVIEW"}

InMailbox(i) == \E k \in DOMAIN mailbox : mailbox[k] = i

\* Neither the statement that row i corrects nor any before it is of i's snapshot.
Unsaid(i) ==
    \A p, q \in DOMAIN mailbox :
        p <= q /\ mailbox[q] = deliveries[i].supersedes => Mailed(p).snapshot # deliveries[i].snapshot

RowKnows(i) ==
    LET row == deliveries[i] IN
    /\ row.snapshot[1] <= current[1]
    /\ row.status \in {"SENT", "REVIEW"} => row.dispatched
    /\ row.retry_safe => row.status = "FAILED"
    /\ row.supersedes # 0 => row.supersedes \in SentRows(deliveries)
    /\ InMailbox(i) => MayBeSent(i)

\* A row without a label was inserted before anything older was sent, and
\* nothing older will be.
Labelled ==
    \A i, j \in DOMAIN deliveries :
        deliveries[i].supersedes = 0 /\ deliveries[j].snapshot[1] < deliveries[i].snapshot[1]
            => ~MayBeSent(j)

\* What a run knows at each point of its way.
RunKnows(r) ==
    LET i == run[r].row IN
    /\ run[r].pc \in {"reserve", "read"} =>
         run[r].snapshot \in Snapshots /\ run[r].snapshot[1] <= current[1]
    /\ run[r].pc \in {"claim", "recheck", "dispatch", "send", "finalize"} =>
         i \in DOMAIN deliveries /\ Unsaid(i)
    /\ run[r].pc \in {"recheck", "dispatch"} /\ Claims(r) => ~deliveries[i].dispatched
    /\ run[r].pc = "send" =>
         /\ deliveries[i].dispatched
         /\ Claims(r) \/ deliveries[i].status = "REVIEW"
         /\ ~InMailbox(i)
         /\ \A k \in DOMAIN mailbox : Mailed(k).snapshot[1] <= deliveries[i].snapshot[1]
    /\ run[r].pc = "finalize" => run[r].end # "NONE"
    /\ run[r].pc = "finalize" /\ Claims(r) =>
         IF run[r].end \in {"SENT", "REVIEW"} THEN deliveries[i].dispatched ELSE ~InMailbox(i)

OneAtProvider ==
    \A q, r \in Runs : run[q].pc = "send" /\ run[r].pc = "send" => q = r

AnnualInv ==
    /\ AnnualTypeOK
    /\ \A i \in DOMAIN deliveries : RowKnows(i)
    /\ Labelled
    /\ \A r \in Runs : RunKnows(r)
    /\ OneAtProvider
    /\ StatementsAddUp

-----------------------------------------------------------------------------
(* Sets of numbers and the table.                                          *)

\* A nonempty set of natural numbers has a least element.
LEMMA NatMin ==
    ASSUME NEW T, T \subseteq Nat, T # {}
    PROVE  \E n \in T : \A m \in T : n <= m
<1>1. PICK x \in T : \A y \in T : ~ (<<y, x>> \in OpToRel(<, Nat))
  BY WFMin, NatLessThanWellFounded
<1>2. ASSUME NEW y \in T
      PROVE  x <= y
  <2>1. x \in Nat /\ y \in Nat
    OBVIOUS
  <2>2. ~ (<<y, x>> \in OpToRel(<, Nat))
    BY <1>1
  <2>3. <<y, x>> \in Nat \X Nat /\ <<y, x>>[1] = y /\ <<y, x>>[2] = x
    BY <2>1
  <2>4. ~ (<<y, x>>[1] < <<y, x>>[2])
    BY <2>2, <2>3, Zenon DEF OpToRel
  <2> QED BY <2>1, <2>3, <2>4
<1> QED BY <1>2

\* Latest is the highest of a set of revisions, and 0 only if there is none.
LEMMA LatestIsHighest ==
    ASSUME NEW n \in Nat, NEW S, S \subseteq 1..n
    PROVE  /\ Latest(S) \in S \cup {0}
           /\ Latest(S) = 0 => S = {}
<1>1. \E k \in S \cup {0} : \A m \in S : m <= k
  <2>1. CASE S = {}
    BY <2>1
  <2>2. CASE S # {}
    <3> DEFINE T == {n - m : m \in S}
    <3>1. T \subseteq Nat /\ T # {}
      <4>1. \A m \in S : n - m \in Nat
        OBVIOUS
      <4>2. PICK x : x \in S
        BY <2>2
      <4> QED BY <4>1, <4>2
    <3>2. PICK d \in T : \A e \in T : d <= e
      BY <3>1, NatMin
    <3>3. PICK k \in S : d = n - k
      BY <3>2
    <3>4. \A m \in S : n - k <= n - m
      BY <3>2, <3>3
    <3>5. \A m \in S : m <= k
      BY <3>4
    <3> QED BY <3>5
  <2> QED BY <2>1, <2>2
<1>2. Latest(S) \in S \cup {0} /\ \A m \in S : m <= Latest(S)
  BY <1>1 DEF Latest
<1>3. Latest(S) = 0 => S = {}
  BY <1>2
<1> QED BY <1>2, <1>3

\* The columns of a row.
LEMMA RowColumns ==
    ASSUME NEW row \in StatementRow
    PROVE  /\ row.snapshot \in Snapshots /\ row.supersedes \in Nat
           /\ row.status \in {"PENDING", "PROCESSING", "SENT", "FAILED", "REVIEW"}
           /\ row.claim \in Runs \cup {None}
           /\ row.dispatched \in BOOLEAN /\ row.retry_safe \in BOOLEAN
BY DEF StatementRow, Status

\* The table and the mailbox as functions of their positions.
LEMMA TableFacts ==
    ASSUME AnnualTypeOK
    PROVE  /\ Len(deliveries) \in Nat /\ DOMAIN deliveries = 1..Len(deliveries)
           /\ \A i \in DOMAIN deliveries : deliveries[i] \in StatementRow
           /\ Len(mailbox) \in Nat /\ DOMAIN mailbox = 1..Len(mailbox)
           /\ \A k \in DOMAIN mailbox : mailbox[k] \in DOMAIN deliveries
<1>1. deliveries \in Seq(StatementRow) /\ mailbox \in Seq(DOMAIN deliveries)
  BY DEF AnnualTypeOK
<1>2. /\ Len(deliveries) \in Nat /\ DOMAIN deliveries = 1..Len(deliveries)
      /\ \A i \in DOMAIN deliveries : deliveries[i] \in StatementRow
  BY <1>1, LenProperties, ElementOfSeq
<1> DEFINE D == DOMAIN deliveries
<1>3. mailbox \in Seq(D)
  BY <1>1
<1> HIDE DEF D
<1>4. /\ Len(mailbox) \in Nat /\ DOMAIN mailbox = 1..Len(mailbox)
      /\ \A k \in DOMAIN mailbox : mailbox[k] \in D
  BY <1>3, LenProperties, ElementOfSeq
<1> QED BY <1>2, <1>4 DEF D

\* One row of the table replaced.
LEMMA OneRow ==
    ASSUME AnnualTypeOK, NEW i \in DOMAIN deliveries, NEW row \in StatementRow,
           NEW table, table = [deliveries EXCEPT ![i] = row]
    PROVE  /\ table \in Seq(StatementRow)
           /\ DOMAIN table = DOMAIN deliveries
           /\ table[i] = row
           /\ \A j \in DOMAIN deliveries \ {i} : table[j] = deliveries[j]
<1>1. deliveries \in Seq(StatementRow) /\ i \in 1..Len(deliveries) /\ DOMAIN deliveries = 1..Len(deliveries)
  BY TableFacts DEF AnnualTypeOK
<1>2. /\ table \in Seq(StatementRow) /\ Len(table) = Len(deliveries)
      /\ \A j \in 1..Len(deliveries) : table[j] = IF j = i THEN row ELSE deliveries[j]
  BY <1>1, ExceptSeq
<1>3. DOMAIN table = 1..Len(table)
  BY <1>2, LenProperties
<1> QED BY <1>1, <1>2, <1>3

\* What was said stays said while the mailbox and the contents of the rows stay.
LEMMA UnsaidStays ==
    ASSUME AnnualTypeOK, UNCHANGED mailbox, NEW i \in DOMAIN deliveries,
           \A j \in DOMAIN deliveries :
              /\ deliveries'[j].snapshot = deliveries[j].snapshot
              /\ deliveries'[j].supersedes = deliveries[j].supersedes
    PROVE  Unsaid(i)' <=> Unsaid(i)
<1>1. \A k \in DOMAIN mailbox : mailbox[k] \in DOMAIN deliveries
  BY TableFacts
<1> QED BY <1>1 DEF Unsaid, Mailed

\* The same for all that was mailed, when what was SENT stays so.
LEMMA MailStays ==
    ASSUME AnnualTypeOK, StatementsAddUp, UNCHANGED mailbox,
           \A j \in DOMAIN deliveries :
              /\ deliveries'[j].snapshot = deliveries[j].snapshot
              /\ deliveries'[j].supersedes = deliveries[j].supersedes
              /\ deliveries[j].status = "SENT" => deliveries'[j].status = "SENT"
    PROVE  StatementsAddUp'
<1>1. \A k \in DOMAIN mailbox : mailbox[k] \in DOMAIN deliveries
  BY TableFacts
<1>2. \A k \in DOMAIN mailbox :
         /\ Mailed(k)'.snapshot = Mailed(k).snapshot
         /\ Mailed(k)'.supersedes = Mailed(k).supersedes
         /\ Mailed(k).status = "SENT" => Mailed(k)'.status = "SENT"
  BY <1>1 DEF Mailed
<1> QED BY <1>2 DEF StatementsAddUp, CorrectionsAreNews

\* What the three statements of a reservation do to each row.
LEMMA ReserveRows ==
    ASSUME AnnualInv, NEW s \in Snapshots, NEW old,
           NEW table, table = reserveStripeAnnualStatementDelivery(s, old)
    PROVE  /\ table \in Seq(StatementRow)
           /\ DOMAIN deliveries \subseteq DOMAIN table
           /\ \A i \in DOMAIN deliveries :
                \/ table[i] = deliveries[i]
                \/ /\ table[i] = Drop(deliveries[i])
                   /\ NotDispatched(deliveries[i]) \/ deliveries[i].retry_safe
           /\ \A i \in DOMAIN table \ DOMAIN deliveries :
                /\ table[i].snapshot = s
                /\ table[i].status = "PENDING" /\ table[i].claim = None
                /\ ~table[i].dispatched /\ ~table[i].retry_safe
                /\ table[i].supersedes \in SentRows(deliveries) \cup {0}
                /\ table[i].supersedes = 0 => SentRows(deliveries) = {}
                /\ \A j \in DOMAIN table \ {i} : ~Open(table[j])
<1> DEFINE R1 == SupersedeStale(deliveries, s, old)
           R == SuppressDuplicates(R1, s)
           n == Len(deliveries)
<1>1. /\ n \in Nat /\ DOMAIN deliveries = 1..n
      /\ \A i \in 1..n : deliveries[i] \in StatementRow /\ Drop(deliveries[i]) \in StatementRow
  <2>1. \A row \in StatementRow : Drop(row) \in StatementRow
    BY DEF Drop, StatementRow, Status
  <2>2. /\ n \in Nat /\ DOMAIN deliveries = 1..n
        /\ \A i \in 1..n : deliveries[i] \in StatementRow
    BY TableFacts DEF AnnualInv
  <2> QED BY <2>1, <2>2
<1>2. /\ R1 \in [1..n -> StatementRow]
      /\ \A i \in 1..n :
           \/ R1[i] = deliveries[i]
           \/ R1[i] = Drop(deliveries[i]) /\ NotDispatched(deliveries[i])
  BY <1>1 DEF SupersedeStale
<1>3. \A i \in 1..n : Drop(Drop(deliveries[i])) = Drop(deliveries[i])
  BY <1>1 DEF Drop, StatementRow
<1>4. \A i \in 1..n : ~NotDispatched(Drop(deliveries[i])) /\ ~Drop(deliveries[i]).retry_safe
  BY <1>1 DEF Drop, StatementRow, NotDispatched
<1> HIDE DEF R1
<1>5. /\ R \in [1..n -> StatementRow]
      /\ \A i \in 1..n :
           \/ R[i] = deliveries[i]
           \/ /\ R[i] = Drop(deliveries[i])
              /\ NotDispatched(deliveries[i]) \/ deliveries[i].retry_safe
  <2>1. DOMAIN R1 = 1..n
    BY <1>2
  <2>2. \A i \in DOMAIN R1 :
           R[i] = R1[i] \/ (R[i] = Drop(R1[i]) /\ (NotDispatched(R1[i]) \/ R1[i].retry_safe))
    BY DEF SuppressDuplicates
  <2>3. DOMAIN R = DOMAIN R1 /\ R = [i \in DOMAIN R |-> R[i]]
    BY DEF SuppressDuplicates
  <2> HIDE DEF R
  <2>4. \A i \in 1..n :
           \/ R[i] = deliveries[i]
           \/ /\ R[i] = Drop(deliveries[i])
              /\ NotDispatched(deliveries[i]) \/ deliveries[i].retry_safe
    BY <2>1, <2>2, <1>2, <1>3, <1>4
  <2>5. \A i \in 1..n : R[i] \in StatementRow
    BY <2>4, <1>1
  <2> QED BY <2>1, <2>3, <2>4, <2>5
<1> HIDE DEF R
<1>6. R \in Seq(StatementRow) /\ Len(R) = n /\ DOMAIN R = 1..n
  <2>1. R \in Seq(StatementRow)
    BY <1>1, <1>5, SeqDef
  <2> QED BY <2>1, <1>1, <1>5, LenProperties
<1>7. SentRows(R) = SentRows(deliveries)
  <2>1. \A i \in 1..n : NotDispatched(deliveries[i]) \/ deliveries[i].retry_safe
                          => deliveries[i].status # "SENT"
    BY <1>1 DEF AnnualInv, RowKnows, NotDispatched
  <2>2. \A i \in 1..n : Drop(deliveries[i]).status = "FAILED"
    BY <1>1 DEF Drop, StatementRow
  <2>3. \A i \in 1..n : R[i].status = "SENT" <=> deliveries[i].status = "SENT"
    BY <1>5, <2>1, <2>2
  <2> QED BY <1>1, <1>6, <2>3 DEF SentRows
<1>8. CASE ~Inserts(R, s)
  <2>1. table = R
    BY <1>8 DEF reserveStripeAnnualStatementDelivery, R, R1
  <2> QED BY <2>1, <1>1, <1>5, <1>6
<1>9. CASE Inserts(R, s)
  <2> DEFINE new == NewRow(R, s)
  <2>1. table = Append(R, new)
    BY <1>9 DEF reserveStripeAnnualStatementDelivery, R, R1
  <2>2. /\ Latest(SentRows(R)) \in SentRows(deliveries) \cup {0}
        /\ Latest(SentRows(R)) = 0 => SentRows(deliveries) = {}
    <3>1. SentRows(deliveries) \subseteq 1..n
      BY <1>1 DEF SentRows
    <3> QED BY <3>1, <1>1, <1>7, LatestIsHighest
  <2>3. SentRows(deliveries) \cup {0} \subseteq Nat
    BY <1>1 DEF SentRows
  <2>4. /\ new \in StatementRow /\ new.snapshot = s
        /\ new.status = "PENDING" /\ new.claim = None /\ ~new.dispatched /\ ~new.retry_safe
        /\ new.supersedes = Latest(SentRows(R))
    BY <2>2, <2>3 DEF NewRow, StatementRow, Status
  <2> HIDE DEF new
  <2>5. /\ table \in Seq(StatementRow) /\ Len(table) = n + 1
        /\ \A i \in 1..n : table[i] = R[i]
        /\ table[n + 1] = new
    BY <2>1, <2>4, <1>6, AppendProperties
  <2>6. DOMAIN table = 1..(n + 1)
    BY <2>5, LenProperties
  <2>7. \A i \in 1..n : ~Open(table[i])
    BY <1>6, <1>9, <2>5 DEF Inserts, Fenced
  <2>8. DOMAIN table \ DOMAIN deliveries = {n + 1} /\ DOMAIN table \ {n + 1} = 1..n
    BY <1>1, <2>6
  <2> QED BY <1>1, <1>5, <2>2, <2>4, <2>5, <2>6, <2>7, <2>8
<1> QED BY <1>8, <1>9

\* What the three ways of going on do to the runs.
LEMMA RunSteps ==
    ASSUME AnnualTypeOK, NEW r \in Runs, NEW pc, NEW end,
           pc \in {"idle", "reserve", "read", "claim", "recheck", "dispatch", "send", "finalize"},
           end \in {"NONE", "SENT", "RETRY", "FAILED", "REVIEW"}
    PROVE  /\ GoesTo(r, pc) =>
                /\ run' \in [Runs -> Run]
                /\ run'[r].pc = pc /\ run'[r].snapshot = run[r].snapshot
                /\ run'[r].row = run[r].row /\ run'[r].end = run[r].end
                /\ \A q \in Runs \ {r} : run'[q] = run[q]
           /\ End(r, end) =>
                /\ run' \in [Runs -> Run]
                /\ run'[r].pc = "finalize" /\ run'[r].row = run[r].row /\ run'[r].end = end
                /\ \A q \in Runs \ {r} : run'[q] = run[q]
           /\ Stop(r) =>
                /\ run' \in [Runs -> Run]
                /\ run'[r].pc = "idle"
                /\ \A q \in Runs \ {r} : run'[q] = run[q]
<1>1. GoesTo(r, pc) =>
        /\ run' \in [Runs -> Run]
        /\ run'[r].pc = pc /\ run'[r].snapshot = run[r].snapshot
        /\ run'[r].row = run[r].row /\ run'[r].end = run[r].end
        /\ \A q \in Runs \ {r} : run'[q] = run[q]
  BY DEF AnnualTypeOK, Run, GoesTo
<1>2. End(r, end) =>
        /\ run' \in [Runs -> Run]
        /\ run'[r].pc = "finalize" /\ run'[r].row = run[r].row /\ run'[r].end = end
        /\ \A q \in Runs \ {r} : run'[q] = run[q]
  <2> DEFINE first == [run EXCEPT ![r].pc = "finalize"]
  <2>1. /\ first \in [Runs -> Run]
        /\ first[r].pc = "finalize" /\ first[r].row = run[r].row
        /\ \A q \in Runs \ {r} : first[q] = run[q]
    BY DEF AnnualTypeOK, Run
  <2>2. End(r, end) => run' = [first EXCEPT ![r].end = end]
    BY DEF End
  <2> HIDE DEF first
  <2> QED BY <2>1, <2>2 DEF Run
<1>3. Stop(r) =>
        /\ run' \in [Runs -> Run]
        /\ run'[r].pc = "idle"
        /\ \A q \in Runs \ {r} : run'[q] = run[q]
  BY DEF AnnualTypeOK, Run, Stop, Idle
<1> QED BY <1>1, <1>2, <1>3

\* A step of one run that leaves the table and the mailbox alone.
LEMMA RunOnly ==
    ASSUME AnnualInv, NEW r \in Runs, UNCHANGED <<current, deliveries, mailbox>>,
           run' \in [Runs -> Run], \A q \in Runs \ {r} : run'[q] = run[q],
           run'[r].pc # "send", RunKnows(r)'
    PROVE  AnnualInv'
<1>1. AnnualTypeOK'
  BY DEF AnnualInv, AnnualTypeOK, OneOpen
<1>2. \A i \in DOMAIN deliveries' : RowKnows(i)'
  BY DEF AnnualInv, RowKnows, InMailbox, MayBeSent
<1>3. Labelled'
  BY DEF AnnualInv, Labelled, MayBeSent
<1>4. ASSUME NEW q \in Runs PROVE RunKnows(q)'
  BY <1>4 DEF AnnualInv, RunKnows, Claims, InMailbox, Unsaid, Mailed
<1>5. OneAtProvider'
  BY DEF AnnualInv, OneAtProvider
<1>6. StatementsAddUp'
  BY DEF AnnualInv, StatementsAddUp, CorrectionsAreNews, Mailed
<1> QED BY <1>1, <1>2, <1>3, <1>4, <1>5, <1>6 DEF AnnualInv

LEMMA SnapshotKeeps ==
    ASSUME AnnualInv, NEW r \in Runs, Snapshot(r)
    PROVE  AnnualInv'
<1>1. PICK b \in Settings :
        /\ run' = [run EXCEPT ![r] = [Idle EXCEPT !.pc = "reserve", !.snapshot = <<current[1], b>>]]
        /\ UNCHANGED <<current, deliveries, mailbox>>
  BY DEF Snapshot
<1> DEFINE s == <<current[1], b>>
           new == [Idle EXCEPT !.pc = "reserve", !.snapshot = s]
<1>2. s \in Snapshots /\ s[1] <= current[1]
  BY DEF AnnualInv, AnnualTypeOK, Snapshots, Facts
<1> HIDE DEF s
<1>3. /\ new \in Run
      /\ new.pc = "reserve" /\ new.snapshot = s
  BY <1>2 DEF Idle, Run
<1>4. run' = [run EXCEPT ![r] = new]
  BY <1>1 DEF s
<1> HIDE DEF new
<1>5. /\ run' \in [Runs -> Run]
      /\ run'[r] = new
      /\ \A q \in Runs \ {r} : run'[q] = run[q]
  BY <1>3, <1>4 DEF AnnualInv, AnnualTypeOK
<1>6. RunKnows(r)'
  BY <1>1, <1>2, <1>3, <1>5 DEF RunKnows
<1> QED BY <1>1, <1>3, <1>5, <1>6, RunOnly

LEMMA ReadReservedKeeps ==
    ASSUME AnnualInv, NEW r \in Runs, ReadReserved(r)
    PROVE  AnnualInv'
<1> DEFINE s == run[r].snapshot
<1>0. PICK n : n = Len(deliveries)
  OBVIOUS
<1>1. /\ run[r].pc = "read" /\ UNCHANGED <<current, deliveries, mailbox>>
      /\ IF ReservedToSend(s)
         THEN run' = [run EXCEPT ![r].pc = "claim", ![r].row = n]
         ELSE Stop(r)
  BY <1>0 DEF ReadReserved, RunAt
<1>2. CASE ~ReservedToSend(s)
  <2>1. /\ run' \in [Runs -> Run] /\ run'[r].pc = "idle"
        /\ \A q \in Runs \ {r} : run'[q] = run[q]
    BY <1>1, <1>2, RunSteps DEF AnnualInv
  <2>2. RunKnows(r)'
    BY <2>1 DEF RunKnows
  <2> QED BY <1>1, <2>1, <2>2, RunOnly
<1>3. CASE ReservedToSend(s)
  <2>1. /\ n \in DOMAIN deliveries /\ deliveries[n].snapshot = s
        /\ \A i \in SentRows(deliveries) : deliveries[i].snapshot # s
    <3>1. deliveries # <<>> /\ deliveries \in Seq(StatementRow)
      BY <1>3 DEF ReservedToSend, AnnualInv, AnnualTypeOK
    <3>2. n \in 1..n /\ DOMAIN deliveries = 1..n
      BY <1>0, <3>1, EmptySeq, LenProperties
    <3> QED BY <1>0, <1>3, <3>2 DEF ReservedToSend
  <2>2. n \in Nat
    BY <1>0, TableFacts DEF AnnualInv
  <2>3. run' = [run EXCEPT ![r].pc = "claim", ![r].row = n]
    BY <1>1, <1>3
  <2>4. /\ run' \in [Runs -> Run] /\ run'[r].pc = "claim" /\ run'[r].row = n
        /\ \A q \in Runs \ {r} : run'[q] = run[q]
    <3> DEFINE first == [run EXCEPT ![r].pc = "claim"]
    <3>1. /\ first \in [Runs -> Run] /\ first[r].pc = "claim"
          /\ \A q \in Runs \ {r} : first[q] = run[q]
      BY DEF AnnualInv, AnnualTypeOK, Run
    <3>2. run' = [first EXCEPT ![r].row = n]
      BY <2>3
    <3> HIDE DEF first
    <3> QED BY <2>2, <3>1, <3>2 DEF Run
  <2>5. ASSUME NEW p \in DOMAIN mailbox, NEW q \in DOMAIN mailbox,
               p <= q, mailbox[q] = deliveries[n].supersedes
        PROVE  Mailed(p).snapshot # s
    <3>1. mailbox[p] \in DOMAIN deliveries /\ mailbox[q] \in DOMAIN deliveries /\ mailbox[q] # 0
      BY TableFacts DEF AnnualInv
    <3>2. mailbox[q] \in SentRows(deliveries)
      BY <2>1, <2>5, <3>1 DEF AnnualInv, RowKnows
    <3>3. p = q \/ p < q
      BY <2>5, TableFacts DEF AnnualInv
    <3>4. mailbox[p] \in SentRows(deliveries)
      BY <3>1, <3>2, <3>3 DEF AnnualInv, StatementsAddUp, Mailed, SentRows
    <3> QED BY <2>1, <3>4 DEF Mailed
  <2>6. Unsaid(n)
    BY <2>1, <2>5 DEF Unsaid
  <2>7. RunKnows(r)'
    <3>1. Unsaid(n)'
      BY <1>1, <2>6 DEF Unsaid, Mailed
    <3> QED BY <1>1, <2>1, <2>4, <3>1 DEF RunKnows
  <2> QED BY <1>1, <2>4, <2>7, RunOnly
<1> QED BY <1>2, <1>3

LEMMA RecheckKeeps ==
    ASSUME AnnualInv, NEW r \in Runs, Recheck(r)
    PROVE  AnnualInv'
<1>1. /\ run[r].pc = "recheck" /\ UNCHANGED <<current, deliveries, mailbox>>
      /\ GoesTo(r, "dispatch") \/ End(r, "RETRY")
  BY DEF Recheck, RunAt
<1>2. /\ run' \in [Runs -> Run]
      /\ run'[r].row = run[r].row
      /\ run'[r].pc = "dispatch" \/ (run'[r].pc = "finalize" /\ run'[r].end = "RETRY")
      /\ \A q \in Runs \ {r} : run'[q] = run[q]
  BY <1>1, RunSteps DEF AnnualInv
<1>3. RunKnows(r) /\ (run[r].row \in DOMAIN deliveries => RowKnows(run[r].row))
  BY DEF AnnualInv
<1>4. RunKnows(r)'
  BY <1>1, <1>2, <1>3 DEF RunKnows, RowKnows, Claims, InMailbox, MayBeSent, Unsaid, Mailed
<1> QED BY <1>1, <1>2, <1>4, RunOnly

LEMMA CrashKeeps ==
    ASSUME AnnualInv, NEW r \in Runs, RunDies(r)
    PROVE  AnnualInv'
<1>1. Stop(r) /\ UNCHANGED <<current, deliveries, mailbox>>
  BY DEF RunDies
<1>2. /\ run' \in [Runs -> Run]
      /\ run'[r].pc = "idle"
      /\ \A q \in Runs \ {r} : run'[q] = run[q]
  BY <1>1, RunSteps DEF AnnualInv
<1>3. RunKnows(r)'
  BY <1>2 DEF RunKnows
<1> QED BY <1>1, <1>2, <1>3, RunOnly

LEMMA ChangeKeeps ==
    ASSUME AnnualInv, Change
    PROVE  AnnualInv'
<1>1. /\ UNCHANGED <<deliveries, run, mailbox>>
      /\ current' \in Snapshots /\ current \in Snapshots
      /\ current[1] <= current'[1]
  BY DEF AnnualInv, AnnualTypeOK, Change, Snapshots, Facts
<1>2. AnnualTypeOK'
  BY <1>1 DEF AnnualInv, AnnualTypeOK, OneOpen
<1>3. \A s \in Snapshots : s[1] <= current[1] => s[1] <= current'[1]
  BY <1>1 DEF Snapshots, Facts
<1>4. ASSUME NEW i \in DOMAIN deliveries' PROVE RowKnows(i)'
  <2>1. RowKnows(i) /\ deliveries[i].snapshot \in Snapshots
    BY <1>1, TableFacts, RowColumns DEF AnnualInv
  <2> QED BY <1>1, <1>3, <2>1 DEF RowKnows, InMailbox, MayBeSent
<1>5. Labelled' /\ OneAtProvider' /\ StatementsAddUp'
  BY <1>1 DEF AnnualInv, Labelled, MayBeSent, OneAtProvider, StatementsAddUp,
              CorrectionsAreNews, Mailed
<1>6. ASSUME NEW q \in Runs PROVE RunKnows(q)'
  BY <1>1, <1>3 DEF AnnualInv, RunKnows, Claims, InMailbox, Unsaid, Mailed
<1> QED BY <1>2, <1>4, <1>5, <1>6 DEF AnnualInv

LEMMA SendKeeps ==
    ASSUME AnnualInv, NEW r \in Runs, Send(r)
    PROVE  AnnualInv'
<1>0. PICK i : i = run[r].row
  OBVIOUS
<1>1. /\ run[r].pc = "send" /\ UNCHANGED <<current, deliveries>>
      /\ \/ /\ mailbox' = Append(mailbox, i)
            /\ \E end \in {"SENT", "REVIEW"} : End(r, end)
         \/ /\ UNCHANGED mailbox
            /\ \E end \in {"RETRY", "FAILED", "REVIEW"} : End(r, end)
  BY <1>0 DEF Send, RunAt
<1>2. RunKnows(r)
  BY DEF AnnualInv
<1>3. /\ i \in DOMAIN deliveries /\ deliveries[i].dispatched /\ Unsaid(i)
      /\ Claims(r) \/ deliveries[i].status = "REVIEW"
      /\ ~InMailbox(i)
      /\ \A k \in DOMAIN mailbox : Mailed(k).snapshot[1] <= deliveries[i].snapshot[1]
  BY <1>0, <1>1, <1>2 DEF RunKnows
<1>4. CASE /\ UNCHANGED mailbox
           /\ \E end \in {"RETRY", "FAILED", "REVIEW"} : End(r, end)
  <2>1. PICK end \in {"RETRY", "FAILED", "REVIEW"} : End(r, end)
    BY <1>4
  <2>2. /\ run' \in [Runs -> Run]
        /\ run'[r].row = i /\ run'[r].pc = "finalize" /\ run'[r].end = end
        /\ \A q \in Runs \ {r} : run'[q] = run[q]
    BY <1>0, <2>1, RunSteps DEF AnnualInv
  <2>3. Unsaid(i)'
    BY <1>1, <1>3, <1>4 DEF Unsaid, Mailed
  <2>4. RunKnows(r)'
    BY <1>1, <1>3, <1>4, <2>1, <2>2, <2>3 DEF RunKnows, InMailbox
  <2> QED BY <1>1, <1>4, <2>2, <2>4, RunOnly
<1>5. CASE /\ mailbox' = Append(mailbox, i)
           /\ \E end \in {"SENT", "REVIEW"} : End(r, end)
  <2>1. PICK end \in {"SENT", "REVIEW"} : End(r, end)
    BY <1>5
  <2>2. /\ run' \in [Runs -> Run]
        /\ run'[r].row = i /\ run'[r].pc = "finalize" /\ run'[r].end = end
        /\ \A q \in Runs \ {r} : run'[q] = run[q]
    BY <1>0, <2>1, RunSteps DEF AnnualInv
  <2>3. PICK n : n = Len(mailbox)
    OBVIOUS
  <2>4. PICK D : D = DOMAIN deliveries
    OBVIOUS
  <2>5. /\ mailbox \in Seq(D) /\ n \in Nat
        /\ DOMAIN mailbox = 1..n
        /\ \A k \in 1..n : mailbox[k] \in D
    BY <2>3, <2>4, TableFacts DEF AnnualInv, AnnualTypeOK
  <2>6. /\ mailbox' \in Seq(D)
        /\ DOMAIN mailbox' = 1..(n + 1)
        /\ \A k \in 1..n : mailbox'[k] = mailbox[k]
        /\ mailbox'[n + 1] = i
    BY <1>3, <1>5, <2>3, <2>4, <2>5, AppendProperties, LenProperties
  <2>7. \A j : InMailbox(j)' <=> InMailbox(j) \/ j = i
    BY <2>5, <2>6 DEF InMailbox
  <2>8. AnnualTypeOK'
    BY <1>1, <2>2, <2>4, <2>6 DEF AnnualInv, AnnualTypeOK, OneOpen
  <2>9. Open(deliveries[i]) /\ deliveries[i].status # "SENT"
    BY <1>0, <1>3 DEF Open, Claims
  <2>10. MayBeSent(i)
    BY <1>0, <1>3 DEF MayBeSent, Claims
  <2>11. ASSUME NEW j \in DOMAIN deliveries' PROVE RowKnows(j)'
    <3>1. RowKnows(j)
      BY <1>1 DEF AnnualInv
    <3>2. MayBeSent(j)' <=> MayBeSent(j)
      BY <1>1 DEF MayBeSent
    <3> QED BY <1>1, <2>7, <2>10, <3>1, <3>2 DEF RowKnows
  <2>12. Labelled'
    BY <1>1 DEF AnnualInv, Labelled, MayBeSent
  <2>13. /\ \A k \in 1..n : Mailed(k)' = Mailed(k) /\ mailbox'[k] # i
         /\ Mailed(n + 1)' = deliveries[i]
    BY <1>1, <1>3, <2>5, <2>6 DEF Mailed, InMailbox
  <2>14. \A k \in 1..n : Mailed(k).status = "SENT"
    <3> TAKE k \in 1..n
    <3>1. mailbox[k] \in DOMAIN deliveries /\ InMailbox(mailbox[k]) /\ mailbox[k] # i
      BY <1>3, <2>4, <2>5 DEF InMailbox
    <3>2. MayBeSent(mailbox[k])
      BY <3>1 DEF AnnualInv, RowKnows
    <3>3. ~Open(Mailed(k))
      BY <1>3, <2>9, <3>1 DEF AnnualInv, AnnualTypeOK, OneOpen, Mailed
    <3> QED BY <3>2, <3>3 DEF MayBeSent, Mailed, Open
  <2>15. ASSUME NEW j \in DOMAIN deliveries, Unsaid(j) PROVE Unsaid(j)'
    <3>1. deliveries[j].supersedes # i
      <4>1. i # 0
        BY <1>3, TableFacts DEF AnnualInv
      <4> QED BY <4>1, <2>9 DEF AnnualInv, RowKnows, SentRows
    <3>2. ASSUME NEW p \in DOMAIN mailbox', NEW q \in DOMAIN mailbox',
                 p <= q, mailbox'[q] = deliveries[j].supersedes
          PROVE  Mailed(p)'.snapshot # deliveries[j].snapshot
      <4>1. p \in 1..(n + 1) /\ q \in 1..(n + 1) /\ q # n + 1
        BY <2>6, <3>1, <3>2
      <4>2. p \in 1..n /\ q \in 1..n
        BY <4>1, <3>2, <2>5
      <4>3. Mailed(p).snapshot # deliveries[j].snapshot
        BY <2>5, <2>6, <2>15, <3>2, <4>2 DEF Unsaid
      <4> QED BY <2>13, <4>2, <4>3
    <3> QED BY <1>1, <3>2 DEF Unsaid
  <2>16. ASSUME NEW q \in Runs PROVE RunKnows(q)'
    <3>1. CASE q = r
      <4>1. Unsaid(i)'
        BY <1>3, <2>15
      <4> QED BY <1>1, <1>3, <2>1, <2>2, <3>1, <4>1 DEF RunKnows
    <3>2. CASE q # r
      <4>0. PICK j : j = run[q].row
        OBVIOUS
      <4>1. run'[q] = run[q] /\ run[q].pc # "send" /\ RunKnows(q)
        BY <1>1, <2>2, <3>2 DEF AnnualInv, OneAtProvider
      <4>2. Claims(q)' <=> Claims(q)
        BY <1>1, <4>1 DEF Claims
      <4>3. Claims(q) => j # i
        BY <1>0, <1>3, <3>2, <4>0 DEF Claims
      <4>4. j \in DOMAIN deliveries /\ Unsaid(j) => Unsaid(j)'
        BY <2>15
      <4>5. InMailbox(j)' <=> InMailbox(j) \/ j = i
        BY <2>7
      <4> QED BY <1>1, <4>0, <4>1, <4>2, <4>3, <4>4, <4>5 DEF RunKnows
    <3> QED BY <3>1, <3>2
  <2>17. OneAtProvider'
    BY <2>2 DEF AnnualInv, OneAtProvider
  <2>18. ASSUME NEW k \in DOMAIN mailbox', NEW m \in DOMAIN mailbox', k < m
         PROVE  /\ mailbox'[k] # mailbox'[m]
                /\ Mailed(k)'.status = "SENT"
                /\ Mailed(k)'.snapshot[1] <= Mailed(m)'.snapshot[1]
                /\ Mailed(k)'.snapshot[1] < Mailed(m)'.snapshot[1] => Mailed(m)'.supersedes # 0
    <3>1. k \in 1..n /\ (m \in 1..n \/ m = n + 1)
      BY <2>5, <2>6, <2>18
    <3>2. CASE m \in 1..n
      BY <2>5, <2>6, <2>13, <2>18, <3>1, <3>2 DEF AnnualInv, StatementsAddUp
    <3>3. CASE m = n + 1
      <4>1. /\ Mailed(k)' = Mailed(k) /\ mailbox'[k] # mailbox'[m]
            /\ Mailed(m)' = deliveries[i]
        BY <2>6, <2>13, <3>1, <3>3
      <4>2. mailbox[k] \in DOMAIN deliveries /\ MayBeSent(mailbox[k])
        <5>1. mailbox[k] \in DOMAIN deliveries /\ InMailbox(mailbox[k])
          BY <2>4, <2>5, <3>1 DEF InMailbox
        <5> QED BY <5>1 DEF AnnualInv, RowKnows
      <4>3. Mailed(k).snapshot[1] < deliveries[i].snapshot[1] => deliveries[i].supersedes # 0
        BY <1>3, <4>2 DEF AnnualInv, Labelled, Mailed
      <4>4. Mailed(k).snapshot[1] <= deliveries[i].snapshot[1]
        BY <1>3, <2>5, <3>1
      <4> QED BY <2>14, <3>1, <4>1, <4>3, <4>4
    <3> QED BY <3>1, <3>2, <3>3
  <2>19. CorrectionsAreNews'
    <3>1. ASSUME NEW k \in DOMAIN mailbox', NEW j, j = mailbox'[k]
          PROVE  Unsaid(j)'
      <4>1. k \in 1..n \/ k = n + 1
        BY <2>5, <2>6
      <4>2. CASE k \in 1..n
        <5>1. j = mailbox[k] /\ j \in DOMAIN deliveries
          BY <2>4, <2>5, <2>6, <3>1, <4>2
        <5>2. Unsaid(j)
          BY <2>5, <4>2, <5>1 DEF AnnualInv, StatementsAddUp, CorrectionsAreNews, Unsaid, Mailed
        <5> QED BY <2>15, <5>1, <5>2
      <4>3. CASE k = n + 1
        BY <1>3, <2>6, <2>15, <3>1, <4>3
      <4> QED BY <4>1, <4>2, <4>3
    <3>2. \A k \in DOMAIN mailbox' : \A j : j = mailbox'[k] => Unsaid(j)'
      BY <3>1
    <3> QED BY <3>2 DEF CorrectionsAreNews, Unsaid, Mailed
  <2>20. StatementsAddUp'
    BY <2>18, <2>19 DEF StatementsAddUp
  <2> QED BY <2>8, <2>11, <2>12, <2>16, <2>17, <2>20 DEF AnnualInv
<1> QED BY <1>1, <1>4, <1>5

LEMMA ReserveKeeps ==
    ASSUME AnnualInv, NEW r \in Runs, Reserve(r)
    PROVE  AnnualInv'
<1>0. PICK s : s = run[r].snapshot
  OBVIOUS
<1>1. PICK old \in SUBSET {i \in DOMAIN deliveries : Open(deliveries[i])} :
        /\ run[r].pc = "reserve" /\ UNCHANGED <<current, mailbox>>
        /\ deliveries' = reserveStripeAnnualStatementDelivery(s, old)
        /\ GoesTo(r, "read")
  BY <1>0 DEF Reserve, RunAt
<1>2. s \in Snapshots /\ s[1] <= current[1]
  BY <1>0, <1>1 DEF AnnualInv, RunKnows
<1>3. /\ run' \in [Runs -> Run]
      /\ run'[r].pc = "read" /\ run'[r].snapshot = s
      /\ \A q \in Runs \ {r} : run'[q] = run[q]
  BY <1>0, <1>1, RunSteps DEF AnnualInv
<1>4. PICK D : D = DOMAIN deliveries
  OBVIOUS
<1> DEFINE New == DOMAIN deliveries' \ D
           Kept(i) == deliveries'[i] = deliveries[i]
           Dropped(i) == /\ deliveries'[i] = Drop(deliveries[i])
                         /\ NotDispatched(deliveries[i]) \/ deliveries[i].retry_safe
           Inserted(i) == /\ deliveries'[i].snapshot = s
                          /\ deliveries'[i].status = "PENDING" /\ deliveries'[i].claim = None
                          /\ ~deliveries'[i].dispatched /\ ~deliveries'[i].retry_safe
                          /\ deliveries'[i].supersedes \in SentRows(deliveries) \cup {0}
                          /\ deliveries'[i].supersedes = 0 => SentRows(deliveries) = {}
                          /\ \A j \in DOMAIN deliveries' \ {i} : ~Open(deliveries'[j])
<1>5. /\ deliveries' \in Seq(StatementRow)
      /\ D \subseteq DOMAIN deliveries'
      /\ \A i \in D : Kept(i) \/ Dropped(i)
      /\ \A i \in New : Inserted(i)
  BY <1>1, <1>2, <1>4, ReserveRows
<1>6. \A i \in D :
        /\ deliveries[i] \in StatementRow /\ RowKnows(i)
        /\ (deliveries[i].status = "PROCESSING") = (deliveries[i].claim # None)
  BY <1>4, TableFacts DEF AnnualInv, AnnualTypeOK
<1>7. \A i \in D :
        Dropped(i) => /\ deliveries'[i].status = "FAILED" /\ deliveries'[i].claim = None
                      /\ ~deliveries'[i].retry_safe
                      /\ deliveries'[i].supersedes = deliveries[i].supersedes
                      /\ deliveries'[i].snapshot = deliveries[i].snapshot
                      /\ deliveries[i].status \in {"PENDING", "PROCESSING", "FAILED"}
                      /\ deliveries[i].status = "PROCESSING" => ~deliveries[i].dispatched
  BY <1>6 DEF StatementRow, Drop, NotDispatched, RowKnows
<1>8. \A i \in D : /\ deliveries'[i].snapshot = deliveries[i].snapshot
                   /\ deliveries'[i].supersedes = deliveries[i].supersedes
                   /\ deliveries[i].status = "SENT" => deliveries'[i].status = "SENT"
  BY <1>5, <1>7
<1>9. \A i : InMailbox(i)' <=> InMailbox(i)
  BY <1>1 DEF InMailbox
<1>10. \A k \in DOMAIN mailbox : mailbox[k] \in D
  BY <1>4, TableFacts DEF AnnualInv
<1> HIDE DEF Kept, Dropped, Inserted
<1>11. AnnualTypeOK'
  <2>1. \A i \in DOMAIN deliveries' :
          (deliveries'[i].status = "PROCESSING") = (deliveries'[i].claim # None)
    BY <1>5, <1>6, <1>7 DEF Kept, Inserted
  <2>2. ASSUME NEW i \in DOMAIN deliveries', NEW j \in DOMAIN deliveries',
               Open(deliveries'[i]), Open(deliveries'[j])
        PROVE  i = j
    <3>1. CASE i \in New \/ j \in New
      BY <1>5, <2>2, <3>1 DEF Inserted
    <3>2. CASE i \in D /\ j \in D
      <4>1. Kept(i) /\ Kept(j)
        BY <1>5, <1>7, <2>2, <3>2 DEF Open
      <4> QED BY <1>4, <2>2, <3>2, <4>1 DEF AnnualInv, AnnualTypeOK, OneOpen, Kept
    <3> QED BY <3>1, <3>2
  <2>3. mailbox' \in Seq(DOMAIN deliveries')
    <3>1. mailbox \in Seq(D) /\ mailbox' = mailbox
      BY <1>1, <1>4 DEF AnnualInv, AnnualTypeOK
    <3> QED BY <1>5, <3>1, SeqMonotonic, Zenon
  <2> QED BY <1>1, <1>3, <1>5, <2>1, <2>2, <2>3 DEF AnnualInv, AnnualTypeOK, OneOpen
<1>12. \A i \in D : MayBeSent(i)' <=> MayBeSent(i)
  <2> TAKE i \in D
  <2>1. CASE Kept(i)
    BY <2>1 DEF MayBeSent, Kept
  <2>2. CASE Dropped(i)
    BY <2>2, <1>7 DEF MayBeSent
  <2> QED BY <1>5, <2>1, <2>2
<1>13. \A i \in New : ~MayBeSent(i)' /\ ~InMailbox(i)
  BY <1>5, <1>10 DEF MayBeSent, InMailbox, Inserted
<1>14. \A i \in SentRows(deliveries) : i \in SentRows(deliveries')
  BY <1>4, <1>5, <1>8 DEF SentRows
<1>15. ASSUME NEW i \in DOMAIN deliveries' PROVE RowKnows(i)'
  <2>1. CASE i \in New
    <3>1. 0 \notin DOMAIN deliveries
      BY TableFacts DEF AnnualInv
    <3>2. deliveries'[i].supersedes # 0 => deliveries'[i].supersedes \in SentRows(deliveries')
      BY <1>5, <1>14, <2>1 DEF Inserted
    <3> QED BY <1>1, <1>2, <1>5, <1>9, <1>13, <2>1, <3>2 DEF RowKnows, Inserted
  <2>2. CASE i \in D
    <3>1. /\ deliveries'[i].snapshot[1] <= current'[1]
          /\ deliveries'[i].supersedes # 0 => deliveries'[i].supersedes \in SentRows(deliveries')
      BY <1>1, <1>6, <1>8, <1>14, <2>2 DEF RowKnows
    <3>2. InMailbox(i)' => MayBeSent(i)'
      BY <1>6, <1>9, <1>12, <2>2 DEF RowKnows
    <3>3. /\ deliveries'[i].status \in {"SENT", "REVIEW"} => deliveries'[i].dispatched
          /\ deliveries'[i].retry_safe => deliveries'[i].status = "FAILED"
      BY <1>5, <1>6, <1>7, <2>2 DEF RowKnows, Kept
    <3> QED BY <3>1, <3>2, <3>3 DEF RowKnows
  <2> QED BY <2>1, <2>2
<1>16. Labelled'
  <2> SUFFICES ASSUME NEW i \in DOMAIN deliveries', NEW j \in DOMAIN deliveries',
                      deliveries'[i].supersedes = 0,
                      deliveries'[j].snapshot[1] < deliveries'[i].snapshot[1],
                      j \in D
               PROVE  ~MayBeSent(j)'
    BY <1>13 DEF Labelled
  <2>1. CASE i \in New
    <3>1. ~Open(deliveries'[j]) /\ SentRows(deliveries) = {}
      BY <1>5, <2>1 DEF Inserted
    <3>2. deliveries[j].status # "SENT"
      BY <1>4, <3>1 DEF SentRows
    <3>3. deliveries'[j].status # "SENT"
      BY <1>5, <1>7, <3>2 DEF Kept
    <3> QED BY <3>1, <3>3 DEF MayBeSent, Open
  <2>2. CASE i \in D
    <3>1. ~MayBeSent(j)
      BY <1>4, <1>8, <2>2 DEF AnnualInv, Labelled
    <3> QED BY <1>12, <3>1
  <2> QED BY <2>1, <2>2
<1>17. ASSUME NEW q \in Runs PROVE RunKnows(q)'
  <2>1. CASE q = r
    BY <1>1, <1>2, <1>3, <2>1 DEF RunKnows
  <2>2. CASE q # r
    <3>0. PICK i : i = run[q].row
      OBVIOUS
    <3>1. run'[q] = run[q] /\ RunKnows(q)
      BY <1>3, <2>2 DEF AnnualInv
    <3>2. i \in D /\ Unsaid(i) => Unsaid(i)'
      BY <1>1, <1>4, <1>8, UnsaidStays DEF AnnualInv
    <3>3. ASSUME i \in D, Claims(q)' PROVE Claims(q) /\ Kept(i)
      <4>1. deliveries'[i].status = "PROCESSING"
        BY <3>0, <3>1, <3>3 DEF Claims
      <4>2. Kept(i)
        BY <4>1, <1>5, <1>7, <3>3
      <4> QED BY <3>0, <3>1, <3>3, <4>2 DEF Claims, Kept
    <3>4. run[q].pc \in {"claim", "recheck", "dispatch", "send", "finalize"} => i \in D
      BY <1>4, <3>0, <3>1 DEF RunKnows
    <3>5. ASSUME run[q].pc = "send"
          PROVE  /\ deliveries'[i].dispatched
                 /\ Claims(q)' \/ deliveries'[i].status = "REVIEW"
                 /\ ~InMailbox(i)'
                 /\ \A k \in DOMAIN mailbox' : Mailed(k)'.snapshot[1] <= deliveries'[i].snapshot[1]
      <4>1. /\ i \in D /\ deliveries[i].dispatched
            /\ deliveries[i].status \in {"PROCESSING", "REVIEW"}
            /\ Claims(q) \/ deliveries[i].status = "REVIEW"
            /\ ~InMailbox(i)
            /\ \A k \in DOMAIN mailbox : Mailed(k).snapshot[1] <= deliveries[i].snapshot[1]
        BY <1>4, <3>0, <3>1, <3>5 DEF RunKnows, Claims
      <4>2. Kept(i)
        BY <4>1, <1>5, <1>7
      <4>3. \A k \in DOMAIN mailbox : Mailed(k)'.snapshot = Mailed(k).snapshot
        BY <1>1, <1>8, <1>10 DEF Mailed
      <4> QED BY <1>1, <1>9, <3>0, <3>1, <4>1, <4>2, <4>3 DEF Claims, Kept
    <3>6. run[q].pc \in {"reserve", "read"} =>
            run[q].snapshot \in Snapshots /\ run[q].snapshot[1] <= current'[1]
      BY <1>1, <3>1 DEF RunKnows
    <3>7. run[q].pc \in {"claim", "recheck", "dispatch", "send", "finalize"} =>
            i \in DOMAIN deliveries' /\ Unsaid(i)'
      BY <1>5, <3>0, <3>1, <3>2, <3>4 DEF RunKnows
    <3>8. run[q].pc \in {"recheck", "dispatch"} /\ Claims(q)' => ~deliveries'[i].dispatched
      BY <3>0, <3>1, <3>3, <3>4 DEF RunKnows, Kept
    <3>9. /\ run[q].pc = "finalize" => run[q].end # "NONE"
          /\ run[q].pc = "finalize" /\ Claims(q)' =>
               IF run[q].end \in {"SENT", "REVIEW"} THEN deliveries'[i].dispatched ELSE ~InMailbox(i)'
      BY <1>9, <3>0, <3>1, <3>3, <3>4 DEF RunKnows, Kept
    <3> QED BY <3>0, <3>1, <3>5, <3>6, <3>7, <3>8, <3>9 DEF RunKnows
  <2> QED BY <2>1, <2>2
<1>18. OneAtProvider'
  BY <1>3 DEF AnnualInv, OneAtProvider
<1>19. StatementsAddUp'
  BY <1>1, <1>4, <1>8, MailStays DEF AnnualInv
<1> QED BY <1>11, <1>15, <1>16, <1>17, <1>18, <1>19 DEF AnnualInv

\* A step of r that writes the row it works on.
LEMMA OneStatement ==
    ASSUME AnnualInv, NEW r \in Runs, NEW i \in DOMAIN deliveries,
           NEW row \in StatementRow,
           UNCHANGED <<current, mailbox>>,
           deliveries' = [deliveries EXCEPT ![i] = row],
           run' \in [Runs -> Run], \A q \in Runs \ {r} : run'[q] = run[q],
           deliveries[i].status # "SENT",
           row.snapshot = deliveries[i].snapshot, row.supersedes = deliveries[i].supersedes,
           (row.status = "PROCESSING") = (row.claim # None), row.claim \in {r, None},
           Open(row) =>
             \/ Open(deliveries[i])
             \/ \A j \in DOMAIN deliveries \ {i} : ~Open(deliveries[j]),
           row.status \in {"SENT", "REVIEW"} => row.dispatched,
           row.retry_safe => row.status = "FAILED",
           InMailbox(i) => MayBeSent(i)',
           MayBeSent(i)' => MayBeSent(i) \/ deliveries[i].snapshot = current,
           \A q \in Runs \ {r} :
             run[q].pc = "send" /\ run[q].row = i => row.dispatched /\ row.status = "REVIEW",
           RunKnows(r)', OneAtProvider'
    PROVE  AnnualInv'
<1>0. PICK D : D = DOMAIN deliveries
  OBVIOUS
<1>1. /\ deliveries' \in Seq(StatementRow) /\ DOMAIN deliveries' = D
      /\ deliveries'[i] = row
      /\ \A j \in D \ {i} : deliveries'[j] = deliveries[j]
  BY <1>0, OneRow DEF AnnualInv
<1>2. \A j \in D : /\ deliveries'[j].snapshot = deliveries[j].snapshot
                   /\ deliveries'[j].supersedes = deliveries[j].supersedes
                   /\ deliveries[j].status = "SENT" => deliveries'[j].status = "SENT"
  BY <1>1
<1>3. AnnualTypeOK'
  <2>1. ASSUME NEW j \in D, NEW k \in D, Open(deliveries'[j]), Open(deliveries'[k])
        PROVE  j = k
    <3>1. CASE j # i /\ k # i
      BY <1>0, <1>1, <2>1, <3>1 DEF AnnualInv, AnnualTypeOK, OneOpen
    <3>2. CASE j = i \/ k = i
      BY <1>0, <1>1, <2>1, <3>2 DEF AnnualInv, AnnualTypeOK, OneOpen
    <3> QED BY <3>1, <3>2
  <2>2. \A j \in D : (deliveries'[j].status = "PROCESSING") = (deliveries'[j].claim # None)
    BY <1>0, <1>1 DEF AnnualInv, AnnualTypeOK
  <2>3. mailbox' \in Seq(D)
    BY <1>0 DEF AnnualInv, AnnualTypeOK
  <2> QED BY <1>1, <2>1, <2>2, <2>3 DEF AnnualInv, AnnualTypeOK, OneOpen
<1>4. \A j : InMailbox(j)' <=> InMailbox(j)
  BY DEF InMailbox
<1>5. \A j \in D \ {i} : MayBeSent(j)' <=> MayBeSent(j)
  BY <1>1 DEF MayBeSent
<1>6. \A j \in SentRows(deliveries) : j \in SentRows(deliveries')
  BY <1>0, <1>1, <1>2 DEF SentRows
<1>7. ASSUME NEW j \in DOMAIN deliveries' PROVE RowKnows(j)'
  <2>1. RowKnows(j) /\ j \in D
    BY <1>0, <1>1 DEF AnnualInv
  <2>2. CASE j = i
    BY <1>1, <1>4, <1>6, <2>1, <2>2 DEF RowKnows
  <2>3. CASE j # i
    BY <1>1, <1>4, <1>5, <1>6, <2>1, <2>3 DEF RowKnows
  <2> QED BY <2>2, <2>3
<1>8. Labelled'
  <2> SUFFICES ASSUME NEW j \in D, NEW k \in D, deliveries'[j].supersedes = 0,
                      deliveries'[k].snapshot[1] < deliveries'[j].snapshot[1]
               PROVE  ~MayBeSent(k)'
    BY <1>1 DEF Labelled
  <2>1. deliveries[j].supersedes = 0 /\ deliveries[k].snapshot[1] < deliveries[j].snapshot[1]
    BY <1>2
  <2>2. ~MayBeSent(k)
    BY <1>0, <2>1 DEF AnnualInv, Labelled
  <2>3. CASE k = i
    <3>1. /\ deliveries[j].snapshot[1] <= current[1]
          /\ deliveries[j].snapshot \in Snapshots /\ deliveries[k].snapshot \in Snapshots
          /\ current \in Snapshots
      BY <1>0, TableFacts, RowColumns DEF AnnualInv, AnnualTypeOK, RowKnows
    <3>2. deliveries[k].snapshot # current
      BY <2>1, <3>1 DEF Snapshots, Facts
    <3> QED BY <2>2, <2>3, <3>2
  <2>4. CASE k # i
    BY <1>5, <2>2, <2>4
  <2> QED BY <2>3, <2>4
<1>9. ASSUME NEW q \in Runs PROVE RunKnows(q)'
  <2>1. CASE q # r
    <3>0. PICK j : j = run[q].row
      OBVIOUS
    <3>1. run'[q] = run[q] /\ RunKnows(q)
      BY <2>1 DEF AnnualInv
    <3>2. j \in D /\ Unsaid(j) => Unsaid(j)'
      BY <1>0, <1>2, UnsaidStays DEF AnnualInv
    <3>3. \A k \in DOMAIN mailbox : Mailed(k)'.snapshot = Mailed(k).snapshot
      <4>1. \A k \in DOMAIN mailbox : mailbox[k] \in D
        BY <1>0, TableFacts DEF AnnualInv
      <4> QED BY <1>2, <4>1 DEF Mailed
    <3>4. CASE j = i
      <4>1. ~Claims(q)'
        BY <1>1, <2>1, <3>0, <3>1, <3>4, FactsAreBounded DEF Claims
      <4>2. run[q].pc = "send" => deliveries'[j].dispatched /\ deliveries'[j].status = "REVIEW"
        <5>1. q \in Runs \ {r} /\ run[q].row = i /\ deliveries'[j] = row
          BY <1>1, <2>1, <3>0, <3>4
        <5>2. run[q].pc = "send" => row.dispatched /\ row.status = "REVIEW"
          BY <5>1
        <5> QED BY <5>1, <5>2
      <4>3. deliveries'[j].snapshot = deliveries[j].snapshot
        BY <1>1, <3>4
      <4>4. InMailbox(j)' <=> InMailbox(j)
        BY <1>4
      <4> QED BY <1>0, <1>1, <3>0, <3>1, <3>2, <3>3, <4>1, <4>2, <4>3, <4>4 DEF RunKnows
    <3>5. CASE j # i
      <4>1. j \in D => deliveries'[j] = deliveries[j]
        BY <1>1, <3>5
      <4>2. j \in D => (Claims(q)' <=> Claims(q))
        BY <3>0, <3>1, <4>1 DEF Claims
      <4>3. InMailbox(j)' <=> InMailbox(j)
        BY <1>4
      <4> QED BY <1>0, <1>1, <3>0, <3>1, <3>2, <3>3, <4>1, <4>2, <4>3 DEF RunKnows
    <3> QED BY <3>4, <3>5
  <2> QED BY <2>1
<1>10. StatementsAddUp'
  BY <1>0, <1>2, MailStays DEF AnnualInv
<1> QED BY <1>3, <1>7, <1>8, <1>9, <1>10 DEF AnnualInv

\* Four columns of one row written at once.
LEMMA FourColumns ==
    ASSUME NEW S, NEW T, NEW table \in [S -> T], NEW i \in S, NEW a, NEW b, NEW c, NEW d
    PROVE  [table EXCEPT ![i].status = a, ![i].claim = b, ![i].dispatched = c, ![i].retry_safe = d]
             = [table EXCEPT ![i] = [@ EXCEPT !.status = a, !.claim = b,
                                              !.dispatched = c, !.retry_safe = d]]
<1> DEFINE row1 == [table[i] EXCEPT !.status = a]
           row2 == [row1 EXCEPT !.claim = b]
           row3 == [row2 EXCEPT !.dispatched = c]
           row4 == [row3 EXCEPT !.retry_safe = d]
<1>1. [table EXCEPT ![i].status = a, ![i].claim = b, ![i].dispatched = c, ![i].retry_safe = d]
      = [u \in S |-> IF u = i THEN row4 ELSE table[u]]
  OBVIOUS
<1>2. [table EXCEPT ![i] = [@ EXCEPT !.status = a, !.claim = b,
                                     !.dispatched = c, !.retry_safe = d]]
      = [u \in S |-> IF u = i THEN row4 ELSE table[u]]
  OBVIOUS
<1> QED BY <1>1, <1>2

LEMMA ClaimKeeps ==
    ASSUME AnnualInv, NEW r \in Runs, Claim(r)
    PROVE  AnnualInv'
<1> PICK i : i = run[r].row
  OBVIOUS
<1> DEFINE Rows(old) == [deliveries EXCEPT ![i] = TimeOut(@, i \in old)]
<1>1. PICK old \in SUBSET {i} :
        /\ run[r].pc = "claim" /\ UNCHANGED <<current, mailbox>>
        /\ IF claimStripeAnnualStatementDeliveryEnabled(Rows(old), i, old)
           THEN /\ deliveries' = [Rows(old) EXCEPT ![i].status = "PROCESSING", ![i].claim = r,
                                                   ![i].dispatched = FALSE, ![i].retry_safe = FALSE]
                /\ GoesTo(r, "recheck")
           ELSE deliveries' = Rows(old) /\ Stop(r)
  BY DEF Claim, RunAt
<1>2. RunKnows(r) /\ RowKnows(i) /\ i \in DOMAIN deliveries /\ Unsaid(i)
  BY <1>1 DEF AnnualInv, RunKnows
<1>3. /\ deliveries \in [DOMAIN deliveries -> StatementRow]
      /\ deliveries[i] \in StatementRow
      /\ (deliveries[i].status = "PROCESSING") = (deliveries[i].claim # None)
  <2>1. deliveries \in [DOMAIN deliveries -> StatementRow]
    BY LenProperties DEF AnnualInv, AnnualTypeOK
  <2> QED BY <1>2, <2>1 DEF AnnualInv, AnnualTypeOK
<1> PICK table : table = Rows(old)
  OBVIOUS
<1> PICK first : first = TimeOut(deliveries[i], i \in old)
  OBVIOUS
<1>4. table = [deliveries EXCEPT ![i] = first]
  OBVIOUS
<1>5. /\ first \in StatementRow
      /\ \/ first = deliveries[i]
         \/ /\ deliveries[i].status = "PROCESSING" /\ deliveries[i].dispatched
            /\ first.status = "REVIEW" /\ first.claim = None /\ first.dispatched
            /\ first.supersedes = deliveries[i].supersedes
            /\ first.snapshot = deliveries[i].snapshot
            /\ first.retry_safe = deliveries[i].retry_safe
  BY <1>3 DEF TimeOut, StatementRow, Status
<1>6. \A q \in Runs \ {r} : run[q].pc = "send" /\ run[q].row = i =>
        deliveries[i].dispatched /\ deliveries[i].status \in {"PROCESSING", "REVIEW"}
  BY DEF AnnualInv, RunKnows, Claims
<1>7. CASE ~claimStripeAnnualStatementDeliveryEnabled(Rows(old), i, old)
  <2>1. deliveries' = [deliveries EXCEPT ![i] = first] /\ Stop(r)
    BY <1>1, <1>4, <1>7
  <2>2. /\ run' \in [Runs -> Run] /\ run'[r].pc = "idle"
        /\ \A q \in Runs \ {r} : run'[q] = run[q]
    BY <2>1, RunSteps DEF AnnualInv
  <2>3. RunKnows(r)' /\ OneAtProvider'
    BY <2>2 DEF RunKnows, AnnualInv, OneAtProvider
  <2>4. CASE first = deliveries[i]
    <3>1. deliveries' = deliveries
      BY <1>3, <2>1, <2>4
    <3> QED BY <1>1, <2>2, <2>3, <3>1, RunOnly
  <2>5. CASE first # deliveries[i]
    <3>1. deliveries'[i] = first
      BY <1>2, <1>3, <2>1
    <3>2. MayBeSent(i) /\ MayBeSent(i)'
      BY <1>5, <2>5, <3>1 DEF MayBeSent
    <3>3. Open(deliveries[i]) /\ ~first.retry_safe
      BY <1>2, <1>5, <2>5 DEF Open, RowKnows
    <3> QED BY <1>1, <1>2, <1>5, <2>1, <2>2, <2>3, <2>5, <3>2, <3>3, OneStatement
  <2> QED BY <2>4, <2>5
<1>8. CASE claimStripeAnnualStatementDeliveryEnabled(Rows(old), i, old)
  <2>1. /\ table[i] = first
        /\ DOMAIN table = DOMAIN deliveries
        /\ \A j \in DOMAIN deliveries \ {i} : table[j] = deliveries[j]
    BY <1>2, <1>3, <1>4
  <2>2. /\ \/ first.status = "PENDING"
           \/ first.status = "FAILED" /\ first.retry_safe
           \/ first.status = "PROCESSING" /\ ~first.dispatched
        /\ \A j \in DOMAIN deliveries \ {i} : ~Open(deliveries[j])
    BY <1>8, <2>1 DEF claimStripeAnnualStatementDeliveryEnabled
  <2>3. first = deliveries[i] /\ table = deliveries
    BY <1>3, <1>4, <1>5, <2>2
  <2> DEFINE row == [first EXCEPT !.status = "PROCESSING", !.claim = r,
                                  !.dispatched = FALSE, !.retry_safe = FALSE]
  <2>4. deliveries' = [deliveries EXCEPT ![i] = row] /\ GoesTo(r, "recheck")
    <3>1. /\ deliveries' = [deliveries EXCEPT ![i].status = "PROCESSING", ![i].claim = r,
                                              ![i].dispatched = FALSE, ![i].retry_safe = FALSE]
          /\ GoesTo(r, "recheck")
      <4> HIDE DEF Rows
      <4> QED BY <1>1, <1>8, <2>3
    <3>2. deliveries' = [deliveries EXCEPT ![i] = [@ EXCEPT
                !.status = "PROCESSING", !.claim = r, !.dispatched = FALSE, !.retry_safe = FALSE]]
      BY <1>2, <1>3, <3>1, FourColumns, Zenon
    <3> QED BY <2>3, <3>1, <3>2
  <2>5. /\ row \in StatementRow
        /\ row.status = "PROCESSING" /\ row.claim = r /\ row.dispatched = FALSE
        /\ row.supersedes = first.supersedes /\ row.snapshot = first.snapshot
        /\ row.retry_safe = FALSE
    BY <1>5 DEF StatementRow, Status
  <2> HIDE DEF row
  <2>6. /\ run' \in [Runs -> Run]
        /\ run'[r].pc = "recheck" /\ run'[r].row = i
        /\ \A q \in Runs \ {r} : run'[q] = run[q]
    BY <2>4, RunSteps DEF AnnualInv
  <2>7. deliveries'[i] = row /\ DOMAIN deliveries' = DOMAIN deliveries
    BY <1>2, <1>3, <2>4
  <2>8. ~MayBeSent(i)' /\ ~MayBeSent(i) /\ ~InMailbox(i)
    BY <1>2, <2>2, <2>3, <2>5, <2>7 DEF MayBeSent, RowKnows
  <2>9. Unsaid(i)'
    <3>1. /\ deliveries'[i].snapshot = deliveries[i].snapshot
          /\ deliveries'[i].supersedes = deliveries[i].supersedes
      BY <2>3, <2>5, <2>7
    <3>2. \A j \in DOMAIN deliveries : /\ deliveries'[j].snapshot = deliveries[j].snapshot
                                       /\ deliveries'[j].supersedes = deliveries[j].supersedes
      BY <1>3, <2>4, <3>1
    <3> QED BY <1>1, <1>2, <3>2, UnsaidStays DEF AnnualInv
  <2>10. RunKnows(r)' /\ OneAtProvider'
    BY <1>1, <1>2, <2>5, <2>6, <2>7, <2>9 DEF RunKnows, AnnualInv, OneAtProvider
  <2>11. r # None
    BY FactsAreBounded
  <2>12. \A q \in Runs \ {r} : ~(run[q].pc = "send" /\ run[q].row = i)
    BY <1>6, <2>2, <2>3
  <2> QED BY <1>1, <1>2, <2>2, <2>3, <2>4, <2>5, <2>6, <2>8, <2>10, <2>11, <2>12, OneStatement
<1> QED BY <1>7, <1>8

LEMMA DispatchKeeps ==
    ASSUME AnnualInv, NEW r \in Runs, Dispatch(r)
    PROVE  AnnualInv'
<1>0. PICK i : i = run[r].row
  OBVIOUS
<1>1. /\ run[r].pc = "dispatch" /\ UNCHANGED <<current, mailbox>>
      /\ \/ /\ markStripeAnnualStatementDispatchStartedEnabled(i, r)
            /\ deliveries' = [deliveries EXCEPT ![i].dispatched = TRUE]
            /\ GoesTo(r, "send")
         \/ UNCHANGED deliveries /\ End(r, "RETRY")
  BY <1>0 DEF Dispatch, RunAt
<1>2. RunKnows(r) /\ RowKnows(i) /\ i \in DOMAIN deliveries /\ Unsaid(i)
  BY <1>0, <1>1 DEF AnnualInv, RunKnows
<1>3. CASE UNCHANGED deliveries /\ End(r, "RETRY")
  <2>1. /\ run' \in [Runs -> Run]
        /\ run'[r].pc = "finalize" /\ run'[r].end = "RETRY" /\ run'[r].row = i
        /\ \A q \in Runs \ {r} : run'[q] = run[q]
    BY <1>0, <1>3, RunSteps DEF AnnualInv
  <2>2. Claims(r) => ~InMailbox(i)
    BY <1>0, <1>1, <1>2 DEF RunKnows, RowKnows, MayBeSent
  <2>3. Unsaid(i)'
    BY <1>1, <1>2, <1>3 DEF Unsaid, Mailed
  <2>4. RunKnows(r)'
    BY <1>0, <1>1, <1>2, <1>3, <2>1, <2>2, <2>3 DEF RunKnows, Claims, InMailbox
  <2> QED BY <1>1, <1>3, <2>1, <2>4, RunOnly
<1>4. CASE /\ markStripeAnnualStatementDispatchStartedEnabled(i, r)
           /\ deliveries' = [deliveries EXCEPT ![i].dispatched = TRUE]
           /\ GoesTo(r, "send")
  <2>1. /\ run' \in [Runs -> Run]
        /\ run'[r].pc = "send" /\ run'[r].row = i
        /\ \A q \in Runs \ {r} : run'[q] = run[q]
    BY <1>0, <1>4, RunSteps DEF AnnualInv
  <2>2. /\ deliveries[i].status = "PROCESSING" /\ deliveries[i].claim = r
        /\ ~deliveries[i].dispatched /\ current = deliveries[i].snapshot
    BY <1>4 DEF markStripeAnnualStatementDispatchStartedEnabled
  <2> DEFINE row == [deliveries[i] EXCEPT !.dispatched = TRUE]
  <2>3. deliveries[i] \in StatementRow /\ deliveries = [j \in DOMAIN deliveries |-> deliveries[j]]
    BY <1>2, TableFacts, LenProperties DEF AnnualInv, AnnualTypeOK
  <2>4. /\ row \in StatementRow
        /\ row.status = "PROCESSING" /\ row.claim = r /\ row.dispatched = TRUE
        /\ row.supersedes = deliveries[i].supersedes /\ row.snapshot = deliveries[i].snapshot
        /\ row.retry_safe = deliveries[i].retry_safe
    BY <2>2, <2>3 DEF StatementRow, Status
  <2>5. deliveries' = [deliveries EXCEPT ![i] = row]
    BY <1>4, <2>3
  <2> HIDE DEF row
  <2>6. /\ deliveries'[i] = row /\ DOMAIN deliveries' = DOMAIN deliveries
        /\ \A j \in DOMAIN deliveries :
              /\ deliveries'[j].snapshot = deliveries[j].snapshot
              /\ deliveries'[j].supersedes = deliveries[j].supersedes
    BY <1>2, <2>4, <2>5
  <2>7. ~InMailbox(i)
    BY <1>2, <2>2 DEF RowKnows, MayBeSent
  <2>8. \A k \in DOMAIN mailbox : Mailed(k)'.snapshot[1] <= deliveries'[i].snapshot[1]
    <3> TAKE k \in DOMAIN mailbox
    <3>1. mailbox[k] \in DOMAIN deliveries
      BY TableFacts DEF AnnualInv
    <3>2. Mailed(k)'.snapshot = Mailed(k).snapshot
      BY <1>1, <2>6, <3>1 DEF Mailed
    <3>3. Mailed(k).snapshot[1] <= current[1]
      BY <3>1 DEF AnnualInv, RowKnows, Mailed
    <3> QED BY <1>2, <2>2, <2>6, <3>2, <3>3
  <2>9. \A q \in Runs : run[q].pc # "send"
    <3> SUFFICES ASSUME NEW q \in Runs, run[q].pc = "send" PROVE FALSE
      OBVIOUS
    <3>0. PICK j : j = run[q].row
      OBVIOUS
    <3>1. /\ j \in DOMAIN deliveries /\ deliveries[j].dispatched
          /\ deliveries[j].status \in {"PROCESSING", "REVIEW"}
      BY <3>0 DEF AnnualInv, RunKnows, Claims
    <3>2. Open(deliveries[j]) /\ Open(deliveries[i])
      BY <2>2, <3>1 DEF Open
    <3>3. j = i
      BY <1>2, <3>1, <3>2 DEF AnnualInv, AnnualTypeOK, OneOpen
    <3> QED BY <2>2, <3>1, <3>3
  <2>10. OneAtProvider'
    BY <2>1, <2>9 DEF OneAtProvider
  <2>11. ~InMailbox(i)' /\ Claims(r)'
    BY <1>1, <2>1, <2>4, <2>6, <2>7 DEF InMailbox, Claims
  <2>12. Unsaid(i)'
    BY <1>1, <1>2, <2>6, UnsaidStays DEF AnnualInv
  <2>13. RunKnows(r)'
    BY <1>1, <1>2, <2>1, <2>4, <2>6, <2>8, <2>11, <2>12 DEF RunKnows
  <2>14. Open(deliveries[i]) /\ ~row.retry_safe
    BY <1>2, <2>2, <2>4 DEF Open, RowKnows
  <2>15. r # None
    BY FactsAreBounded
  <2> QED BY <1>1, <1>2, <2>1, <2>2, <2>4, <2>5, <2>7, <2>9, <2>10, <2>13, <2>14, <2>15, OneStatement
<1> QED BY <1>1, <1>3, <1>4

LEMMA FinalizeKeeps ==
    ASSUME AnnualInv, NEW r \in Runs, FinalizeRun(r)
    PROVE  AnnualInv'
<1>0. PICK i, end : i = run[r].row /\ end = run[r].end
  OBVIOUS
<1>1. /\ run[r].pc = "finalize" /\ UNCHANGED <<current, mailbox>> /\ Stop(r)
      /\ IF deliveries[i].status = "PROCESSING" /\ deliveries[i].claim = r
         THEN deliveries' = [deliveries EXCEPT ![i] = finalizeStripeAnnualStatementDelivery(@, end)]
         ELSE deliveries' = deliveries
  BY <1>0 DEF FinalizeRun, RunAt
<1>2. RunKnows(r) /\ RowKnows(i) /\ i \in DOMAIN deliveries
  BY <1>0, <1>1 DEF AnnualInv, RunKnows
<1>3. /\ run' \in [Runs -> Run] /\ run'[r].pc = "idle"
      /\ \A q \in Runs \ {r} : run'[q] = run[q]
  BY <1>1, RunSteps DEF AnnualInv
<1>4. RunKnows(r)' /\ OneAtProvider'
  BY <1>3 DEF RunKnows, AnnualInv, OneAtProvider
<1>5. CASE ~Claims(r)
  <2>1. deliveries' = deliveries
    BY <1>0, <1>1, <1>5 DEF Claims
  <2> QED BY <1>1, <1>3, <1>4, <2>1, RunOnly
<1>6. CASE Claims(r)
  <2>1. deliveries[i].status = "PROCESSING" /\ deliveries[i].claim = r
    BY <1>0, <1>6 DEF Claims
  <2> DEFINE row == finalizeStripeAnnualStatementDelivery(deliveries[i], end)
  <2>2. deliveries' = [deliveries EXCEPT ![i] = row]
    BY <1>1, <2>1
  <2>3. /\ deliveries[i] \in StatementRow
        /\ end \in {"SENT", "RETRY", "FAILED", "REVIEW"}
    BY <1>0, <1>1, <1>2, TableFacts DEF AnnualInv, AnnualTypeOK, Run, RunKnows
  <2>4. /\ row \in StatementRow
        /\ row.status = IF end = "RETRY" THEN "FAILED" ELSE end
        /\ row.claim = None /\ row.dispatched = deliveries[i].dispatched
        /\ row.supersedes = deliveries[i].supersedes /\ row.snapshot = deliveries[i].snapshot
        /\ row.retry_safe = (end = "RETRY")
    BY <2>3 DEF finalizeStripeAnnualStatementDelivery, StatementRow, Status
  <2> HIDE DEF row
  <2>5. deliveries'[i] = row
    BY <1>2, <2>2, TableFacts DEF AnnualInv
  <2>6. IF end \in {"SENT", "REVIEW"} THEN deliveries[i].dispatched ELSE ~InMailbox(i)
    BY <1>0, <1>1, <1>2, <1>6 DEF RunKnows
  <2>7. /\ InMailbox(i) => MayBeSent(i)'
        /\ MayBeSent(i)' => MayBeSent(i)
    BY <1>2, <2>1, <2>3, <2>4, <2>5, <2>6 DEF MayBeSent, RowKnows
  <2>8. Open(deliveries[i])
    BY <2>1 DEF Open
  <2>9. /\ row.status \in {"SENT", "REVIEW"} => row.dispatched
        /\ row.retry_safe => row.status = "FAILED"
    BY <2>3, <2>4, <2>6
  <2>10. \A q \in Runs \ {r} : ~(run[q].pc = "send" /\ run[q].row = i)
    BY <2>1 DEF AnnualInv, RunKnows, Claims
  <2>11. row.status # "PROCESSING" /\ deliveries[i].status # "SENT"
    BY <2>1, <2>3, <2>4
  <2> QED BY <1>1, <1>2, <1>3, <1>4, <2>2, <2>4, <2>7, <2>8, <2>9, <2>10, <2>11, OneStatement
<1> QED BY <1>5, <1>6

-----------------------------------------------------------------------------
(* The annual statements: the theorems.                                    *)

LEMMA AnnualStarts ==
    ASSUME AnnualInit
    PROVE  AnnualInv
<1>1. /\ current \in Snapshots
      /\ deliveries = <<>> /\ mailbox = <<>>
      /\ run = [r \in Runs |-> Idle]
  BY FactsAreBounded DEF AnnualInit, Snapshots, Facts
<1>2. Idle \in Run /\ Idle.pc = "idle"
  BY DEF Idle, Run
<1>3. DOMAIN mailbox = {} /\ DOMAIN deliveries = {}
  BY <1>1
<1>4. AnnualTypeOK
  <2>1. deliveries \in Seq(StatementRow) /\ mailbox \in Seq(DOMAIN deliveries)
    BY <1>1
  <2> QED BY <1>1, <1>2, <1>3, <2>1 DEF AnnualTypeOK, OneOpen
<1>5. (\A i \in DOMAIN deliveries : RowKnows(i)) /\ Labelled
  BY <1>3 DEF Labelled
<1>6. (\A r \in Runs : RunKnows(r)) /\ OneAtProvider
  BY <1>1, <1>2 DEF RunKnows, OneAtProvider
<1>7. StatementsAddUp
  BY <1>3 DEF StatementsAddUp, CorrectionsAreNews
<1> QED BY <1>4, <1>5, <1>6, <1>7 DEF AnnualInv

LEMMA AnnualStep ==
    ASSUME AnnualInv, [AnnualNext]_annualVars
    PROVE  AnnualInv'
<1>1. CASE AnnualNext
  <2>1. CASE Change
    BY <2>1, ChangeKeeps
  <2>2. ASSUME NEW r \in Runs,
               \/ Snapshot(r) \/ Reserve(r) \/ ReadReserved(r) \/ Claim(r) \/ Recheck(r)
               \/ Dispatch(r) \/ Send(r) \/ FinalizeRun(r) \/ RunDies(r)
        PROVE  AnnualInv'
    BY <2>2, SnapshotKeeps, ReserveKeeps, ReadReservedKeeps, ClaimKeeps, RecheckKeeps,
       DispatchKeeps, SendKeeps, FinalizeKeeps, CrashKeeps
  <2> QED BY <1>1, <2>1, <2>2 DEF AnnualNext
<1>2. CASE UNCHANGED annualVars
  <2>1. UNCHANGED <<current, deliveries, run, mailbox>>
    BY <1>2 DEF annualVars
  <2>2. AnnualTypeOK' /\ StatementsAddUp'
    BY <2>1 DEF AnnualInv, AnnualTypeOK, OneOpen, StatementsAddUp, CorrectionsAreNews, Mailed
  <2>3. \A i \in DOMAIN deliveries' : RowKnows(i)'
    BY <2>1 DEF AnnualInv, RowKnows, InMailbox, MayBeSent
  <2>4. Labelled' /\ OneAtProvider'
    BY <2>1 DEF AnnualInv, Labelled, MayBeSent, OneAtProvider
  <2>5. \A r \in Runs : RunKnows(r)'
    BY <2>1 DEF AnnualInv, RunKnows, Claims, InMailbox, Unsaid, Mailed
  <2> QED BY <2>2, <2>3, <2>4, <2>5 DEF AnnualInv
<1> QED BY <1>1, <1>2

\* However many runs of the annual statements overlap, die or lose an answer, and
\* whatever gifts, refunds and settings change meanwhile, the tables keep their
\* shape and the donor has one statement at most that is pending, being sent or in
\* review (reserveStripeAnnualStatementDelivery, the claims and their finalization).
THEOREM StatementsAreTyped == AnnualSpec => []AnnualTypeOK
<1>1. AnnualInit => AnnualInv
  BY AnnualStarts
<1>2. AnnualInv /\ [AnnualNext]_annualVars => AnnualInv'
  BY AnnualStep
<1>3. AnnualInv => AnnualTypeOK
  BY DEF AnnualInv
<1> QED BY <1>1, <1>2, <1>3, PTL DEF AnnualSpec

\* No revision reaches the donor twice, the next one leaves only after the one
\* before is known to be SENT, none knows less than the one before, one that knows
\* more is labelled as a correction, and a snapshot that returns is not sent as a
\* correction of what followed it (reserveStripeAnnualStatementDelivery, the claims,
\* dispatch and finalization).
THEOREM StatementsAlwaysAddUp == AnnualSpec => []StatementsAddUp
<1>1. AnnualInit => AnnualInv
  BY AnnualStarts
<1>2. AnnualInv /\ [AnnualNext]_annualVars => AnnualInv'
  BY AnnualStep
<1>3. AnnualInv => StatementsAddUp
  BY DEF AnnualInv
<1> QED BY <1>1, <1>2, <1>3, PTL DEF AnnualSpec

=============================================================================
