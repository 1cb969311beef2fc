----------------------- MODULE StripeAcknowledgments -----------------------
(***************************************************************************)
(* The immediate acknowledgments of Stripe gifts: the rows of              *)
(* stripe_acknowledgment_deliveries, one per gift and refunded amount, the *)
(* workers that claim, snapshot, dispatch and finalize them                *)
(* (deliverNextStripeAcknowledgment), refunds that supersede them, the     *)
(* owner who settles what is in doubt, and the adoption of a subscription  *)
(* of a retired site, whose past invoices are gifts without mail and whose *)
(* first acknowledgment introduces the new site.                           *)
(*                                                                         *)
(* XEnabled is the WHERE clause of statement X.  The times rows wait for   *)
(* (next_attempt_at, the 5 minute claim) pass at any moment.               *)
(***************************************************************************)
EXTENDS Naturals, FiniteSets

CONSTANTS Gifts,        \* settled payments
          Silent,       \* those of them that the adoption records
          Refundable,   \* those of them that are ever refunded
          Amount,       \* what one gift can be refunded by, in steps
          Workers,      \* the sweep and the webhooks that deliver
          MaxAttempts,  \* 5 in the code
          NULL

ASSUME SilentAreGifts == Silent \subseteq Gifts
ASSUME Bounds == Amount \in Nat /\ MaxAttempts \in Nat

Deliveries == Gifts \X (0..Amount)   \* UNIQUE (gift_id, evidence_refunded_amount_cents)

ASSUME NullIsNoName == NULL \notin Workers \cup Deliveries /\ NULL \notin {"PLAIN", "INTRO"}

GiftOf(d) == d[1]
EvidenceOf(d) == d[2]

GiftRow == [made : BOOLEAN, method : BOOLEAN, suppressed : BOOLEAN, refunded : 0..Amount]

NoGift == [made |-> FALSE, method |-> FALSE, suppressed |-> FALSE, refunded |-> 0]

\* snapshot: the stored evidence, which introduces the site or does not.
AcknowledgmentRow == [status     : {"NONE", "PENDING", "PROCESSING", "SENT", "FAILED", "REVIEW"},
                      claim      : Workers \cup {NULL},
                      attempts   : 0..MaxAttempts,
                      dispatched : BOOLEAN,
                      retry_safe : BOOLEAN,
                      snapshot   : {NULL, "PLAIN", "INTRO"}]

NoRow == [status |-> "NONE", claim |-> NULL, attempts |-> 0, dispatched |-> FALSE,
          retry_safe |-> FALSE, snapshot |-> NULL]

Worker == [pc  : {"idle", "snapshot", "dispatch", "send", "finalize"},
           row : Deliveries \cup {NULL},
           end : {"NONE", "SENT", "RETRY", "FAILED", "REVIEW"}]

Idle == [pc |-> "idle", row |-> NULL, end |-> "NONE"]

VARIABLES
    stripe_gifts,                     \* Gifts -> GiftRow
    stripe_acknowledgment_deliveries, \* Deliveries -> AcknowledgmentRow
    adoption_intro_delivery_id,       \* of the adopted checkout all gifts belong to
    worker,                           \* Workers -> Worker
    mailed                            \* how often the provider took a delivery (external)

vars == <<stripe_gifts, stripe_acknowledgment_deliveries, adoption_intro_delivery_id,
          worker, mailed>>

gift == stripe_gifts
rows == stripe_acknowledgment_deliveries

Init ==
    /\ stripe_gifts = [g \in Gifts |-> NoGift]
    /\ stripe_acknowledgment_deliveries = [d \in Deliveries |-> NoRow]
    /\ adoption_intro_delivery_id = NULL
    /\ worker = [w \in Workers |-> Idle]
    /\ mailed = [d \in Deliveries |-> 0]

-----------------------------------------------------------------------------
(* The statements.                                                         *)

\* INSERT OR IGNORE; stripe_suppressed_gift_acknowledgment_forbidden aborts it.
InsertDelivery(row, g) ==
    IF row.status = "NONE" /\ ~g.suppressed THEN [row EXCEPT !.status = "PENDING"] ELSE row

\* The two statements claimNextStripeAcknowledgment begins with.
TimedOut(row, stale) == row.status = "PROCESSING" /\ row.dispatched /\ stale

Exhausted(row, stale) ==
    /\ row.attempts >= MaxAttempts
    /\ \/ row.status = "FAILED" /\ row.retry_safe
       \/ row.status = "PROCESSING" /\ ~row.dispatched /\ stale

\* A bug for the mutation test: the claim stays with the worker.
KeepsClaim(row) == [row EXCEPT !.status = "REVIEW", !.retry_safe = FALSE]

ToReview(row) == [row EXCEPT !.status = "REVIEW", !.claim = NULL, !.retry_safe = FALSE]

claimNextStripeAcknowledgmentEnabled(d, row, stale) ==
    /\ row.attempts < MaxAttempts
    /\ gift[GiftOf(d)].method
    /\ EvidenceOf(d) = gift[GiftOf(d)].refunded
    /\ \/ row.status = "PENDING"
       \/ row.status = "FAILED" /\ row.retry_safe
       \/ row.status = "PROCESSING" /\ ~row.dispatched /\ stale

claimNextStripeAcknowledgment(row, w) ==
    [row EXCEPT !.status = "PROCESSING", !.claim = w, !.attempts = @ + 1,
                !.dispatched = FALSE, !.retry_safe = FALSE]

markStripeAcknowledgmentDispatchStartedEnabled(d, w) ==
    /\ rows[d].status = "PROCESSING" /\ rows[d].claim = w /\ ~rows[d].dispatched
    /\ EvidenceOf(d) = gift[GiftOf(d)].refunded

finalizeStripeAcknowledgmentEnabled(row, w) == row.status = "PROCESSING" /\ row.claim = w

\* A bug for the mutation test: an unknown outcome is tried again.
RetriesUnknown(row, end) ==
    [row EXCEPT !.status = IF end = "SENT" THEN "SENT" ELSE "FAILED",
                !.retry_safe = end \in {"RETRY", "REVIEW"}, !.claim = NULL]

\* RETRY is FAILED with retry_safe, but for the last attempt.
finalizeStripeAcknowledgment(row, end) ==
    LET retry == end = "RETRY" /\ row.attempts < MaxAttempts IN
    [row EXCEPT !.status = CASE retry -> "FAILED"
                             [] end = "RETRY" /\ ~retry -> "REVIEW"
                             [] OTHER -> end,
                !.retry_safe = retry, !.claim = NULL]

\* A bug for the mutation test: a claimed row is left to its worker.
SupersedeWaiting(row) ==
    IF row.status = "PENDING" \/ (row.status = "FAILED" /\ row.retry_safe)
    THEN [row EXCEPT !.status = "FAILED", !.retry_safe = FALSE] ELSE row

\* Second statement of applyStripeRefund, on the rows of other evidence.
Supersede(row) ==
    IF row.status \in {"PENDING", "PROCESSING"} \/ (row.status = "FAILED" /\ row.retry_safe)
    THEN [row EXCEPT !.status = IF @ = "PROCESSING" /\ row.dispatched THEN "REVIEW" ELSE "FAILED",
                     !.claim = NULL, !.retry_safe = FALSE]
    ELSE row

\* The UPDATE of claimStripeAdoptionIntroduction.
claimStripeAdoptionIntroduction(d) ==
    IF adoption_intro_delivery_id = NULL THEN d ELSE adoption_intro_delivery_id

saveStripeAcknowledgmentSnapshotEnabled(row) ==
    row.snapshot = NULL /\ row.status \in {"PENDING", "PROCESSING", "FAILED"}

reconcileStripeAcknowledgment(row, sent) ==
    [row EXCEPT !.status = IF sent THEN "SENT" ELSE "FAILED", !.claim = NULL,
                !.dispatched = sent, !.retry_safe = ~sent]

-----------------------------------------------------------------------------
(* What the webhook and the adoption record.                               *)

SetRow(d, row) ==
    stripe_acknowledgment_deliveries' = [stripe_acknowledgment_deliveries EXCEPT ![d] = row]

\* recordStripeGiftAndAcknowledgment, a batch; over a suppressed gift it aborts.
\* Without the metadata of the adoption the webhook ignores a silent invoice.
RecordGift(g, known) ==
    LET new == IF gift[g].made THEN gift[g] ELSE [NoGift EXCEPT !.made = TRUE, !.method = known] IN
    /\ g \in Silent => gift[g].made
    /\ stripe_gifts' = [stripe_gifts EXCEPT ![g] = new]
    /\ SetRow(<<g, 0>>, InsertDelivery(rows[<<g, 0>>], new))
    /\ UNCHANGED <<adoption_intro_delivery_id, worker, mailed>>

\* The charge comes after the gift.
RecordMethod(g) ==
    /\ gift[g].made /\ ~gift[g].method
    /\ stripe_gifts' = [stripe_gifts EXCEPT ![g].method = TRUE]
    /\ UNCHANGED <<stripe_acknowledgment_deliveries, adoption_intro_delivery_id, worker, mailed>>

\* applyStripeRefund, a batch: the gift, what is superseded, the correction.
Refund(g, amount) ==
    LET refunded == IF amount > gift[g].refunded THEN amount ELSE gift[g].refunded
        new == [gift[g] EXCEPT !.refunded = refunded] IN
    /\ g \in Refundable /\ gift[g].made
    /\ stripe_gifts' = [stripe_gifts EXCEPT ![g] = new]
    /\ stripe_acknowledgment_deliveries' = [d \in Deliveries |->
          CASE GiftOf(d) # g -> rows[d]
            [] GiftOf(d) = g /\ EvidenceOf(d) # refunded -> Supersede(rows[d])
            [] OTHER -> IF refunded > 0 /\ ~new.suppressed THEN InsertDelivery(rows[d], new)
                        ELSE rows[d]]
    /\ UNCHANGED <<adoption_intro_delivery_id, worker, mailed>>

\* recordSuppressedStripeInvoiceGift.
AdoptSilently(g) ==
    /\ g \in Silent /\ ~gift[g].made
    /\ stripe_gifts' = [stripe_gifts EXCEPT ![g] =
                          [NoGift EXCEPT !.made = TRUE, !.method = TRUE, !.suppressed = TRUE]]
    /\ UNCHANGED <<stripe_acknowledgment_deliveries, adoption_intro_delivery_id, worker, mailed>>

-----------------------------------------------------------------------------
(* A delivery.                                                             *)

At(w, pc) == worker[w].pc = pc

Row(w) == rows[worker[w].row]

Goto(w, pc) == worker' = [worker EXCEPT ![w].pc = pc]

End(w, end) == worker' = [worker EXCEPT ![w].pc = "finalize", ![w].end = end]

\* Two sweeps, then the oldest row that is due; any of them may be.  Any claim
\* may be five minutes old, of a worker that died or one that hangs.
Claim(w) ==
    \E old \in SUBSET {d \in Deliveries : rows[d].status = "PROCESSING"} :
        LET swept == [d \in Deliveries |->
                        IF TimedOut(rows[d], d \in old) \/ Exhausted(rows[d], d \in old)
                        THEN ToReview(rows[d]) ELSE rows[d]]
            due == {d \in Deliveries : claimNextStripeAcknowledgmentEnabled(d, swept[d], d \in old)} IN
        /\ At(w, "idle")
        /\ IF due = {} THEN stripe_acknowledgment_deliveries' = swept /\ UNCHANGED worker
           ELSE \E d \in due :
                  /\ stripe_acknowledgment_deliveries' =
                        [swept EXCEPT ![d] = claimNextStripeAcknowledgment(@, w)]
                  /\ worker' = [worker EXCEPT ![w] = [Idle EXCEPT !.pc = "snapshot", !.row = d]]
        /\ UNCHANGED <<stripe_gifts, adoption_intro_delivery_id, mailed>>

\* snapshotStripeAcknowledgmentEvidence, of a delivery and of the webhooks that
\* record a gift, its method or a refund.  Its statements write what another
\* call for d would, so one action stands for them.
snapshotStripeAcknowledgmentEvidence(d) ==
    LET intro == IF EvidenceOf(d) = 0 THEN claimStripeAdoptionIntroduction(d)
                 ELSE adoption_intro_delivery_id IN
    IF saveStripeAcknowledgmentSnapshotEnabled(rows[d])
    THEN /\ adoption_intro_delivery_id' = intro
         /\ SetRow(d, [rows[d] EXCEPT !.snapshot =
                          IF EvidenceOf(d) = 0 /\ intro = d THEN "INTRO" ELSE "PLAIN"])
    ELSE UNCHANGED <<adoption_intro_delivery_id, stripe_acknowledgment_deliveries>>

WebhookSnapshot(d) ==
    /\ rows[d].status # "NONE" /\ rows[d].snapshot = NULL /\ gift[GiftOf(d)].method
    /\ snapshotStripeAcknowledgmentEvidence(d)
    /\ UNCHANGED <<stripe_gifts, worker, mailed>>

\* A claim that was taken away meanwhile may find no evidence it can store.
Snapshot(w) ==
    /\ At(w, "snapshot")
    /\ snapshotStripeAcknowledgmentEvidence(worker[w].row)
    /\ IF rows'[worker[w].row].snapshot # NULL THEN Goto(w, "dispatch") ELSE End(w, "REVIEW")
    /\ UNCHANGED <<stripe_gifts, mailed>>

\* The beforeDispatch callback of EmailService; the claim was lost otherwise.
Dispatch(w) ==
    /\ At(w, "dispatch")
    /\ IF markStripeAcknowledgmentDispatchStartedEnabled(worker[w].row, w)
       THEN SetRow(worker[w].row, [Row(w) EXCEPT !.dispatched = TRUE]) /\ Goto(w, "send")
       ELSE UNCHANGED stripe_acknowledgment_deliveries /\ End(w, "RETRY")
    /\ UNCHANGED <<stripe_gifts, adoption_intro_delivery_id, mailed>>

\* The donor has no address, the PDF fails, the mail is malformed.
Unsendable(w) ==
    /\ At(w, "dispatch")
    /\ \E end \in {"REVIEW", "RETRY"} : End(w, end)
    /\ UNCHANGED <<stripe_gifts, stripe_acknowledgment_deliveries, adoption_intro_delivery_id, mailed>>

\* The provider takes the mail or not, and the worker is told or not.
Send(w) ==
    /\ At(w, "send")
    /\ \/ /\ mailed' = [mailed EXCEPT ![worker[w].row] = @ + 1]
          /\ \E end \in {"SENT", "REVIEW"} : End(w, end)
       \/ /\ UNCHANGED mailed
          /\ \E end \in {"RETRY", "FAILED", "REVIEW"} : End(w, end)
    /\ UNCHANGED <<stripe_gifts, stripe_acknowledgment_deliveries, adoption_intro_delivery_id>>

Finalize(w) ==
    /\ At(w, "finalize")
    /\ IF finalizeStripeAcknowledgmentEnabled(Row(w), w)
       THEN SetRow(worker[w].row, finalizeStripeAcknowledgment(Row(w), worker[w].end))
       ELSE UNCHANGED stripe_acknowledgment_deliveries
    /\ worker' = [worker EXCEPT ![w] = Idle]
    /\ UNCHANGED <<stripe_gifts, adoption_intro_delivery_id, mailed>>

-----------------------------------------------------------------------------

Crash(w) ==
    /\ ~At(w, "idle")
    /\ worker' = [worker EXCEPT ![w] = Idle]
    /\ UNCHANGED <<stripe_gifts, stripe_acknowledgment_deliveries, adoption_intro_delivery_id, mailed>>

\* handleStripeAcknowledgmentReconcile.  The owner has looked at the provider:
\* what they say is true and no send of the row is under way.
Reconcile(d, sent) ==
    /\ sent = (mailed[d] > 0)
    /\ \A w \in Workers : ~(At(w, "send") /\ worker[w].row = d)
    /\ rows[d].status \in {"FAILED", "REVIEW"}
    /\ sent \/ EvidenceOf(d) = gift[GiftOf(d)].refunded
    /\ SetRow(d, reconcileStripeAcknowledgment(rows[d], sent))
    /\ UNCHANGED <<stripe_gifts, adoption_intro_delivery_id, worker, mailed>>

Next ==
    \/ \E g \in Gifts : \/ \E known \in BOOLEAN : RecordGift(g, known)
                        \/ RecordMethod(g) \/ AdoptSilently(g)
                        \/ \E amount \in 1..Amount : Refund(g, amount)
    \/ \E w \in Workers : \/ Claim(w) \/ Snapshot(w) \/ Dispatch(w)
                          \/ Unsendable(w) \/ Send(w) \/ Finalize(w) \/ Crash(w)
    \/ \E d \in Deliveries : WebhookSnapshot(d) \/ \E sent \in BOOLEAN : Reconcile(d, sent)

Spec == Init /\ [][Next]_vars

-----------------------------------------------------------------------------
(* Properties.                                                             *)

\* Every row keeps the shape of its table, and only a delivery that is
\* PROCESSING is claimed.
TypeOK ==
    /\ stripe_gifts \in [Gifts -> GiftRow]
    /\ stripe_acknowledgment_deliveries \in [Deliveries -> AcknowledgmentRow]
    /\ adoption_intro_delivery_id \in Deliveries \cup {NULL}
    /\ worker \in [Workers -> Worker]
    /\ mailed \in [Deliveries -> Nat]
    /\ \A d \in Deliveries : (rows[d].status = "PROCESSING") = (rows[d].claim # NULL)

\* The provider takes the mail of one gift and evidence once: whatever workers
\* crash, lose their claim or their answer, and whatever a refund or the owner
\* does meanwhile, a mail that may have gone out is not sent again.  A gift that
\* the adoption of a subscription recorded is never mailed, not even its refund,
\* and one acknowledgment at most introduces the new site to the donor.
AtMostOneMail ==
    /\ \A d \in Deliveries :
        IF gift[GiftOf(d)].suppressed THEN mailed[d] = 0 /\ rows[d].status = "NONE"
                                      ELSE mailed[d] <= 1
    /\ Cardinality({d \in Deliveries : rows[d].snapshot = "INTRO"}) <= 1

\* A gift that is to be acknowledged has a delivery of what is refunded now, and
\* no other of its deliveries can still be claimed, tried again or finalized,
\* whoever was working on it when the refund came.
OnlyCurrentIsOpen ==
    \A d \in Deliveries :
        LET g == gift[GiftOf(d)] IN
        IF g.made /\ ~g.suppressed /\ EvidenceOf(d) = g.refunded
        THEN rows[d].status # "NONE"
        ELSE rows[d].status \in {"NONE", "SENT", "REVIEW", "FAILED"} /\ ~rows[d].retry_safe

=============================================================================
