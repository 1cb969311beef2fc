-------------------- MODULE StripeAcknowledgmentsProofs --------------------
(***************************************************************************)
(* Proofs about StripeAcknowledgments, for any number of gifts, refunds,   *)
(* workers and attempts.                                                   *)
(***************************************************************************)
EXTENDS StripeAcknowledgments, FiniteSetTheorems, TLAPS

-----------------------------------------------------------------------------
(* The inductive invariant.                                                *)

\* The delivery w works on is still its own.
Owns(w) == Row(w).status = "PROCESSING" /\ Row(w).claim = w

\* A delivery is of a gift that is to be acknowledged, which has one from the
\* beginning; and only what failed may be marked safe to try again.
Exists(d) ==
    LET g == gift[GiftOf(d)] IN
    /\ rows[d].status # "NONE" => g.made /\ ~g.suppressed
    /\ g.made /\ ~g.suppressed /\ EvidenceOf(d) = 0 => rows[d].status # "NONE"
    /\ rows[d].retry_safe => rows[d].status = "FAILED"

\* What OnlyCurrentIsOpen says of one delivery.
CurrentIsOpen(d) ==
    LET g == gift[GiftOf(d)] IN
    IF g.made /\ ~g.suppressed /\ EvidenceOf(d) = g.refunded
    THEN rows[d].status # "NONE"
    ELSE rows[d].status \in {"NONE", "SENT", "REVIEW", "FAILED"} /\ ~rows[d].retry_safe

\* A mail the provider took is never due again.
Mailed(d) ==
    /\ mailed[d] \in {0, 1}
    /\ mailed[d] = 1 => rows[d].dispatched /\ rows[d].status \in {"PROCESSING", "SENT", "REVIEW"}

Introduces(d) == rows[d].snapshot = "INTRO" => adoption_intro_delivery_id = d

\* What a worker knows of the delivery it has claimed, or had claimed.
Knows(w) ==
    LET d == worker[w].row IN
    /\ ~At(w, "idle") => d # NULL
    /\ worker[w].pc \in {"snapshot", "dispatch"} /\ Owns(w) => ~rows[d].dispatched
    /\ At(w, "send") => /\ rows[d].dispatched /\ mailed[d] = 0
                        /\ Owns(w) \/ rows[d].status = "REVIEW"
    /\ At(w, "finalize") => worker[w].end # "NONE"
    /\ At(w, "finalize") /\ Owns(w) /\ worker[w].end \in {"RETRY", "FAILED"} => mailed[d] = 0

OneSender ==
    \A v, w \in Workers :
        At(v, "send") /\ At(w, "send") /\ worker[v].row = worker[w].row => v = w

IInv ==
    /\ TypeOK
    /\ \A d \in Deliveries : Exists(d) /\ CurrentIsOpen(d) /\ Mailed(d) /\ Introduces(d)
    /\ \A w \in Workers : Knows(w)
    /\ OneSender

-----------------------------------------------------------------------------
(* What the statements make of a row.                                      *)

\* A claim is held by a delivery that is being processed, and by no other.
Held(row) == (row.status = "PROCESSING") = (row.claim # NULL)

\* The statements keep the shape of a row.
LEMMA RowTypes ==
    ASSUME NEW row \in AcknowledgmentRow, Held(row)
    PROVE  /\ \A g \in GiftRow : InsertDelivery(row, g) \in AcknowledgmentRow
                                 /\ Held(InsertDelivery(row, g))
           /\ ToReview(row) \in AcknowledgmentRow /\ Held(ToReview(row))
           /\ row.attempts < MaxAttempts =>
                \A w \in Workers : /\ claimNextStripeAcknowledgment(row, w) \in AcknowledgmentRow
                                   /\ Held(claimNextStripeAcknowledgment(row, w))
           /\ \A end \in {"SENT", "RETRY", "FAILED", "REVIEW"} :
                 /\ finalizeStripeAcknowledgment(row, end) \in AcknowledgmentRow
                 /\ Held(finalizeStripeAcknowledgment(row, end))
           /\ Supersede(row) \in AcknowledgmentRow /\ Held(Supersede(row))
           /\ \A sent \in BOOLEAN : /\ reconcileStripeAcknowledgment(row, sent) \in AcknowledgmentRow
                                    /\ Held(reconcileStripeAcknowledgment(row, sent))
           /\ [row EXCEPT !.dispatched = TRUE] \in AcknowledgmentRow
           /\ Held([row EXCEPT !.dispatched = TRUE])
           /\ \A s \in {"PLAIN", "INTRO"} : /\ [row EXCEPT !.snapshot = s] \in AcknowledgmentRow
                                            /\ Held([row EXCEPT !.snapshot = s])
<1> USE DEF AcknowledgmentRow, Held
<1>1. \A g \in GiftRow : InsertDelivery(row, g) \in AcknowledgmentRow
                         /\ Held(InsertDelivery(row, g))
  BY DEF InsertDelivery
<1>2. ToReview(row) \in AcknowledgmentRow /\ Held(ToReview(row))
  BY DEF ToReview
<1>3. ASSUME NEW w \in Workers, row.attempts < MaxAttempts
      PROVE  /\ claimNextStripeAcknowledgment(row, w) \in AcknowledgmentRow
             /\ Held(claimNextStripeAcknowledgment(row, w))
  <2>1. row.attempts + 1 \in 0..MaxAttempts
    BY <1>3, Bounds
  <2>2. claimNextStripeAcknowledgment(row, w) =
          [row EXCEPT !.status = "PROCESSING", !.claim = w, !.attempts = row.attempts + 1,
                      !.dispatched = FALSE, !.retry_safe = FALSE]
    BY DEF claimNextStripeAcknowledgment
  <2>3. w # NULL
    BY NullIsNoName
  <2> QED BY <2>1, <2>2, <2>3
<1>4. ASSUME NEW end \in {"SENT", "RETRY", "FAILED", "REVIEW"}
      PROVE  /\ finalizeStripeAcknowledgment(row, end) \in AcknowledgmentRow
             /\ Held(finalizeStripeAcknowledgment(row, end))
  <2>1. CASE end = "RETRY" /\ row.attempts < MaxAttempts
    BY <2>1 DEF finalizeStripeAcknowledgment
  <2>2. CASE end = "RETRY" /\ ~(row.attempts < MaxAttempts)
    BY <2>2 DEF finalizeStripeAcknowledgment
  <2>3. CASE end # "RETRY"
    BY <2>3 DEF finalizeStripeAcknowledgment
  <2> QED BY <2>1, <2>2, <2>3
<1>5. Supersede(row) \in AcknowledgmentRow /\ Held(Supersede(row))
  <2>1. CASE row.status = "PROCESSING" /\ row.dispatched
    BY <2>1 DEF Supersede
  <2>2. CASE ~(row.status = "PROCESSING" /\ row.dispatched)
    BY <2>2 DEF Supersede
  <2> QED BY <2>1, <2>2
<1>6. ASSUME NEW sent \in BOOLEAN
      PROVE  /\ reconcileStripeAcknowledgment(row, sent) \in AcknowledgmentRow
             /\ Held(reconcileStripeAcknowledgment(row, sent))
  BY DEF reconcileStripeAcknowledgment
<1>7. [row EXCEPT !.dispatched = TRUE] \in AcknowledgmentRow /\ Held([row EXCEPT !.dispatched = TRUE])
  OBVIOUS
<1>8. ASSUME NEW s \in {"PLAIN", "INTRO"}
      PROVE  [row EXCEPT !.snapshot = s] \in AcknowledgmentRow /\ Held([row EXCEPT !.snapshot = s])
  OBVIOUS
<1> QED BY <1>1, <1>2, <1>3, <1>4, <1>5, <1>6, <1>7, <1>8

\* What is known of the rows the invariant speaks of.
LEMMA Known ==
    ASSUME IInv
    PROVE  /\ stripe_gifts \in [Gifts -> GiftRow]
           /\ rows \in [Deliveries -> AcknowledgmentRow]
           /\ adoption_intro_delivery_id \in Deliveries \cup {NULL}
           /\ worker \in [Workers -> Worker]
           /\ mailed \in [Deliveries -> Nat]
           /\ \A d \in Deliveries : /\ GiftOf(d) \in Gifts /\ EvidenceOf(d) \in 0..Amount
                                    /\ rows[d] \in AcknowledgmentRow /\ Held(rows[d])
                                    /\ gift[GiftOf(d)] \in GiftRow
                                    /\ d = <<GiftOf(d), EvidenceOf(d)>>
           /\ \A w \in Workers : worker[w] \in Worker
           /\ NULL \notin Deliveries
  BY NullIsNoName DEF IInv, TypeOK, rows, gift, Held, Deliveries, GiftOf, EvidenceOf

\* The first state.
LEMMA InitInv == Init => IInv
<1> SUFFICES ASSUME Init PROVE IInv
  OBVIOUS
<1>1. NoGift \in GiftRow /\ NoRow \in AcknowledgmentRow /\ Idle \in Worker
  BY Bounds DEF NoGift, GiftRow, NoRow, AcknowledgmentRow, Idle, Worker
<1>2. TypeOK
  BY <1>1 DEF Init, TypeOK, rows, NoRow
<1>3. \A d \in Deliveries : rows[d] = NoRow /\ mailed[d] = 0 /\ gift[GiftOf(d)] = NoGift
  BY DEF Init, rows, gift, Deliveries, GiftOf
<1>4. \A w \in Workers : worker[w].pc = "idle"
  BY DEF Init, Idle
<1>5. ASSUME NEW d \in Deliveries
      PROVE  Exists(d) /\ CurrentIsOpen(d) /\ Mailed(d) /\ Introduces(d)
  <2>1. /\ rows[d].status = "NONE" /\ ~rows[d].retry_safe /\ rows[d].snapshot = NULL
        /\ mailed[d] = 0 /\ ~gift[GiftOf(d)].made
    BY <1>3 DEF NoRow, NoGift
  <2>2. NULL # "INTRO"
    BY NullIsNoName
  <2> QED BY <2>1, <2>2 DEF Exists, CurrentIsOpen, Mailed, Introduces
<1>6. (\A w \in Workers : Knows(w)) /\ OneSender
  BY <1>4 DEF Knows, OneSender, At
<1> QED BY <1>2, <1>5, <1>6 DEF IInv

-----------------------------------------------------------------------------
(* What the webhook records.                                               *)

\* A step that leaves the workers, the mails and every claim alone keeps what
\* the workers know.
LEMMA WorkersKeep ==
    ASSUME IInv, UNCHANGED <<worker, mailed>>,
           \A d \in Deliveries :
              /\ rows'[d].status = "PROCESSING" =>
                   /\ rows[d].status = "PROCESSING"
                   /\ rows'[d].claim = rows[d].claim
                   /\ rows'[d].dispatched = rows[d].dispatched
              /\ (\E w \in Workers : At(w, "send") /\ worker[w].row = d) =>
                   /\ rows'[d].dispatched = rows[d].dispatched
                   /\ \/ rows'[d].status = rows[d].status /\ rows'[d].claim = rows[d].claim
                      \/ rows'[d].status = "REVIEW"
    PROVE  (\A w \in Workers : Knows(w)') /\ OneSender'
<1>1. ASSUME NEW w \in Workers PROVE Knows(w)'
  <2>1. Knows(w)
    BY DEF IInv
  <2>2. PICK d : d = worker[w].row
    OBVIOUS
  <2>3. ~At(w, "idle") => d \in Deliveries
    BY <2>1, <2>2, Known DEF Knows, Worker
  <2>4. ~At(w, "idle") => (Owns(w)' => Owns(w) /\ rows'[d].dispatched = rows[d].dispatched)
    BY <2>2, <2>3 DEF Owns, Row
  <2>5. At(w, "send") => /\ rows'[d].dispatched = rows[d].dispatched
                         /\ \/ rows'[d].status = rows[d].status /\ rows'[d].claim = rows[d].claim
                            \/ rows'[d].status = "REVIEW"
    BY <2>2, <2>3 DEF At
  <2> QED BY <2>1, <2>2, <2>3, <2>4, <2>5 DEF Knows, Owns, Row, At
<1> QED BY <1>1 DEF IInv, OneSender, At

\* A statement that writes one row.
LEMMA OneRow ==
    ASSUME IInv, NEW z \in Deliveries, NEW row \in AcknowledgmentRow, Held(row), SetRow(z, row)
    PROVE  /\ rows'[z] = row /\ \A d \in Deliveries \ {z} : rows'[d] = rows[d]
           /\ stripe_acknowledgment_deliveries' \in [Deliveries -> AcknowledgmentRow]
           /\ \A d \in Deliveries : (rows[d].status = "PROCESSING")' = (rows[d].claim # NULL)'
<1>1. stripe_acknowledgment_deliveries \in [Deliveries -> AcknowledgmentRow]
      /\ \A d \in Deliveries : Held(rows[d])
  BY Known DEF rows
<1>2. stripe_acknowledgment_deliveries' =
         [stripe_acknowledgment_deliveries EXCEPT ![z] = row]
  BY DEF SetRow
<1>3. rows'[z] = row /\ \A d \in Deliveries \ {z} : rows'[d] = rows[d]
  BY <1>1, <1>2 DEF rows
<1> QED BY <1>1, <1>2, <1>3 DEF rows, Held

\* recordStripeGiftAndAcknowledgment.
LEMMA RecordGiftStep ==
    ASSUME IInv, NEW g \in Gifts, NEW known \in BOOLEAN, RecordGift(g, known)
    PROVE  IInv'
<1>1. PICK new : new = IF gift[g].made THEN gift[g]
                       ELSE [NoGift EXCEPT !.made = TRUE, !.method = known]
  OBVIOUS
<1>2. gift \in [Gifts -> GiftRow] /\ gift[g] \in GiftRow
  BY Known DEF gift
<1>3. /\ new \in GiftRow /\ new.made
      /\ gift[g].made => new = gift[g]
      /\ ~gift[g].made => ~new.suppressed /\ new.refunded = 0
  <2>1. 0 \in 0..Amount
    BY Bounds
  <2>2. CASE gift[g].made
    BY <1>1, <1>2, <2>2
  <2>3. CASE ~gift[g].made
    BY <1>1, <2>1, <2>3 DEF NoGift, GiftRow
  <2> QED BY <2>2, <2>3
<1>4. PICK z \in Deliveries : z = <<g, 0>>
  <2>1. <<g, 0>> \in Deliveries
    BY Bounds DEF Deliveries
  <2> QED BY <2>1
<1>5. GiftOf(z) = g /\ EvidenceOf(z) = 0
  BY <1>4 DEF GiftOf, EvidenceOf
<1>6. InsertDelivery(rows[z], new) \in AcknowledgmentRow /\ Held(InsertDelivery(rows[z], new))
  BY <1>3, Known, RowTypes
<1>7. /\ SetRow(z, InsertDelivery(rows[z], new))
      /\ stripe_gifts' = [stripe_gifts EXCEPT ![g] = new]
      /\ UNCHANGED <<adoption_intro_delivery_id, worker, mailed>>
  BY <1>1, <1>4 DEF RecordGift
<1>8. TypeOK'
  BY <1>2, <1>3, <1>6, <1>7, OneRow, Known DEF TypeOK, gift
<1>9. /\ gift'[g] = new /\ \A h \in Gifts \ {g} : gift'[h] = gift[h]
      /\ rows'[z] = InsertDelivery(rows[z], new)
      /\ \A d \in Deliveries \ {z} : rows'[d] = rows[d]
  BY <1>2, <1>6, <1>7, OneRow DEF gift
<1>10. /\ rows'[z].status = IF rows[z].status = "NONE" /\ ~new.suppressed THEN "PENDING"
                            ELSE rows[z].status
       /\ rows'[z].claim = rows[z].claim /\ rows'[z].dispatched = rows[z].dispatched
       /\ rows'[z].retry_safe = rows[z].retry_safe /\ rows'[z].snapshot = rows[z].snapshot
  BY <1>9, Known DEF InsertDelivery, AcknowledgmentRow
<1>11. ASSUME NEW d \in Deliveries
       PROVE  Exists(d)' /\ CurrentIsOpen(d)' /\ Mailed(d)' /\ Introduces(d)'
  <2>1. Exists(d) /\ CurrentIsOpen(d) /\ Mailed(d) /\ Introduces(d) /\ GiftOf(d) \in Gifts
    BY Known DEF IInv
  <2>2. GiftOf(d) = g /\ EvidenceOf(d) = 0 => d = z
    BY <1>4, Known
  <2>3. CASE d = z
    BY <1>3, <1>5, <1>7, <1>9, <1>10, <2>1, <2>3 DEF Exists, CurrentIsOpen, Mailed, Introduces
  <2>4. CASE d # z
    BY <1>3, <1>7, <1>9, <2>1, <2>2, <2>4 DEF Exists, CurrentIsOpen, Mailed, Introduces
  <2> QED BY <2>3, <2>4
<1>12. (\A w \in Workers : Knows(w)') /\ OneSender'
  <2>1. (\E w \in Workers : At(w, "send") /\ worker[w].row = z) => rows[z].status # "NONE"
    BY DEF IInv, Knows, Owns, Row
  <2> QED BY <1>7, <1>9, <1>10, <2>1, WorkersKeep
<1> QED BY <1>8, <1>11, <1>12 DEF IInv

\* RecordMethod and recordSuppressedStripeInvoiceGift write the gift alone.
LEMMA GiftStep ==
    ASSUME IInv, NEW g \in Gifts, RecordMethod(g) \/ AdoptSilently(g)
    PROVE  IInv'
<1>1. PICK new : stripe_gifts' = [stripe_gifts EXCEPT ![g] = new]
                 /\ \/ gift[g].made /\ new = [gift[g] EXCEPT !.method = TRUE]
                    \/ ~gift[g].made /\ new = [NoGift EXCEPT !.made = TRUE, !.method = TRUE,
                                                             !.suppressed = TRUE]
  <2>1. CASE RecordMethod(g)
    BY <2>1 DEF RecordMethod, gift
  <2>2. CASE AdoptSilently(g)
    BY <2>2 DEF AdoptSilently
  <2> QED BY <2>1, <2>2
<1>2. gift \in [Gifts -> GiftRow] /\ gift[g] \in GiftRow
  BY Known DEF gift
<1>3. /\ new \in GiftRow /\ new.made
      /\ gift[g].made => new.suppressed = gift[g].suppressed /\ new.refunded = gift[g].refunded
      /\ ~gift[g].made => new.suppressed
  <2>1. 0 \in 0..Amount
    BY Bounds
  <2> QED BY <1>1, <1>2, <2>1 DEF NoGift, GiftRow
<1>4. UNCHANGED <<stripe_acknowledgment_deliveries, adoption_intro_delivery_id, worker, mailed>>
  BY DEF RecordMethod, AdoptSilently
<1>5. gift'[g] = new /\ \A h \in Gifts \ {g} : gift'[h] = gift[h]
  BY <1>1, <1>2 DEF gift
<1>6. TypeOK'
  BY <1>1, <1>2, <1>3, <1>4 DEF IInv, TypeOK, gift, rows
<1>7. ASSUME NEW d \in Deliveries
      PROVE  Exists(d)' /\ CurrentIsOpen(d)' /\ Mailed(d)' /\ Introduces(d)'
  <2>1. Exists(d) /\ CurrentIsOpen(d) /\ Mailed(d) /\ Introduces(d) /\ GiftOf(d) \in Gifts
    BY Known DEF IInv
  <2>2. rows' = rows
    BY <1>4 DEF rows
  <2>3. CASE GiftOf(d) = g
    BY <1>3, <1>4, <1>5, <2>1, <2>2, <2>3 DEF Exists, CurrentIsOpen, Mailed, Introduces
  <2>4. CASE GiftOf(d) # g
    BY <1>4, <1>5, <2>1, <2>2, <2>4 DEF Exists, CurrentIsOpen, Mailed, Introduces
  <2> QED BY <2>3, <2>4
<1>8. (\A w \in Workers : Knows(w)') /\ OneSender'
  BY <1>4, WorkersKeep DEF rows
<1> QED BY <1>6, <1>7, <1>8 DEF IInv

\* applyStripeRefund.
LEMMA RefundStep ==
    ASSUME IInv, NEW g \in Gifts, NEW amount \in 1..Amount, Refund(g, amount)
    PROVE  IInv'
<1>1. PICK refunded : refunded = IF amount > gift[g].refunded THEN amount ELSE gift[g].refunded
  OBVIOUS
<1>2. PICK new : new = [gift[g] EXCEPT !.refunded = refunded]
  OBVIOUS
<1>3. gift \in [Gifts -> GiftRow] /\ gift[g] \in GiftRow /\ gift[g].made
  BY Known DEF gift, Refund
<1>4. refunded \in 0..Amount /\ refunded > 0
  BY <1>1, <1>3, Bounds DEF GiftRow
<1>5. /\ new \in GiftRow /\ new.made /\ new.refunded = refunded
      /\ new.suppressed = gift[g].suppressed
  BY <1>2, <1>3, <1>4 DEF GiftRow
<1>6. /\ stripe_gifts' = [stripe_gifts EXCEPT ![g] = new]
      /\ rows' = [d \in Deliveries |->
            CASE GiftOf(d) # g -> rows[d]
              [] GiftOf(d) = g /\ EvidenceOf(d) # refunded -> Supersede(rows[d])
              [] OTHER -> IF refunded > 0 /\ ~new.suppressed THEN InsertDelivery(rows[d], new)
                          ELSE rows[d]]
      /\ UNCHANGED <<adoption_intro_delivery_id, worker, mailed>>
  BY <1>1, <1>2 DEF Refund, rows
<1>7. gift'[g] = new /\ \A h \in Gifts \ {g} : gift'[h] = gift[h]
  BY <1>3, <1>6 DEF gift
<1>8. ASSUME NEW d \in Deliveries
      PROVE  /\ rows'[d] \in AcknowledgmentRow /\ Held(rows'[d])
             /\ Exists(d)' /\ CurrentIsOpen(d)' /\ Mailed(d)' /\ Introduces(d)'
             /\ rows'[d].status = "PROCESSING" =>
                  /\ rows[d].status = "PROCESSING"
                  /\ rows'[d].claim = rows[d].claim
             /\ rows'[d].dispatched = rows[d].dispatched
             /\ rows[d].status = "REVIEW" => rows'[d].status = "REVIEW"
             /\ rows[d].status = "PROCESSING" /\ rows[d].dispatched =>
                  \/ rows'[d].status = rows[d].status /\ rows'[d].claim = rows[d].claim
                  \/ rows'[d].status = "REVIEW"
  <2>1. /\ Exists(d) /\ CurrentIsOpen(d) /\ Mailed(d) /\ Introduces(d)
        /\ GiftOf(d) \in Gifts /\ rows[d] \in AcknowledgmentRow /\ Held(rows[d])
    BY Known DEF IInv
  <2>2. CASE GiftOf(d) # g
    <3>1. rows'[d] = rows[d]
      BY <1>6, <2>2
    <3> QED BY <1>6, <1>7, <2>1, <2>2, <3>1 DEF Exists, CurrentIsOpen, Mailed, Introduces
  <2>3. CASE GiftOf(d) = g /\ EvidenceOf(d) # refunded
    <3>1. rows'[d] = Supersede(rows[d])
      BY <1>6, <2>3
    <3>2. rows'[d] \in AcknowledgmentRow /\ Held(rows'[d])
      BY <2>1, <3>1, RowTypes
    <3>3. /\ rows'[d].snapshot = rows[d].snapshot /\ rows'[d].dispatched = rows[d].dispatched
          /\ \/ /\ rows'[d].status = rows[d].status /\ rows'[d].claim = rows[d].claim
                /\ rows'[d].retry_safe = rows[d].retry_safe
                /\ rows[d].status \notin {"PENDING", "PROCESSING"}
                /\ ~(rows[d].status = "FAILED" /\ rows[d].retry_safe)
             \/ /\ rows[d].status = "PROCESSING" /\ rows[d].dispatched
                /\ rows'[d].status = "REVIEW" /\ ~rows'[d].retry_safe
             \/ /\ rows[d].status # "NONE" /\ ~(rows[d].status = "PROCESSING" /\ rows[d].dispatched)
                /\ rows[d].status \in {"PENDING", "PROCESSING", "FAILED"}
                /\ rows'[d].status = "FAILED" /\ ~rows'[d].retry_safe
      BY <2>1, <3>1 DEF Supersede, AcknowledgmentRow
    <3>4. Exists(d)'
      BY <1>3, <1>5, <1>7, <2>1, <2>3, <3>3 DEF Exists
    <3>5. CurrentIsOpen(d)'
      BY <1>5, <1>7, <2>1, <2>3, <3>3 DEF CurrentIsOpen, Exists, AcknowledgmentRow
    <3>6. Mailed(d)' /\ Introduces(d)'
      BY <1>6, <2>1, <3>3 DEF Mailed, Introduces
    <3> QED BY <3>2, <3>3, <3>4, <3>5, <3>6
  <2>4. CASE GiftOf(d) = g /\ EvidenceOf(d) = refunded
    <3>1. rows'[d] = IF ~new.suppressed THEN InsertDelivery(rows[d], new) ELSE rows[d]
      BY <1>4, <1>6, <2>4
    <3>2. rows'[d] \in AcknowledgmentRow /\ Held(rows'[d])
      BY <2>1, <3>1 DEF InsertDelivery, AcknowledgmentRow, Held
    <3>3. /\ rows'[d].status = IF rows[d].status = "NONE" /\ ~new.suppressed THEN "PENDING"
                               ELSE rows[d].status
          /\ rows'[d].claim = rows[d].claim /\ rows'[d].dispatched = rows[d].dispatched
          /\ rows'[d].retry_safe = rows[d].retry_safe /\ rows'[d].snapshot = rows[d].snapshot
      BY <2>1, <3>1 DEF InsertDelivery, AcknowledgmentRow
    <3> QED BY <1>3, <1>5, <1>6, <1>7, <2>1, <2>4, <3>2, <3>3
            DEF Exists, CurrentIsOpen, Mailed, Introduces
  <2> QED BY <2>2, <2>3, <2>4
<1>9. TypeOK'
  <2>1. rows' \in [Deliveries -> AcknowledgmentRow]
    BY <1>6, <1>8
  <2> QED BY <1>3, <1>5, <1>6, <1>8, <2>1 DEF IInv, TypeOK, gift, rows, Held
<1>10. (\A w \in Workers : Knows(w)') /\ OneSender'
  <2>1. ASSUME NEW w \in Workers, At(w, "send")
        PROVE  LET d == worker[w].row IN
               /\ d \in Deliveries
               /\ \/ rows'[d].status = rows[d].status /\ rows'[d].claim = rows[d].claim
                  \/ rows'[d].status = "REVIEW"
    <3>1. Knows(w) /\ worker[w].row \in Deliveries
      BY <2>1, Known DEF IInv, Knows, Worker, At
    <3> QED BY <2>1, <3>1, <1>8 DEF Knows, Owns, Row, At
  <2> QED BY <1>6, <1>8, <2>1, WorkersKeep
<1> QED BY <1>8, <1>9, <1>10 DEF IInv

-----------------------------------------------------------------------------
(* The workers.                                                            *)

\* What a worker that does not move knows.
LEMMA Bystander ==
    ASSUME IInv, NEW v \in Workers, worker'[v] = worker[v],
           NEW d, d = worker[v].row,
           Owns(v)' => Owns(v) /\ rows'[d].dispatched = rows[d].dispatched /\ mailed'[d] = mailed[d],
           At(v, "send") => /\ rows'[d].dispatched = rows[d].dispatched /\ mailed'[d] = mailed[d]
                            /\ Owns(v)' \/ rows'[d].status = "REVIEW"
    PROVE  Knows(v)'
<1>1. Knows(v)
  BY DEF IInv
<1> QED BY <1>1 DEF Knows, At

\* A delivery whose row keeps its status.
LEMMA SameRow ==
    ASSUME IInv, UNCHANGED <<stripe_gifts, mailed>>, NEW d \in Deliveries,
           rows'[d].status = rows[d].status, rows'[d].dispatched = rows[d].dispatched,
           rows'[d].retry_safe = rows[d].retry_safe
    PROVE  Exists(d)' /\ CurrentIsOpen(d)' /\ Mailed(d)'
<1>1. Exists(d) /\ CurrentIsOpen(d) /\ Mailed(d)
  BY DEF IInv
<1> QED BY <1>1 DEF Exists, CurrentIsOpen, Mailed, gift

\* What claimNextStripeAcknowledgment, with its two sweeps, does to the rows.
LEMMA ClaimWrites ==
    ASSUME IInv, NEW w \in Workers, Claim(w)
    PROVE  /\ \A d \in Deliveries :
                \/ rows'[d] = rows[d]
                \/ /\ rows'[d] = ToReview(rows[d])
                   /\ \/ rows[d].status = "PROCESSING"
                      \/ rows[d].status = "FAILED" /\ rows[d].retry_safe
                \/ /\ rows'[d] = claimNextStripeAcknowledgment(rows[d], w)
                   /\ rows[d].attempts < MaxAttempts
                   /\ \/ rows[d].status = "PENDING"
                      \/ rows[d].status = "FAILED" /\ rows[d].retry_safe
                      \/ rows[d].status = "PROCESSING" /\ ~rows[d].dispatched
           /\ rows' \in [Deliveries -> AcknowledgmentRow]
           /\ \/ worker' = worker
              \/ \E d \in Deliveries :
                   /\ worker' = [worker EXCEPT ![w] = [Idle EXCEPT !.pc = "snapshot", !.row = d]]
                   /\ rows'[d] = claimNextStripeAcknowledgment(rows[d], w)
<1>k. rows \in [Deliveries -> AcknowledgmentRow] /\ \A d \in Deliveries : Held(rows[d])
  BY Known
<1>1. PICK old \in SUBSET {d \in Deliveries : rows[d].status = "PROCESSING"} :
         LET swept == [d \in Deliveries |->
                        IF TimedOut(rows[d], d \in old) \/ Exhausted(rows[d], d \in old)
                        THEN ToReview(rows[d]) ELSE rows[d]]
             due == {d \in Deliveries : claimNextStripeAcknowledgmentEnabled(d, swept[d], d \in old)} IN
         IF due = {} THEN rows' = swept /\ UNCHANGED worker
         ELSE \E d \in due :
                /\ rows' = [swept EXCEPT ![d] = claimNextStripeAcknowledgment(swept[d], w)]
                /\ worker' = [worker EXCEPT ![w] = [Idle EXCEPT !.pc = "snapshot", !.row = d]]
  BY DEF Claim, rows
<1>2. PICK swept : swept = [d \in Deliveries |->
                        IF TimedOut(rows[d], d \in old) \/ Exhausted(rows[d], d \in old)
                        THEN ToReview(rows[d]) ELSE rows[d]]
  OBVIOUS
<1>3. \A d \in Deliveries :
         \/ swept[d] = rows[d]
         \/ /\ swept[d] = ToReview(rows[d])
            /\ \/ rows[d].status = "PROCESSING"
               \/ rows[d].status = "FAILED" /\ rows[d].retry_safe
  BY <1>2 DEF TimedOut, Exhausted
<1>4. swept \in [Deliveries -> AcknowledgmentRow]
  BY <1>k, <1>2, RowTypes
<1>5. CASE rows' = swept /\ UNCHANGED worker
  BY <1>3, <1>4, <1>5
<1>6. CASE \E d \in Deliveries :
             /\ claimNextStripeAcknowledgmentEnabled(d, swept[d], d \in old)
             /\ rows' = [swept EXCEPT ![d] = claimNextStripeAcknowledgment(swept[d], w)]
             /\ worker' = [worker EXCEPT ![w] = [Idle EXCEPT !.pc = "snapshot", !.row = d]]
  <2>1. PICK d \in Deliveries :
             /\ claimNextStripeAcknowledgmentEnabled(d, swept[d], d \in old)
             /\ rows' = [swept EXCEPT ![d] = claimNextStripeAcknowledgment(swept[d], w)]
             /\ worker' = [worker EXCEPT ![w] = [Idle EXCEPT !.pc = "snapshot", !.row = d]]
    BY <1>6
  <2>2. swept[d].status # "REVIEW" /\ swept[d].attempts < MaxAttempts
        /\ \/ swept[d].status = "PENDING"
           \/ swept[d].status = "FAILED" /\ swept[d].retry_safe
           \/ swept[d].status = "PROCESSING" /\ ~swept[d].dispatched
    BY <2>1 DEF claimNextStripeAcknowledgmentEnabled
  <2>3. swept[d] = rows[d]
    BY <1>k, <1>3, <2>2 DEF ToReview, AcknowledgmentRow
  <2>4. claimNextStripeAcknowledgment(rows[d], w) \in AcknowledgmentRow
    BY <1>k, <2>2, <2>3, RowTypes
  <2> QED BY <1>3, <1>4, <2>1, <2>2, <2>3, <2>4
<1> QED BY <1>1, <1>2, <1>5, <1>6

\* claimNextStripeAcknowledgment.
LEMMA ClaimStep ==
    ASSUME IInv, NEW w \in Workers, Claim(w)
    PROVE  IInv'
<1>k. /\ rows \in [Deliveries -> AcknowledgmentRow] /\ worker \in [Workers -> Worker]
      /\ \A d \in Deliveries : Held(rows[d])
  BY Known
<1>1. UNCHANGED <<stripe_gifts, adoption_intro_delivery_id, mailed>> /\ At(w, "idle")
  BY DEF Claim
<1>2. ASSUME NEW d \in Deliveries
      PROVE  /\ Exists(d)' /\ CurrentIsOpen(d)' /\ Mailed(d)' /\ Introduces(d)' /\ Held(rows'[d])
             /\ rows'[d].status = "PROCESSING" /\ rows'[d].claim # w =>
                   /\ rows[d].status = "PROCESSING"
                   /\ rows'[d].claim = rows[d].claim
                   /\ rows'[d].dispatched = rows[d].dispatched
             /\ rows[d].dispatched /\ rows[d].status \in {"PROCESSING", "REVIEW"} =>
                   /\ rows'[d].dispatched = rows[d].dispatched
                   /\ \/ rows'[d].status = rows[d].status /\ rows'[d].claim = rows[d].claim
                      \/ rows'[d].status = "REVIEW"
  <2>1. /\ Exists(d) /\ CurrentIsOpen(d) /\ Mailed(d) /\ Introduces(d)
        /\ rows[d] \in AcknowledgmentRow /\ Held(rows[d])
    BY Known DEF IInv
  <2>2. CASE rows'[d] = rows[d]
    BY <1>1, <2>1, <2>2, SameRow DEF Introduces
  <2>3. CASE /\ rows'[d] = ToReview(rows[d])
             /\ \/ rows[d].status = "PROCESSING"
                \/ rows[d].status = "FAILED" /\ rows[d].retry_safe
    <3>1. /\ rows'[d].status = "REVIEW" /\ ~rows'[d].retry_safe /\ rows'[d].claim = NULL
          /\ rows'[d].dispatched = rows[d].dispatched /\ rows'[d].snapshot = rows[d].snapshot
      BY <2>1, <2>3 DEF ToReview, AcknowledgmentRow
    <3> QED BY <1>1, <2>1, <2>3, <3>1 DEF Exists, CurrentIsOpen, Mailed, Introduces, Held, gift
  <2>4. CASE /\ rows'[d] = claimNextStripeAcknowledgment(rows[d], w)
             /\ rows[d].attempts < MaxAttempts
             /\ \/ rows[d].status = "PENDING"
                \/ rows[d].status = "FAILED" /\ rows[d].retry_safe
                \/ rows[d].status = "PROCESSING" /\ ~rows[d].dispatched
    <3>1. /\ rows'[d].status = "PROCESSING" /\ ~rows'[d].retry_safe /\ rows'[d].claim = w
          /\ ~rows'[d].dispatched /\ rows'[d].snapshot = rows[d].snapshot
      BY <2>1, <2>4 DEF claimNextStripeAcknowledgment, AcknowledgmentRow
    <3>2. w # NULL
      BY NullIsNoName
    <3>3. CurrentIsOpen(d)'
      BY <1>1, <2>1, <2>4, <3>1 DEF CurrentIsOpen, gift
    <3>4. Mailed(d)'
      BY <1>1, <2>1, <2>4, <3>1 DEF Mailed
    <3> QED BY <1>1, <2>1, <2>4, <3>1, <3>2, <3>3, <3>4 DEF Exists, Introduces, Held, gift
  <2> QED BY <2>2, <2>3, <2>4, ClaimWrites
<1>3. TypeOK'
  <2>1. ASSUME NEW d \in Deliveries PROVE [Idle EXCEPT !.pc = "snapshot", !.row = d] \in Worker
    BY DEF Idle, Worker
  <2>2. worker' \in [Workers -> Worker]
    <3>1. CASE worker' = worker
      BY <1>k, <3>1
    <3>2. CASE \E d \in Deliveries :
                 worker' = [worker EXCEPT ![w] = [Idle EXCEPT !.pc = "snapshot", !.row = d]]
      <4>1. PICK d \in Deliveries :
                 worker' = [worker EXCEPT ![w] = [Idle EXCEPT !.pc = "snapshot", !.row = d]]
        BY <3>2
      <4>2. PICK k \in Worker : k = [Idle EXCEPT !.pc = "snapshot", !.row = d]
        BY <2>1
      <4> QED BY <1>k, <4>1, <4>2
    <3> QED BY <3>1, <3>2, ClaimWrites
  <2> QED BY <1>1, <1>2, <2>2, ClaimWrites DEF IInv, TypeOK, rows, Held
<1>4. Knows(w)'
  <2>1. CASE worker' = worker
    BY <1>1, <2>1 DEF Knows, At
  <2>2. CASE \E d \in Deliveries :
               /\ worker' = [worker EXCEPT ![w] = [Idle EXCEPT !.pc = "snapshot", !.row = d]]
               /\ rows'[d] = claimNextStripeAcknowledgment(rows[d], w)
    <3>1. PICK d \in Deliveries :
               /\ worker' = [worker EXCEPT ![w] = [Idle EXCEPT !.pc = "snapshot", !.row = d]]
               /\ rows'[d] = claimNextStripeAcknowledgment(rows[d], w)
      BY <2>2
    <3>2. worker'[w].pc = "snapshot" /\ worker'[w].row = d /\ d # NULL
      BY <1>k, <3>1, Known DEF Idle
    <3>3. ~rows'[d].dispatched
      BY <1>k, <3>1 DEF claimNextStripeAcknowledgment, AcknowledgmentRow
    <3> QED BY <3>2, <3>3 DEF Knows, At
  <2> QED BY <2>1, <2>2, ClaimWrites
<1>5. ASSUME NEW v \in Workers, v # w PROVE Knows(v)' /\ worker'[v] = worker[v]
  <2>1. worker'[v] = worker[v]
    BY <1>5, <1>k, ClaimWrites
  <2>2. PICK d : d = worker[v].row
    OBVIOUS
  <2>3. CASE At(v, "idle")
    BY <2>1, <2>3 DEF Knows, At
  <2>4. CASE ~At(v, "idle")
    <3>1. Knows(v) /\ d \in Deliveries
      BY <2>2, <2>4, Known DEF IInv, Knows, Worker
    <3>2. /\ Owns(v)' => Owns(v) /\ rows'[d].dispatched = rows[d].dispatched
          /\ At(v, "send") => /\ rows'[d].dispatched = rows[d].dispatched
                              /\ Owns(v)' \/ rows'[d].status = "REVIEW"
      BY <1>2, <1>5, <2>1, <2>2, <3>1 DEF Owns, Row, Knows
    <3> QED BY <1>1, <2>1, <2>2, <3>2, Bystander
  <2> QED BY <2>1, <2>3, <2>4
<1>6. OneSender'
  <2>1. worker'[w].pc # "send"
    BY <1>1, <1>k, ClaimWrites DEF At, Idle
  <2> QED BY <1>5, <2>1 DEF IInv, OneSender, At
<1> QED BY <1>2, <1>3, <1>4, <1>5, <1>6 DEF IInv

\* The snapshot writes one row's evidence, and names the delivery that
\* introduces the new site once.
LEMMA SnapshotWrites ==
    ASSUME IInv, UNCHANGED <<stripe_gifts, mailed>>, NEW z \in Deliveries,
           snapshotStripeAcknowledgmentEvidence(z)
    PROVE  /\ rows' \in [Deliveries -> AcknowledgmentRow]
           /\ adoption_intro_delivery_id' \in Deliveries \cup {NULL}
           /\ \A d \in Deliveries :
                /\ Exists(d)' /\ CurrentIsOpen(d)' /\ Mailed(d)' /\ Introduces(d)' /\ Held(rows'[d])
                /\ rows'[d].status = rows[d].status /\ rows'[d].claim = rows[d].claim
                /\ rows'[d].dispatched = rows[d].dispatched
<1>k. /\ rows \in [Deliveries -> AcknowledgmentRow] /\ rows[z] \in AcknowledgmentRow
      /\ \A d \in Deliveries : Held(rows[d]) /\ rows[d] \in AcknowledgmentRow
      /\ adoption_intro_delivery_id \in Deliveries \cup {NULL} /\ NULL \notin Deliveries
      /\ \A d \in Deliveries : Introduces(d)
  BY Known DEF IInv
<1>1. CASE UNCHANGED <<adoption_intro_delivery_id, stripe_acknowledgment_deliveries>>
  <2>1. rows' = rows
    BY <1>1 DEF rows
  <2> QED BY <1>k, <1>1, <2>1, SameRow DEF Introduces
<1>2. CASE ~UNCHANGED <<adoption_intro_delivery_id, stripe_acknowledgment_deliveries>>
  <2>1. PICK intro : intro = IF EvidenceOf(z) = 0 THEN claimStripeAdoptionIntroduction(z)
                             ELSE adoption_intro_delivery_id
    OBVIOUS
  <2>2. PICK s \in {"PLAIN", "INTRO"} : s = IF EvidenceOf(z) = 0 /\ intro = z THEN "INTRO" ELSE "PLAIN"
    OBVIOUS
  <2>3. adoption_intro_delivery_id' = intro /\ SetRow(z, [rows[z] EXCEPT !.snapshot = s])
    BY <1>2, <2>1, <2>2 DEF snapshotStripeAcknowledgmentEvidence
  <2>4. [rows[z] EXCEPT !.snapshot = s] \in AcknowledgmentRow /\ Held([rows[z] EXCEPT !.snapshot = s])
    BY <1>k, RowTypes
  <2>5. /\ rows'[z] = [rows[z] EXCEPT !.snapshot = s]
        /\ \A d \in Deliveries \ {z} : rows'[d] = rows[d]
        /\ rows' \in [Deliveries -> AcknowledgmentRow]
    BY <2>3, <2>4, OneRow DEF rows
  <2>6. /\ rows'[z].status = rows[z].status /\ rows'[z].claim = rows[z].claim
        /\ rows'[z].dispatched = rows[z].dispatched /\ rows'[z].retry_safe = rows[z].retry_safe
        /\ rows'[z].snapshot = s
    BY <1>k, <2>5 DEF AcknowledgmentRow
  <2>7. /\ intro \in Deliveries \cup {NULL}
        /\ adoption_intro_delivery_id # NULL => intro = adoption_intro_delivery_id
    BY <1>k, <2>1 DEF claimStripeAdoptionIntroduction
  <2>8. ASSUME NEW d \in Deliveries PROVE Introduces(d)'
    <3>1. CASE d = z
      BY <2>2, <2>3, <2>6, <3>1 DEF Introduces
    <3>2. CASE d # z
      BY <1>k, <2>3, <2>5, <2>7, <3>2 DEF Introduces
    <3> QED BY <3>1, <3>2
  <2>9. ASSUME NEW d \in Deliveries
        PROVE  /\ rows'[d].status = rows[d].status /\ rows'[d].claim = rows[d].claim
               /\ rows'[d].dispatched = rows[d].dispatched
               /\ rows'[d].retry_safe = rows[d].retry_safe
    BY <2>5, <2>6
  <2> QED BY <1>k, <2>3, <2>5, <2>7, <2>8, <2>9, SameRow DEF Held
<1> QED BY <1>1, <1>2

\* The webhook's snapshot.
LEMMA WebhookSnapshotStep ==
    ASSUME IInv, NEW d \in Deliveries, WebhookSnapshot(d)
    PROVE  IInv'
<1>1. UNCHANGED <<stripe_gifts, worker, mailed>> /\ snapshotStripeAcknowledgmentEvidence(d)
  BY DEF WebhookSnapshot
<1>2. TypeOK'
  BY <1>1, SnapshotWrites DEF IInv, TypeOK, rows, Held
<1> QED BY <1>1, <1>2, SnapshotWrites, WorkersKeep DEF IInv

\* A worker that moves on while the rows' claims stay.
LEMMA WorkerMoves ==
    ASSUME IInv, NEW w \in Workers, NEW new \in Worker, worker' = [worker EXCEPT ![w] = new],
           UNCHANGED <<stripe_gifts, mailed>>, new.pc # "send",
           \A d \in Deliveries : /\ rows'[d].status = rows[d].status /\ rows'[d].claim = rows[d].claim
                                 /\ rows'[d].dispatched = rows[d].dispatched
    PROVE  /\ worker' \in [Workers -> Worker] /\ worker'[w] = new
           /\ \A v \in Workers \ {w} : Knows(v)'
           /\ OneSender'
<1>1. /\ worker' \in [Workers -> Worker] /\ worker'[w] = new
      /\ \A v \in Workers \ {w} : worker'[v] = worker[v]
  BY Known
<1>2. ASSUME NEW v \in Workers \ {w} PROVE Knows(v)'
  <2>1. PICK d : d = worker[v].row
    OBVIOUS
  <2>2. Knows(v) /\ (~At(v, "idle") => d \in Deliveries)
    BY <2>1, Known DEF IInv, Knows, Worker
  <2> QED BY <1>1, <2>1, <2>2 DEF Knows, At, Owns, Row
<1> QED BY <1>1, <1>2 DEF IInv, OneSender, At

\* A delivery's own snapshot.
LEMMA SnapshotStep ==
    ASSUME IInv, NEW w \in Workers, Snapshot(w)
    PROVE  IInv'
<1>1. PICK d \in Deliveries : d = worker[w].row
  BY Known DEF Snapshot, At, IInv, Knows, Worker
<1>2. UNCHANGED <<stripe_gifts, mailed>> /\ snapshotStripeAcknowledgmentEvidence(d)
  BY <1>1 DEF Snapshot
<1>3. PICK new \in Worker : /\ worker' = [worker EXCEPT ![w] = new]
                            /\ new.row = d
                            /\ \/ new.pc = "dispatch"
                               \/ new.pc = "finalize" /\ new.end = "REVIEW"
  <2>1. worker[w] \in Worker /\ worker[w].row = d
    BY <1>1, Known
  <2>2. CASE Goto(w, "dispatch")
    <3>1. [worker[w] EXCEPT !.pc = "dispatch"] \in Worker
      BY <2>1 DEF Worker
    <3> QED BY <2>1, <2>2, <3>1 DEF Goto, Worker
  <2>3. CASE End(w, "REVIEW")
    <3>1. [worker[w] EXCEPT !.pc = "finalize", !.end = "REVIEW"] \in Worker
      BY <2>1 DEF Worker
    <3> QED BY <2>1, <2>3, <3>1 DEF End, Worker
  <2> QED BY <2>2, <2>3 DEF Snapshot
<1>4. /\ worker' \in [Workers -> Worker] /\ worker'[w] = new
      /\ \A v \in Workers \ {w} : Knows(v)'
      /\ OneSender'
  BY <1>2, <1>3, SnapshotWrites, WorkerMoves
<1>5. Knows(w)'
  <2>1. Knows(w) /\ At(w, "snapshot")
    BY DEF IInv, Snapshot
  <2>2. Owns(w)' => Owns(w)
    BY <1>1, <1>2, <1>3, <1>4, SnapshotWrites DEF Owns, Row
  <2>3. rows'[d].dispatched = rows[d].dispatched /\ d # NULL
    BY <1>2, SnapshotWrites, Known
  <2> QED BY <1>1, <1>3, <1>4, <2>1, <2>2, <2>3 DEF Knows, At
<1>6. TypeOK'
  BY <1>2, <1>4, SnapshotWrites DEF IInv, TypeOK, rows, Held
<1> QED BY <1>2, <1>4, <1>5, <1>6, SnapshotWrites DEF IInv

\* A worker whose steps write no row: it cannot send the mail, or dies.
LEMMA QuitStep ==
    ASSUME IInv, NEW w \in Workers, Unsendable(w) \/ Crash(w)
    PROVE  IInv'
<1>1. UNCHANGED <<stripe_gifts, stripe_acknowledgment_deliveries, adoption_intro_delivery_id, mailed>>
      /\ rows' = rows
  BY DEF Unsendable, Crash, rows
<1>2. PICK new \in Worker : /\ worker' = [worker EXCEPT ![w] = new]
                            /\ \/ new.pc = "idle"
                               \/ /\ At(w, "dispatch") /\ new.pc = "finalize"
                                  /\ new.row = worker[w].row /\ new.end \in {"REVIEW", "RETRY"}
  <2>1. CASE Crash(w)
    <3>1. Idle \in Worker /\ Idle.pc = "idle"
      BY DEF Idle, Worker
    <3> QED BY <2>1, <3>1 DEF Crash
  <2>2. CASE Unsendable(w)
    <3>1. PICK end \in {"REVIEW", "RETRY"} : End(w, end)
      BY <2>2 DEF Unsendable
    <3>2. PICK new : new = [worker[w] EXCEPT !.pc = "finalize", !.end = end]
      OBVIOUS
    <3>3. new \in Worker /\ new.pc = "finalize" /\ new.row = worker[w].row /\ new.end = end
      BY <3>2, Known DEF Worker
    <3> QED BY <2>2, <3>1, <3>2, <3>3 DEF Unsendable, End
  <2> QED BY <2>1, <2>2
<1>3. /\ worker' \in [Workers -> Worker] /\ worker'[w] = new
      /\ \A v \in Workers \ {w} : Knows(v)'
      /\ OneSender'
  BY <1>1, <1>2, WorkerMoves
<1>4. Knows(w)'
  <2>1. CASE new.pc = "idle"
    BY <1>3, <2>1 DEF Knows, At
  <2>2. CASE new.pc # "idle"
    <3>1. At(w, "dispatch") /\ Knows(w)
      BY <1>2, <2>2 DEF IInv
    <3>2. worker[w].row \in Deliveries
      BY <3>1, Known DEF Knows, At, Worker
    <3>3. Owns(w) => mailed[worker[w].row] = 0
      BY <3>1, <3>2 DEF IInv, Knows, Mailed, At
    <3> QED BY <1>1, <1>2, <1>3, <2>2, <3>1, <3>3 DEF Knows, At, Owns, Row
  <2> QED BY <2>1, <2>2
<1>5. TypeOK'
  BY <1>1, <1>3 DEF IInv, TypeOK, rows
<1>6. \A d \in Deliveries : Exists(d)' /\ CurrentIsOpen(d)' /\ Mailed(d)' /\ Introduces(d)'
  BY <1>1, SameRow DEF IInv, Introduces
<1> QED BY <1>3, <1>4, <1>5, <1>6 DEF IInv

\* beforeDispatch.
LEMMA DispatchStep ==
    ASSUME IInv, NEW w \in Workers, Dispatch(w)
    PROVE  IInv'
<1>0. UNCHANGED <<stripe_gifts, adoption_intro_delivery_id, mailed>> /\ At(w, "dispatch") /\ Knows(w)
  BY DEF Dispatch, IInv
<1>1. PICK d \in Deliveries : d = worker[w].row
  BY <1>0, Known DEF At, Knows, Worker
<1>k. /\ worker \in [Workers -> Worker] /\ worker[w] \in Worker
      /\ rows[d] \in AcknowledgmentRow /\ Held(rows[d]) /\ NULL \notin Deliveries
  BY Known
<1>m. Owns(w) => mailed[d] = 0 /\ ~rows[d].dispatched
  BY <1>0, <1>1 DEF Knows, At, Owns, Row, IInv, Mailed
<1>2. CASE markStripeAcknowledgmentDispatchStartedEnabled(d, w)
  <2>1. PICK row : row = [rows[d] EXCEPT !.dispatched = TRUE]
    OBVIOUS
  <2>2. row \in AcknowledgmentRow /\ Held(row)
    BY <1>k, <2>1, RowTypes
  <2>3. /\ row.status = rows[d].status /\ row.claim = rows[d].claim /\ row.dispatched
        /\ row.retry_safe = rows[d].retry_safe /\ row.snapshot = rows[d].snapshot
    BY <1>k, <2>1 DEF AcknowledgmentRow
  <2>4. SetRow(d, row) /\ Goto(w, "send")
    BY <1>1, <1>2, <2>1 DEF Dispatch, Row
  <2>5. /\ rows'[d] = row /\ \A x \in Deliveries \ {d} : rows'[x] = rows[x]
        /\ stripe_acknowledgment_deliveries' \in [Deliveries -> AcknowledgmentRow]
        /\ \A x \in Deliveries : (rows[x].status = "PROCESSING")' = (rows[x].claim # NULL)'
    BY <2>2, <2>4, OneRow
  <2>6. /\ worker' \in [Workers -> Worker] /\ worker'[w].pc = "send" /\ worker'[w].row = d
        /\ \A v \in Workers \ {w} : worker'[v] = worker[v]
    <3>1. [worker[w] EXCEPT !.pc = "send"] \in Worker
      BY <1>k DEF Worker
    <3> QED BY <1>1, <1>k, <2>4, <3>1 DEF Goto, Worker
  <2>7. rows[d].status = "PROCESSING" /\ rows[d].claim = w /\ ~rows[d].dispatched /\ Owns(w)
    BY <1>1, <1>2 DEF markStripeAcknowledgmentDispatchStartedEnabled, Owns, Row
  <2>8. ASSUME NEW x \in Deliveries
        PROVE  Exists(x)' /\ CurrentIsOpen(x)' /\ Mailed(x)' /\ Introduces(x)'
    <3>1. Exists(x) /\ CurrentIsOpen(x) /\ Mailed(x) /\ Introduces(x)
      BY DEF IInv
    <3>2. CASE x = d
      BY <1>0, <2>3, <2>5, <2>7, <3>1, <3>2 DEF Exists, CurrentIsOpen, Mailed, Introduces, gift
    <3>3. CASE x # d
      BY <1>0, <2>5, <3>1, <3>3 DEF Exists, CurrentIsOpen, Mailed, Introduces, gift
    <3> QED BY <3>2, <3>3
  <2>9. Knows(w)'
    BY <1>0, <1>k, <1>m, <2>3, <2>5, <2>6, <2>7 DEF Knows, At, Owns, Row
  <2>10. ASSUME NEW v \in Workers, v # w
         PROVE  /\ Knows(v)'
                /\ ~(At(v, "send") /\ worker[v].row = d)
    <3>1. Knows(v) /\ (~At(v, "idle") => worker[v].row \in Deliveries)
      BY Known DEF IInv, Knows, Worker
    <3>2. ~(At(v, "send") /\ worker[v].row = d)
      BY <2>7, <3>1 DEF Knows
    <3>3. ~At(v, "idle") => (Owns(v)' => Owns(v) /\ worker[v].row # d)
      BY <2>3, <2>5, <2>6, <2>7, <2>10, <3>1 DEF Owns, Row
    <3>4. ~At(v, "idle") /\ worker[v].row # d => /\ rows'[worker[v].row] = rows[worker[v].row]
                                                  /\ (Owns(v)' <=> Owns(v))
      BY <2>5, <2>6, <2>10, <3>1 DEF Owns, Row
    <3> QED BY <1>0, <2>6, <2>10, <3>1, <3>2, <3>3, <3>4 DEF Knows, At
  <2>11. OneSender'
    BY <2>6, <2>10 DEF IInv, OneSender, At
  <2>12. TypeOK'
    BY <1>0, <2>5, <2>6 DEF IInv, TypeOK
  <2> QED BY <2>8, <2>9, <2>10, <2>11, <2>12 DEF IInv
<1>3. CASE ~markStripeAcknowledgmentDispatchStartedEnabled(d, w)
  <2>1. UNCHANGED stripe_acknowledgment_deliveries /\ End(w, "RETRY") /\ rows' = rows
    BY <1>1, <1>3 DEF Dispatch, rows
  <2>2. PICK new : new = [worker[w] EXCEPT !.pc = "finalize", !.end = "RETRY"]
    OBVIOUS
  <2>3. new \in Worker /\ new.pc = "finalize" /\ new.row = d /\ new.end = "RETRY"
    BY <1>1, <1>k, <2>2 DEF Worker
  <2>4. /\ worker' \in [Workers -> Worker] /\ worker'[w] = new
        /\ \A v \in Workers \ {w} : Knows(v)'
        /\ OneSender'
    BY <1>0, <2>1, <2>2, <2>3, WorkerMoves DEF End
  <2>5. Knows(w)'
    BY <1>0, <1>1, <1>k, <1>m, <2>1, <2>3, <2>4 DEF Knows, At, Owns, Row
  <2>6. TypeOK'
    BY <1>0, <2>1, <2>4 DEF IInv, TypeOK, rows
  <2>7. \A x \in Deliveries : Exists(x)' /\ CurrentIsOpen(x)' /\ Mailed(x)' /\ Introduces(x)'
    BY <1>0, <2>1, SameRow DEF IInv, Introduces
  <2> QED BY <2>4, <2>5, <2>6, <2>7 DEF IInv
<1> QED BY <1>2, <1>3

\* The call of the provider.
LEMMA SendStep ==
    ASSUME IInv, NEW w \in Workers, Send(w)
    PROVE  IInv'
<1>0. /\ UNCHANGED <<stripe_gifts, stripe_acknowledgment_deliveries, adoption_intro_delivery_id>>
      /\ At(w, "send") /\ Knows(w) /\ rows' = rows
  BY DEF Send, IInv, rows
<1>1. PICK d \in Deliveries : d = worker[w].row
  BY <1>0, Known DEF At, Knows, Worker
<1>2. /\ rows[d].dispatched /\ mailed[d] = 0
      /\ Owns(w) \/ rows[d].status = "REVIEW"
  BY <1>0, <1>1 DEF Knows
<1>3. PICK took \in BOOLEAN, end \in {"SENT", "REVIEW", "RETRY", "FAILED"} :
         /\ End(w, end)
         /\ took => end \in {"SENT", "REVIEW"} /\ mailed' = [mailed EXCEPT ![d] = @ + 1]
         /\ ~took => UNCHANGED mailed
  <2>1. CASE /\ mailed' = [mailed EXCEPT ![d] = @ + 1]
             /\ \E end \in {"SENT", "REVIEW"} : End(w, end)
    BY <2>1
  <2>2. CASE UNCHANGED mailed /\ \E end \in {"RETRY", "FAILED", "REVIEW"} : End(w, end)
    BY <2>2
  <2> QED BY <1>1, <2>1, <2>2 DEF Send
<1>4. /\ \A x \in Deliveries \ {d} : mailed'[x] = mailed[x]
      /\ mailed'[d] \in {0, 1} /\ (mailed'[d] = 1 => end \in {"SENT", "REVIEW"})
  <2>1. CASE ~took
    BY <1>2, <1>3, <2>1
  <2>2. CASE took
    BY <1>2, <1>3, <2>2, Known
  <2> QED BY <2>1, <2>2
<1>5. mailed' \in [Deliveries -> Nat]
  BY <1>3, Known
<1>6. PICK new : new = [worker[w] EXCEPT !.pc = "finalize", !.end = end]
  OBVIOUS
<1>7. new \in Worker /\ new.pc = "finalize" /\ new.row = d /\ new.end = end
  BY <1>1, <1>6, Known DEF Worker
<1>8. /\ worker' \in [Workers -> Worker] /\ worker'[w] = new
      /\ \A v \in Workers \ {w} : worker'[v] = worker[v]
  BY <1>3, <1>6, <1>7, Known DEF End
<1>9. TypeOK'
  BY <1>0, <1>5, <1>8 DEF IInv, TypeOK, rows
<1>10. ASSUME NEW x \in Deliveries
       PROVE  Exists(x)' /\ CurrentIsOpen(x)' /\ Mailed(x)' /\ Introduces(x)'
  <2>1. Exists(x) /\ CurrentIsOpen(x) /\ Mailed(x) /\ Introduces(x)
    BY DEF IInv
  <2>2. Mailed(x)'
    <3>1. rows[d].status \in {"PROCESSING", "REVIEW"}
      BY <1>1, <1>2 DEF Owns, Row
    <3>2. CASE x = d
      BY <1>0, <1>2, <1>4, <3>1, <3>2 DEF Mailed
    <3>3. CASE x # d
      BY <1>0, <1>4, <2>1, <3>3 DEF Mailed
    <3> QED BY <3>2, <3>3
  <2> QED BY <1>0, <2>1, <2>2 DEF Exists, CurrentIsOpen, Introduces, gift
<1>11. Knows(w)'
  BY <1>0, <1>1, <1>4, <1>7, <1>8, Known DEF Knows, At
<1>12. ASSUME NEW v \in Workers \ {w} PROVE Knows(v)'
  <2>1. Knows(v) /\ (~At(v, "idle") => worker[v].row \in Deliveries)
    BY Known DEF IInv, Knows, Worker
  <2>2. At(v, "send") => worker[v].row # d
    BY <1>0, <1>1 DEF IInv, OneSender
  <2>3. ~At(v, "idle") /\ Owns(v) => worker[v].row # d
    BY <1>1, <1>2, <2>1 DEF Owns, Row
  <2>4. Owns(v)' <=> Owns(v)
    BY <1>0, <1>8 DEF Owns, Row
  <2> QED BY <1>0, <1>4, <1>8, <2>1, <2>2, <2>3, <2>4 DEF Knows, At
<1>13. OneSender'
  BY <1>7, <1>8 DEF IInv, OneSender, At
<1> QED BY <1>9, <1>10, <1>11, <1>12, <1>13 DEF IInv

\* finalizeStripeAcknowledgment.
LEMMA FinalizeStep ==
    ASSUME IInv, NEW w \in Workers, Finalize(w)
    PROVE  IInv'
<1>0. UNCHANGED <<stripe_gifts, adoption_intro_delivery_id, mailed>> /\ At(w, "finalize") /\ Knows(w)
  BY DEF Finalize, IInv
<1>1. PICK d \in Deliveries : d = worker[w].row
  BY <1>0, Known DEF At, Knows, Worker
<1>k. /\ worker \in [Workers -> Worker] /\ worker[w] \in Worker
      /\ rows[d] \in AcknowledgmentRow /\ Held(rows[d])
  BY Known
<1>2. PICK end \in {"SENT", "RETRY", "FAILED", "REVIEW"} : end = worker[w].end
  BY <1>0, <1>k DEF Knows, Worker
<1>3. /\ worker' \in [Workers -> Worker] /\ worker'[w].pc = "idle"
      /\ \A v \in Workers \ {w} : worker'[v] = worker[v]
  <2>1. Idle \in Worker /\ Idle.pc = "idle"
    BY DEF Idle, Worker
  <2> QED BY <1>k, <2>1 DEF Finalize
<1>4. Knows(w)' /\ OneSender'
  BY <1>3 DEF IInv, Knows, OneSender, At
<1>5. CASE Owns(w)
  <2>1. PICK row : row = finalizeStripeAcknowledgment(rows[d], end)
    OBVIOUS
  <2>2. row \in AcknowledgmentRow /\ Held(row)
    BY <1>k, <2>1, RowTypes
  <2>3. /\ row.snapshot = rows[d].snapshot /\ row.dispatched = rows[d].dispatched
        /\ row.claim = NULL
        /\ \/ row.status = "FAILED" /\ end = "RETRY"
           \/ row.status = "REVIEW" /\ end = "RETRY" /\ ~row.retry_safe
           \/ row.status = end /\ end # "RETRY" /\ ~row.retry_safe
    <3>1. CASE end = "RETRY" /\ rows[d].attempts < MaxAttempts
      BY <1>k, <2>1, <3>1 DEF finalizeStripeAcknowledgment, AcknowledgmentRow
    <3>2. CASE end = "RETRY" /\ ~(rows[d].attempts < MaxAttempts)
      BY <1>k, <2>1, <3>2 DEF finalizeStripeAcknowledgment, AcknowledgmentRow
    <3>3. CASE end # "RETRY"
      BY <1>k, <2>1, <3>3 DEF finalizeStripeAcknowledgment, AcknowledgmentRow
    <3> QED BY <3>1, <3>2, <3>3
  <2>4. SetRow(d, row)
    BY <1>1, <1>2, <1>5, <2>1 DEF Finalize, finalizeStripeAcknowledgmentEnabled, Owns, Row
  <2>5. /\ rows'[d] = row /\ \A x \in Deliveries \ {d} : rows'[x] = rows[x]
        /\ stripe_acknowledgment_deliveries' \in [Deliveries -> AcknowledgmentRow]
        /\ \A x \in Deliveries : (rows[x].status = "PROCESSING")' = (rows[x].claim # NULL)'
    BY <2>2, <2>4, OneRow
  <2>6. TypeOK'
    BY <1>0, <1>3, <2>5 DEF IInv, TypeOK
  <2>7. end \in {"RETRY", "FAILED"} => mailed[d] = 0
    BY <1>0, <1>1, <1>2, <1>5 DEF Knows
  <2>8. ASSUME NEW x \in Deliveries
        PROVE  Exists(x)' /\ CurrentIsOpen(x)' /\ Mailed(x)' /\ Introduces(x)'
    <3>1. Exists(x) /\ CurrentIsOpen(x) /\ Mailed(x) /\ Introduces(x)
      BY DEF IInv
    <3>2. CASE x = d
      <4>1. rows[d].status = "PROCESSING" /\ row.status # "NONE"
        BY <1>1, <1>5, <2>3 DEF Owns, Row
      <4> QED BY <1>0, <2>3, <2>5, <2>7, <3>1, <3>2, <4>1
              DEF Exists, CurrentIsOpen, Mailed, Introduces, gift
    <3>3. CASE x # d
      BY <1>0, <2>5, <3>1, <3>3 DEF Exists, CurrentIsOpen, Mailed, Introduces, gift
    <3> QED BY <3>2, <3>3
  <2>9. ASSUME NEW v \in Workers \ {w} PROVE Knows(v)'
    <3>1. Knows(v) /\ (~At(v, "idle") => worker[v].row \in Deliveries)
      BY Known DEF IInv, Knows, Worker
    <3>2. rows[d].status = "PROCESSING" /\ rows[d].claim = w /\ row.status # "PROCESSING"
      BY <1>1, <1>5, <2>3 DEF Owns, Row
    <3>3. At(v, "send") => worker[v].row # d
      BY <3>1, <3>2 DEF Knows, Owns, Row
    <3>4. ~At(v, "idle") => (Owns(v)' => Owns(v) /\ worker[v].row # d)
      BY <1>3, <2>5, <3>1, <3>2 DEF Owns, Row
    <3>5. ~At(v, "idle") /\ worker[v].row # d => /\ rows'[worker[v].row] = rows[worker[v].row]
                                                  /\ (Owns(v)' <=> Owns(v))
      BY <1>3, <2>5, <3>1 DEF Owns, Row
    <3> QED BY <1>0, <1>3, <3>1, <3>3, <3>4, <3>5 DEF Knows, At
  <2> QED BY <1>4, <2>6, <2>8, <2>9 DEF IInv
<1>6. CASE ~Owns(w)
  <2>1. UNCHANGED stripe_acknowledgment_deliveries /\ rows' = rows
    BY <1>6 DEF Finalize, finalizeStripeAcknowledgmentEnabled, Owns, rows
  <2>2. TypeOK'
    BY <1>0, <1>3, <2>1 DEF IInv, TypeOK, rows
  <2>3. \A x \in Deliveries : Exists(x)' /\ CurrentIsOpen(x)' /\ Mailed(x)' /\ Introduces(x)'
    BY <1>0, <2>1, SameRow DEF IInv, Introduces
  <2>4. ASSUME NEW v \in Workers \ {w} PROVE Knows(v)'
    <3>1. Knows(v) /\ (Owns(v)' <=> Owns(v))
      BY <1>3, <2>1 DEF IInv, Owns, Row
    <3> QED BY <1>0, <1>3, <2>1, <3>1 DEF Knows, At
  <2> QED BY <1>4, <2>2, <2>3, <2>4 DEF IInv
<1> QED BY <1>5, <1>6

\* handleStripeAcknowledgmentReconcile.
LEMMA ReconcileStep ==
    ASSUME IInv, NEW d \in Deliveries, NEW sent \in BOOLEAN, Reconcile(d, sent)
    PROVE  IInv'
<1>k. rows[d] \in AcknowledgmentRow /\ Held(rows[d]) /\ mailed[d] \in Nat
  BY Known
<1>1. PICK row : row = reconcileStripeAcknowledgment(rows[d], sent)
  OBVIOUS
<1>2. row \in AcknowledgmentRow /\ Held(row)
  BY <1>k, <1>1, RowTypes
<1>3. /\ row.status = IF sent THEN "SENT" ELSE "FAILED"
      /\ row.dispatched = sent /\ row.retry_safe = ~sent /\ row.snapshot = rows[d].snapshot
  BY <1>k, <1>1 DEF reconcileStripeAcknowledgment, AcknowledgmentRow
<1>4. /\ SetRow(d, row) /\ UNCHANGED <<stripe_gifts, adoption_intro_delivery_id, worker, mailed>>
      /\ rows[d].status \in {"FAILED", "REVIEW"}
      /\ \A w \in Workers : ~(At(w, "send") /\ worker[w].row = d)
      /\ sent = (mailed[d] > 0)
      /\ sent \/ EvidenceOf(d) = gift[GiftOf(d)].refunded
  BY <1>1 DEF Reconcile
<1>5. /\ rows'[d] = row /\ \A x \in Deliveries \ {d} : rows'[x] = rows[x]
      /\ stripe_acknowledgment_deliveries' \in [Deliveries -> AcknowledgmentRow]
      /\ \A x \in Deliveries : (rows[x].status = "PROCESSING")' = (rows[x].claim # NULL)'
  BY <1>2, <1>4, OneRow
<1>6. TypeOK'
  BY <1>4, <1>5 DEF IInv, TypeOK
<1>7. ASSUME NEW x \in Deliveries
      PROVE  Exists(x)' /\ CurrentIsOpen(x)' /\ Mailed(x)' /\ Introduces(x)'
  <2>1. Exists(x) /\ CurrentIsOpen(x) /\ Mailed(x) /\ Introduces(x)
    BY DEF IInv
  <2>2. CASE x = d
    <3>1. gift' = gift /\ mailed' = mailed
          /\ adoption_intro_delivery_id' = adoption_intro_delivery_id
      BY <1>4 DEF gift
    <3>2. rows[d].status # "NONE" /\ row.status # "NONE"
      BY <1>3, <1>4
    <3>3. CASE sent
      BY <1>3, <1>4, <1>5, <2>1, <2>2, <3>1, <3>2, <3>3
         DEF Exists, CurrentIsOpen, Mailed, Introduces
    <3>4. CASE ~sent
      <4>0. ~(mailed[d] > 0)
        BY <1>4, <3>4, Zenon
      <4>1. mailed[d] = 0
        BY <1>k, <4>0
      <4> QED BY <1>3, <1>4, <1>5, <2>1, <2>2, <3>1, <3>2, <3>4, <4>1
              DEF Exists, CurrentIsOpen, Mailed, Introduces
    <3> QED BY <3>3, <3>4
  <2>3. CASE x # d
    BY <1>4, <1>5, <2>1, <2>3 DEF Exists, CurrentIsOpen, Mailed, Introduces, gift
  <2> QED BY <2>2, <2>3
<1>8. (\A w \in Workers : Knows(w)') /\ OneSender'
  BY <1>3, <1>4, <1>5, WorkersKeep
<1> QED BY <1>6, <1>7, <1>8 DEF IInv

-----------------------------------------------------------------------------
(* The theorems.                                                           *)

\* The invariant holds in every state, for any number of gifts and workers.
THEOREM InvariantHolds == Spec => []IInv
<1>1. IInv /\ UNCHANGED vars => IInv'
  <2> SUFFICES ASSUME IInv, UNCHANGED vars PROVE IInv'
    OBVIOUS
  <2>1. rows' = rows /\ gift' = gift
    BY DEF vars, rows, gift
  <2> QED BY <2>1 DEF vars, IInv, TypeOK, Exists, CurrentIsOpen, Mailed, Introduces, Knows,
                      OneSender, At, Owns, Row
<1>2. IInv /\ [Next]_vars => IInv'
  BY <1>1, RecordGiftStep, GiftStep, RefundStep, ClaimStep, SnapshotStep, DispatchStep, QuitStep,
     SendStep, FinalizeStep, WebhookSnapshotStep, ReconcileStep DEF Next
<1> QED BY InitInv, <1>2, PTL DEF Spec

\* The rows and the workers keep their types, and a delivery has a claim while
\* it is being processed only.
THEOREM TypeCorrect == Spec => []TypeOK
<1>1. IInv => TypeOK
  BY DEF IInv
<1> QED BY <1>1, InvariantHolds, PTL

\* The provider takes the mail of a gift and evidence once, none of a gift the
\* adoption recorded, and one mail at most introduces the new site.
THEOREM OneMail == Spec => []AtMostOneMail
<1>1. IInv => AtMostOneMail
  <2> SUFFICES ASSUME IInv PROVE AtMostOneMail
    OBVIOUS
  <2>1. ASSUME NEW d \in Deliveries
        PROVE  IF gift[GiftOf(d)].suppressed THEN mailed[d] = 0 /\ rows[d].status = "NONE"
                                             ELSE mailed[d] <= 1
    <3>1. Exists(d) /\ Mailed(d)
      BY DEF IInv
    <3> QED BY <3>1 DEF Exists, Mailed
  <2>2. PICK S : S = {d \in Deliveries : rows[d].snapshot = "INTRO"}
    OBVIOUS
  <2>3. \A d \in S : d = adoption_intro_delivery_id
    BY <2>2 DEF IInv, Introduces
  <2>4. S = {} \/ S = {adoption_intro_delivery_id}
    BY <2>3
  <2>5. Cardinality(S) <= 1
    <3>1. CASE S = {}
      BY <3>1, FS_EmptySet
    <3>2. CASE S = {adoption_intro_delivery_id}
      BY <3>2, FS_Singleton
    <3> QED BY <2>4, <3>1, <3>2
  <2> QED BY <2>1, <2>2, <2>5 DEF AtMostOneMail
<1> QED BY <1>1, InvariantHolds, PTL

\* Only the delivery of what is refunded now can still be claimed, tried again
\* or finalized.
THEOREM CurrentOnly == Spec => []OnlyCurrentIsOpen
<1>1. IInv => OnlyCurrentIsOpen
  BY DEF IInv, CurrentIsOpen, OnlyCurrentIsOpen
<1> QED BY <1>1, InvariantHolds, PTL

=============================================================================
