----------------------------- MODULE PostAccept -----------------------------
(***************************************************************************)
(* What happens to one CDE after MH has accepted it:                       *)
(*                                                                         *)
(*   finalizer  finalizeAcceptedDocument (called after a transmission, by  *)
(*              queue redeliveries and by two cron sweeps): complete the   *)
(*              donation intent, send the definitive receipt once, write   *)
(*              the audits, mark the document finalized                    *)
(*   resend     POST /api/documents/:id/resend, by an operator             *)
(*   edit       PATCH /api/documents/:id/email                             *)
(*                                                                         *)
(* interleaved statement by statement.  Both leases (finalization claim    *)
(* and delivery claim) expire after 15 minutes, and a run that outlived    *)
(* its lease may still be going: expiry is an action of its own.  As in    *)
(* FiscalOperations a run stands for the claim and token it mints, and may *)
(* crash between any two statements.                                       *)
(***************************************************************************)
EXTENDS DteDocuments, Naturals

CONSTANTS Requests,  \* resend_request_ids
          Emails     \* addresses

INSTANCE EmailDeliveries WITH Tokens <- Ids

ASSUME NullIsNoRequest == NULL \notin Requests \cup Emails

Runs == Ids

FinalizerPCs == {"reload", "intent", "complete_intent", "email", "claim_email",
                 "mark_document", "audit_intent", "audit_accepted",
                 "audit_finalized", "mark_finalized", "catch", "release"}

ResendPCs == {"manual_reclaim", "manual_claim"}

SendPCs == {"prepare", "mark_delivery", "send", "record"}

\* key is NULL for a finalizer; started is emailDispatchStarted.
RunState == [pc      : {"idle"} \cup FinalizerPCs \cup ResendPCs \cup SendPCs,
             key     : Keys,
             to      : Emails \cup {NULL},
             started : BOOLEAN,
             outcome : Outcomes \cup {"SENT"}]

IdleRun == [pc |-> "idle", key |-> NULL, to |-> NULL, started |-> FALSE, outcome |-> "NONE"]

Audits == {"EMAIL_SKIPPED", "DONATION_INTENT_COMPLETED", "DTE_ACCEPTED",
           "DTE_ACCEPTED_FINALIZED"}

VARIABLES
    document,       \* the row of dte_documents
    donor_email,    \* its donor_email
    email_started,  \* its post_accept_email_dispatch_started_at IS NOT NULL
    fin_stale,      \* its finalization claim is older than the lease
    intent,         \* the donation intent behind the payment
    audits,         \* the post-accept audits written
    deliveries,     \* the receipts' rows of email_deliveries
    latest,         \* the delivery with the highest attempt_no
    run,            \* handlers in flight
    outbox          \* mails the provider accepted, per key (history)

vars == <<document, donor_email, email_started, fin_stale, intent, audits,
          deliveries, latest, run, outbox>>

rowVars == <<document, donor_email, email_started, fin_stale>>

mailVars == <<deliveries, latest, outbox>>

\* The document completeDocumentTransmission has just accepted.  intent:
\* NONE for a payment without one, OPEN while it can be completed (LINK_CREATED
\* or EXPIRED), SWITCHED once its provider no longer matches the payment's.
Init ==
    /\ document = [createDteDocument EXCEPT !.status = "ACCEPTED",
                                            !.signed_jws = TRUE, !.sello = TRUE]
    /\ donor_email \in Emails \cup {NULL}
    /\ email_started = FALSE
    /\ fin_stale = FALSE
    /\ intent \in {"NONE", "OPEN"}
    /\ audits = {}
    /\ deliveries = [k \in Keys |-> NoDelivery]
    /\ latest = {}
    /\ run = [r \in Runs |-> IdleRun]
    /\ outbox = [k \in Keys |-> 0]

-----------------------------------------------------------------------------

At(r, pc) == run[r].pc = pc

Goto(r, pc) == run' = [run EXCEPT ![r].pc = pc]

Return(r) == run' = [run EXCEPT ![r] = IdleRun]

\* newId.  A token left in a delivery by a dead run may be minted again: a run
\* compares its token only after a claim of its own has written it.
Fresh(r) == run[r] = IdleRun /\ document.fin_claim # r

\* The ownership condition shared by the statements of a finalizer.
Owner(r) == document.status = "ACCEPTED" /\ ~document.finalized_at /\ document.fin_claim = r

\* A failed statement of a finalizer throws to its catch block; a resend
\* answers with an error.
Throws(r) == IF run[r].key = NULL THEN Goto(r, "catch") ELSE Return(r)

-----------------------------------------------------------------------------
(* finalizeAcceptedDocument.                                               *)

\* A bug for the mutation test: no stale claim is ever taken over.
NeverTakesOver == FALSE

\* POST_ACCEPT_FINALIZATION_CLAIMABLE_PREDICATE for a claimed row.
Takeover ==
    /\ fin_stale
    /\ donor_email = NULL \/ ~email_started \/ hasHandledEmail(deliveries)

FinClaim(r) ==
    /\ Fresh(r)
    /\ claimDocumentPostAcceptFinalizationEnabled(document, Takeover)
    /\ document' = claimDocumentPostAcceptFinalization(document, r)
    /\ fin_stale' = FALSE
    /\ run' = [run EXCEPT ![r] = [IdleRun EXCEPT !.pc = "reload"]]
    /\ UNCHANGED <<donor_email, email_started, intent, audits, mailVars>>

\* The row is read again under the claim: this fixes the recipient.
Reload(r) ==
    /\ At(r, "reload")
    /\ IF Owner(r)
         THEN run' = [run EXCEPT ![r].pc = "intent", ![r].to = donor_email]
         ELSE Goto(r, "catch")
    /\ UNCHANGED <<rowVars, intent, audits, mailVars>>

\* A bug for the mutation test: an unbound payment passes for one without an
\* intent.
TreatsUnboundAsLegacy(r) ==
    /\ At(r, "intent")
    /\ Goto(r, IF intent = "OPEN" THEN "complete_intent" ELSE "email")
    /\ UNCHANGED <<rowVars, intent, audits, mailVars>>

\* getCompletedIntentForDocument, then the intent the caller has already bound
\* (straight after a transmission) or resolveDonationIntentBinding.
ResolveIntent(r) ==
    /\ At(r, "intent")
    /\ \E pc \in CASE intent \in {"NONE", "COMPLETED"} -> {"email"}
                 [] intent = "OPEN"                  -> {"complete_intent"}
                 [] intent = "SWITCHED"              -> {"complete_intent", "catch"} :
         Goto(r, pc)
    /\ UNCHANGED <<rowVars, intent, audits, mailVars>>

\* The statement does not look at the intent's provider.
completeIntentForPostAcceptOwner(r) ==
    LET enabled == Owner(r) /\ document.op_claim = NULL /\ intent # "NONE" IN
    /\ At(r, "complete_intent")
    /\ intent' = IF enabled THEN "COMPLETED" ELSE intent
    /\ Goto(r, IF enabled THEN "email" ELSE "catch")
    /\ UNCHANGED <<rowVars, audits, mailVars>>

\* Without an address EMAIL_SKIPPED is audited; a receipt that was already
\* handled is not sent again.
ReceiptDue(r) ==
    LET skip == run[r].to = NULL IN
    /\ At(r, "email")
    /\ audits' = IF skip /\ Owner(r) THEN audits \cup {"EMAIL_SKIPPED"} ELSE audits
    /\ Goto(r, CASE skip /\ Owner(r)                     -> "audit_intent"
                 [] skip /\ ~Owner(r)                    -> "catch"
                 [] ~skip /\ hasHandledEmail(deliveries)  -> "audit_intent"
                 [] ~skip /\ ~hasHandledEmail(deliveries) -> "claim_email")
    /\ UNCHANGED <<rowVars, intent, mailVars>>

\* emailReceipt claims the delivery.  When the claim is refused it answers
\* false, which finalizeAcceptedDocument does not look at.
ClaimEmail(r) ==
    /\ At(r, "claim_email")
    /\ IF claimEmailDeliveryEnabled(deliveries)
         THEN IF Fenced(deliveries, NULL)
                THEN Goto(r, "catch") /\ UNCHANGED <<deliveries, latest>>
                ELSE /\ deliveries' = [deliveries EXCEPT ![NULL] = Claimed(r, run[r].to)]
                     /\ latest' = {NULL}
                     /\ Goto(r, "prepare")
         ELSE Goto(r, "audit_intent") /\ UNCHANGED <<deliveries, latest>>
    /\ UNCHANGED <<rowVars, intent, audits, outbox>>

\* markDocumentPostAcceptEmailDispatchStarted.  The statement may throw with
\* or without having been committed; the delivery then stays PENDING.
MarkDocument(r) ==
    /\ At(r, "mark_document")
    /\ \E committed, returned \in BOOLEAN :
         /\ returned => committed
         /\ committed => Owner(r) /\ ~email_started
         /\ email_started' = (email_started \/ committed)
         /\ run' = [run EXCEPT ![r].started = returned,
                               ![r].pc = IF returned THEN "mark_delivery" ELSE "catch"]
    /\ UNCHANGED <<document, donor_email, fin_stale, intent, audits, mailVars>>

AuditAt == [audit_intent    |-> "DONATION_INTENT_COMPLETED",
            audit_accepted  |-> "DTE_ACCEPTED",
            audit_finalized |-> "DTE_ACCEPTED_FINALIZED"]

AfterAudit == [audit_intent    |-> "audit_accepted",
               audit_accepted  |-> "audit_finalized",
               audit_finalized |-> "mark_finalized"]

\* The three calls of ensurePostAcceptAudit.
EnsureAudit(r) ==
    LET pc     == run[r].pc
        needed == pc = "audit_intent" => intent = "COMPLETED"
    IN
    /\ pc \in DOMAIN AuditAt
    /\ audits' = IF needed /\ Owner(r) THEN audits \cup {AuditAt[pc]} ELSE audits
    /\ Goto(r, IF needed => Owner(r) THEN AfterAudit[pc] ELSE "catch")
    /\ UNCHANGED <<rowVars, intent, mailVars>>

MarkFinalized(r) ==
    LET enabled == markDocumentPostAcceptFinalizedEnabled(document, r) IN
    /\ At(r, "mark_finalized")
    /\ document' = IF enabled THEN markDocumentPostAcceptFinalized(document) ELSE document
    /\ email_started' = (email_started /\ ~enabled)
    /\ IF enabled \/ document.finalized_at THEN Return(r) ELSE Goto(r, "catch")
    /\ UNCHANGED <<donor_email, fin_stale, intent, audits, mailVars>>

\* A D1 error inside the try block: the statement at pc did not take place,
\* or the one before it did and its answer was lost.
StatementThrows(r) ==
    /\ run[r].key = NULL
    /\ run[r].pc \in (FinalizerPCs \ {"mark_document", "catch", "release"}) \cup {"prepare", "record"}
    /\ Goto(r, "catch")
    /\ UNCHANGED <<rowVars, intent, audits, mailVars>>

\* The catch block keeps the claim when the receipt may have been sent.
Catch(r) ==
    LET safeReceiptEvidence == IF run[r].to # NULL THEN hasHandledEmail(deliveries)
                                                   ELSE "EMAIL_SKIPPED" \in audits
    IN
    /\ At(r, "catch")
    /\ IF ~run[r].started \/ safeReceiptEvidence THEN Goto(r, "release") ELSE Return(r)
    /\ UNCHANGED <<rowVars, intent, audits, mailVars>>

Release(r) ==
    LET enabled == releaseDocumentPostAcceptFinalizationEnabled(document, r) IN
    /\ At(r, "release")
    /\ document' = IF enabled THEN releaseDocumentPostAcceptFinalization(document) ELSE document
    /\ email_started' = (email_started /\ ~enabled)
    /\ Return(r)
    /\ UNCHANGED <<donor_email, fin_stale, intent, audits, mailVars>>

-----------------------------------------------------------------------------
(* The resend by an operator.                                              *)

StartResend(r, q, e) ==
    /\ Fresh(r)
    /\ document.finalized_at
    /\ document.op_claim = NULL
    /\ run' = [run EXCEPT ![r] =
                 [IdleRun EXCEPT !.pc = "manual_reclaim", !.key = q, !.to = e]]
    /\ UNCHANGED <<rowVars, intent, audits, mailVars>>

ManualReclaim(r) ==
    LET q == run[r].key IN
    /\ At(r, "manual_reclaim")
    /\ IF reclaimManualEmailDeliveryEnabled(deliveries, latest, q, run[r].to)
         THEN IF Fenced(deliveries, q)
                THEN Return(r) /\ UNCHANGED deliveries
                ELSE /\ deliveries' = [deliveries EXCEPT ![q] = Claimed(r, run[r].to)]
                     /\ Goto(r, "prepare")
         ELSE Goto(r, "manual_claim") /\ UNCHANGED deliveries
    /\ UNCHANGED <<rowVars, intent, audits, latest, outbox>>

ManualClaim(r) ==
    LET q       == run[r].key
        enabled == claimManualEmailDeliveryEnabled(deliveries, latest, q)
    IN
    /\ At(r, "manual_claim")
    /\ deliveries' = IF enabled THEN [deliveries EXCEPT ![q] = Claimed(r, run[r].to)]
                                ELSE deliveries
    /\ latest' = IF enabled THEN {q} ELSE latest
    /\ IF enabled THEN Goto(r, "prepare") ELSE Return(r)
    /\ UNCHANGED <<rowVars, intent, audits, outbox>>

-----------------------------------------------------------------------------
(* The dispatch, common to both.                                           *)

\* What EmailService throws: REFUSED stands for the codes and HTTP answers that
\* prove a refusal, OTHER for timeouts and unrecognized answers.
EmailErrors == {"REFUSED", "DELIVERY_FAILED", "OTHER"}

\* A bug for the mutation test: an unrecognized answer counts as a refusal.
ClassifiesUnknownAsNotSent(error, dispatchStarted) ==
    IF dispatchStarted /\ error = "DELIVERY_FAILED" THEN "NOT_DELIVERED" ELSE "NOT_SENT"

classifyEmailDispatchError(error, dispatchStarted) ==
    CASE ~dispatchStarted \/ error = "REFUSED"             -> "NOT_SENT"
      [] dispatchStarted /\ error = "DELIVERY_FAILED"       -> "NOT_DELIVERED"
      [] dispatchStarted /\ error = "OTHER"                 -> "UNKNOWN"

\* Templates, branding, PDF: a failure here proves that nothing was sent.
Prepare(r) ==
    /\ At(r, "prepare")
    /\ \/ Goto(r, IF run[r].key = NULL THEN "mark_document" ELSE "mark_delivery")
       \/ run' = [run EXCEPT ![r].pc = "record",
                             ![r].outcome = classifyEmailDispatchError("OTHER", FALSE)]
    /\ UNCHANGED <<rowVars, intent, audits, mailVars>>

\* markEmailDeliveryDispatchStarted; when it fails or throws the provider is
\* not called and the failure is classified NOT_SENT.
MarkDelivery(r) ==
    LET k == run[r].key IN
    /\ At(r, "mark_delivery")
    /\ \E committed, returned \in BOOLEAN :
         /\ returned => committed
         /\ committed => markEmailDeliveryDispatchStartedEnabled(deliveries[k], r)
         /\ deliveries' = IF committed
                            THEN [deliveries EXCEPT ![k] = markEmailDeliveryDispatchStarted(@)]
                            ELSE deliveries
         /\ run' = [run EXCEPT ![r].pc = IF returned THEN "send" ELSE "record",
                               ![r].outcome = IF returned THEN "NONE"
                                              ELSE classifyEmailDispatchError("OTHER", FALSE)]
    /\ UNCHANGED <<rowVars, intent, audits, latest, outbox>>

\* The provider accepts the mail, refuses it with one of its documented codes,
\* reports that it could not be delivered, or leaves its fate unknown.
Send(r) ==
    LET k == run[r].key IN
    /\ At(r, "send")
    /\ \E answer \in {"ACCEPTED"} \cup EmailErrors, accepted \in BOOLEAN :
         /\ answer = "ACCEPTED" => accepted
         /\ answer \in {"REFUSED", "DELIVERY_FAILED"} => ~accepted
         /\ outbox' = [outbox EXCEPT ![k] = IF accepted THEN @ + 1 ELSE @]
         /\ run' = [run EXCEPT ![r].pc = "record",
                               ![r].outcome = IF answer = "ACCEPTED" THEN "SENT"
                                              ELSE classifyEmailDispatchError(answer, TRUE)]
    /\ UNCHANGED <<rowVars, intent, audits, deliveries, latest>>

\* finalizeEmailDeliveryClaim.
Record(r) ==
    LET k       == run[r].key
        enabled == finalizeEmailDeliveryClaimEnabled(deliveries[k], r)
    IN
    /\ At(r, "record")
    /\ deliveries' = IF enabled
                       THEN [deliveries EXCEPT ![k] = finalizeEmailDeliveryClaim(@, run[r].outcome)]
                       ELSE deliveries
    /\ IF enabled /\ k = NULL THEN Goto(r, "audit_intent") ELSE Throws(r)
    /\ UNCHANGED <<rowVars, intent, audits, latest, outbox>>

-----------------------------------------------------------------------------
(* The environment.                                                        *)

\* A bug for the mutation test: the address may change under a finalizer.
EditsUnderClaim(e) ==
    /\ donor_email' = e
    /\ UNCHANGED <<document, email_started, fin_stale, intent, audits, mailVars, run>>

updateDocumentDonorEmail(e) ==
    /\ document.fin_claim = NULL
    /\ donor_email' = e
    /\ UNCHANGED <<document, email_started, fin_stale, intent, audits, mailVars, run>>

\* The donor moves the intent to n1co, possible while it is not stamped paid
\* (the webhook goes on when that stamp fails).
switchIntentToN1co ==
    /\ intent = "OPEN"
    /\ intent' = "SWITCHED"
    /\ UNCHANGED <<rowVars, audits, mailVars, run>>

FinLeaseExpires ==
    /\ document.fin_claim # NULL
    /\ ~fin_stale
    /\ fin_stale' = TRUE
    /\ UNCHANGED <<document, donor_email, email_started, intent, audits, mailVars, run>>

DeliveryLeaseExpires(k) ==
    /\ deliveries[k].status = "PENDING"
    /\ ~deliveries[k].stale
    /\ deliveries' = [deliveries EXCEPT ![k].stale = TRUE]
    /\ UNCHANGED <<rowVars, intent, audits, latest, outbox, run>>

Crash(r) ==
    /\ ~At(r, "idle")
    /\ Return(r)
    /\ UNCHANGED <<rowVars, intent, audits, mailVars>>

-----------------------------------------------------------------------------

Step(r) ==
    \/ Reload(r) \/ ResolveIntent(r) \/ completeIntentForPostAcceptOwner(r)
    \/ ReceiptDue(r) \/ ClaimEmail(r) \/ MarkDocument(r) \/ EnsureAudit(r)
    \/ MarkFinalized(r) \/ StatementThrows(r) \/ Catch(r) \/ Release(r)
    \/ ManualReclaim(r) \/ ManualClaim(r)
    \/ Prepare(r) \/ MarkDelivery(r) \/ Send(r) \/ Record(r)

Next ==
    \/ \E r \in Runs : FinClaim(r) \/ Step(r) \/ Crash(r)
    \/ \E r \in Runs, q \in Requests, e \in Emails : StartResend(r, q, e)
    \/ \E e \in Emails : updateDocumentDonorEmail(e)
    \/ \E k \in Keys : DeliveryLeaseExpires(k)
    \/ switchIntentToN1co
    \/ FinLeaseExpires

Spec == Init /\ [][Next]_vars

-----------------------------------------------------------------------------
(* Properties.                                                             *)

\* The rows and the handlers' locals have their types.
TypeOK ==
    /\ document \in DteRow
    /\ donor_email \in Emails \cup {NULL}
    /\ email_started \in BOOLEAN
    /\ fin_stale \in BOOLEAN
    /\ intent \in {"NONE", "OPEN", "SWITCHED", "COMPLETED"}
    /\ audits \subseteq Audits
    /\ deliveries \in [Keys -> DeliveryRow]
    /\ latest \subseteq Keys
    /\ run \in [Runs -> RunState]
    /\ outbox \in [Keys -> Nat]

\* While the fate of the automatic receipt is open at the provider, the
\* document stays locked by the finalizer that sent it.
UncertainReceiptIsLocked ==
    LET row == deliveries[NULL] IN
    row.status = "PENDING" /\ row.dispatched =>
       /\ ~document.finalized_at
       /\ email_started
       /\ document.fin_claim = row.token

\* No mail leaves for the document while another one may have been sent
\* without anyone knowing.
NoSendWhileUncertain ==
    \A r \in Runs : At(r, "send") =>
       \A k \in Keys \ {run[r].key} :
          ~(Unresolved(deliveries[k]) /\ deliveries[k].dispatched)

\* The provider accepts the automatic receipt at most once, and the mail of one
\* resend request at most once, whatever crashes, lease expiries, redeliveries
\* and repeated requests happen; for that, a mail whose fate is unknown stops
\* every other one and keeps the document locked (emailReceipt and the claims of
\* email_deliveries).
AtMostOneReceipt ==
    /\ \A k \in Keys : outbox[k] <= 1
    /\ UncertainReceiptIsLocked
    /\ NoSendWhileUncertain

\* The automatic receipt goes to the address the document has when the provider
\* is called: no edit slips in between the reload and the dispatch.
RecipientIsCurrent ==
    \A r \in Runs : At(r, "send") /\ run[r].key = NULL => run[r].to = donor_email

\* An accepted document is only marked finalized once its intent is completed
\* (if the payment has one) and its acceptance is audited.
FinalizedIsComplete ==
    document.finalized_at =>
       /\ intent \in {"NONE", "COMPLETED"}
       /\ {"DTE_ACCEPTED", "DTE_ACCEPTED_FINALIZED"} \subseteq audits
       /\ intent = "COMPLETED" => "DONATION_INTENT_COMPLETED" \in audits

-----------------------------------------------------------------------------
(* Liveness.                                                               *)

\* What may disturb a finalizer that holds its claim: a crash or an error of a
\* statement, or a lease that ends while its owner is still at work.
Working == (FinalizerPCs \ {"catch", "release", "mark_finalized"}) \cup SendPCs

Disturbed ==
    \/ \E r \in Runs : /\ run[r].pc \in Working \cup {"mark_finalized"}
                       /\ run[r].key = NULL
                       /\ Owner(r)
                       /\ run'[r].pc \in {"idle", "catch"}
                       /\ ~document'.finalized_at
    \/ FinLeaseExpires /\ run[document.fin_claim] # IdleRun

\* A started handler goes on unless it crashes, the cron claims an unfinalized
\* document it can claim, leases expire, and the disturbances end one day: D1
\* errors and evictions are transient, and a run is far shorter than a lease.
Fairness ==
    /\ \A r \in Runs : WF_vars(Step(r))
    /\ WF_vars(\E r \in Runs : FinClaim(r))
    /\ WF_vars(FinLeaseExpires)
    /\ <>[][~Disturbed]_vars

FairSpec == Spec /\ Fairness

\* The receipt may have left and nobody is there to record it.
AwaitsOperator ==
    /\ document.fin_claim # NULL
    /\ run[document.fin_claim] = IdleRun
    /\ email_started
    /\ ~hasHandledEmail(deliveries)

\* An accepted document is eventually finalized, unless its intent was lost to
\* another provider or an operator must find out what became of the receipt.
AcceptedIsFinalized ==
    <>(document.finalized_at \/ intent = "SWITCHED" \/ AwaitsOperator)

=============================================================================
