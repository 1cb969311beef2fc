------------------------ MODULE FiscalCorrectionRows ------------------------
(***************************************************************************)
(* A row of fiscal_corrections, and the statements of                      *)
(* src/worker/storage/repository/fiscalCorrections.ts on it and on its     *)
(* target: a rejected CDE (target_kind = DTE_DOCUMENT), or a Wompi payment *)
(* whose CDE could not be made (WOMPI_EVENT).  As in DteDocuments,         *)
(* XEnabled is a WHERE clause and X the row after the SET list; a batch    *)
(* that writes two tables has an operator for each.                        *)
(*                                                                         *)
(*   status      status; NONE: not inserted yet                            *)
(*   kind        target_kind                                               *)
(*   document    document_id, or wompi_event_id: a payment and its CDE     *)
(*               have the same name                                        *)
(*   token       processing_claim_id                                       *)
(*   dispatched  mh_dispatch_started_at IS NOT NULL                        *)
(*   number      reserved_control_sequence, 0 while nothing is reserved    *)
(*   stale       updated_at (QUEUED) or processing_started_at (PROCESSING) *)
(*               is older than FISCAL_CORRECTION_STALE_MS, 15 minutes      *)
(*   source      source_document_snapshot_json: the fiscal identity and    *)
(*               the deferral of the document that is being replaced       *)
(*                                                                         *)
(* A correction c stands for the ids minted for it: its request_id, the    *)
(* codigo_generacion it reserves, its fiscal_claim_id (fiscal_correction_c *)
(* for a payment), its issuance_attempt_id and the issuance claim          *)
(* wompi_correction_c.  A document issued from a payment has the payment's *)
(* name as its codigo; NULL is the codigo of one that was rejected before. *)
(***************************************************************************)
EXTENDS DteDocuments, Naturals

CONSTANTS Corrections,  \* corrections, each with its claim and its codigo
          Docs,         \* documents
          Tokens        \* processing claim ids

ASSUME CorrectionsAreIds == Corrections \subseteq Ids

OpenStatus == {"QUEUED", "PROCESSING"}

TERMINAL_FISCAL_CORRECTION_STATUSES == {"ACCEPTED", "REJECTED", "FAILED", "REVIEW_REQUIRED"}

Codes == Corrections \cup Docs \cup {NULL}

\* The issuance attempts of a payment itself, which are not told apart.
OwnAttempt == "issuance"

ASSUME OwnAttemptIsNoCorrection == OwnAttempt \notin Corrections

\* The row of wompi_events.
W == INSTANCE WompiEvents WITH Attempts <- Corrections \cup {OwnAttempt}, Claims <- Ids

CorrectionRow == [status     : {"NONE"} \cup OpenStatus \cup TERMINAL_FISCAL_CORRECTION_STATUSES,
                  kind       : {"NONE", "DTE_DOCUMENT", "WOMPI_EVENT"},
                  document   : Docs \cup {NULL},
                  token      : Tokens \cup {NULL},
                  dispatched : BOOLEAN,
                  number     : Nat,
                  stale      : BOOLEAN,
                  source     : [codigo : Codes, deferred_at : BOOLEAN]]

NoCorrection == [status |-> "NONE", kind |-> "NONE", document |-> NULL, token |-> NULL,
                 dispatched |-> FALSE, number |-> 0, stale |-> FALSE,
                 source |-> [codigo |-> NULL, deferred_at |-> FALSE]]

\* A correction of its document, or of the document's payment, that rules out
\* another one.
Blocks(x) == x.status \in OpenStatus \cup {"REVIEW_REQUIRED", "ACCEPTED"}

\* The document is under the fiscal claim of correction c.
Held(row, c) == row.op_claim = c /\ row.op_kind = "TRANSMISSION" /\ row.op_event = NULL

\* The delivery with this processing claim owns the correction.
Owned(x, token) == x.status = "PROCESSING" /\ x.token = token

-----------------------------------------------------------------------------
(* The operator's request.                                                 *)

\* A bug for the mutation test: the claim in the row is taken for enough.
ClaimIgnoresCorrections(row, others) == row.status = "REJECTED" /\ row.op_claim = NULL

claimDocumentFiscalCorrectionEnabled(row, others) ==
    /\ row.status = "REJECTED"
    /\ row.op_claim = NULL
    /\ \A x \in others : ~Blocks(x)

claimDocumentFiscalCorrection(row, d, token, codigo) ==
    [status |-> "QUEUED", kind |-> "DTE_DOCUMENT", document |-> d, token |-> token,
     dispatched |-> FALSE, number |-> 0, stale |-> FALSE,
     source |-> [codigo |-> codigo, deferred_at |-> row.deferred_at]]

HoldDocument(row, c) ==
    [row EXCEPT !.op_claim = c, !.op_kind = "TRANSMISSION", !.op_event = NULL]

\* Of a payment: the event as for an operator's retry.
claimWompiFiscalCorrectionEnabled(event, others) ==
    W!claimWompiIssuanceRetryEnabled(event) /\ \A x \in others : ~Blocks(x)

claimWompiFiscalCorrection(d, token) ==
    [NoCorrection EXCEPT !.status = "QUEUED", !.kind = "WOMPI_EVENT", !.document = d,
                         !.token = token]

QueueCorrection(event, c) == W!claimWompiIssuanceRetry(event, c)

-----------------------------------------------------------------------------
(* Processing.                                                             *)

claimFiscalCorrectionProcessingEnabled(x, c, token, row, event) ==
    /\ x.status = "QUEUED"
    /\ x.token = token
    /\ IF x.kind = "WOMPI_EVENT"
         THEN event.status = "RETRY_QUEUED" /\ event.attempt = c
         ELSE row.status = "REJECTED" /\ Held(row, c)

claimFiscalCorrectionProcessing(x) == [x EXCEPT !.status = "PROCESSING", !.stale = FALSE]

\* The first statement of reserveFiscalCorrectionDocumentIdentifiers; its
\* trigger advances document_sequences.
reserveIdentifiersEnabled(x, c, token, row) ==
    /\ Owned(x, token)
    /\ x.number = 0
    /\ row.status = "REJECTED"
    /\ Held(row, c)

\* The second one: what a former delivery has reserved is used again.
reuseIdentifiersEnabled(x, c, token, row) ==
    /\ Owned(x, token)
    /\ x.number # 0
    /\ row.status \in {"REJECTED", "SIGNED"}
    /\ Held(row, c)

renewFiscalCorrectionDocumentSigningLeaseEnabled(x, c, token, row) ==
    /\ Owned(x, token)
    /\ x.number # 0
    /\ row.status = "REJECTED"
    /\ Held(row, c)

Renewed(x) == [x EXCEPT !.stale = FALSE]

\* A bug for the mutation test: the rewrite trusts the claim it once had.
PrepareIgnoresHolder(x, c, token, row) == Owned(x, token) /\ x.number # 0

prepareClaimedFiscalCorrectionDocumentEnabled(x, c, token, row) ==
    /\ row.status = "REJECTED"
    /\ Held(row, c)
    /\ Owned(x, token)
    /\ x.number # 0

\* The row is rewritten in place (with a new codigo, kept beside the row).
prepareClaimedFiscalCorrectionDocument(row) ==
    [row EXCEPT !.status = "SIGNED", !.signed_jws = TRUE, !.sello = FALSE,
                !.deferred_at = FALSE, !.finalized_at = FALSE, !.fin_claim = NULL]

\* The document is the target of x, or was made from it.
IsTarget(x, event) == x.kind = "WOMPI_EVENT" => event.document

markFiscalCorrectionMhDispatchStartedEnabled(x, c, token, row, event) ==
    /\ Owned(x, token)
    /\ ~x.dispatched
    /\ row.status = "SIGNED"
    /\ Held(row, c)
    /\ IsTarget(x, event)

clearFiscalCorrectionMhDispatchStartedEnabled(x, token) == Owned(x, token) /\ x.dispatched

-----------------------------------------------------------------------------
(* The CDE of a payment under correction.                                  *)

\* A delivery before this one has made the CDE: it is claimed as it is.
claimWompiFiscalCorrectionDocumentEnabled(x, c, token, row, event) ==
    /\ row.status \in {"PENDING", "SIGNED", "FAILED"}
    /\ row.op_claim = NULL \/ Held(row, c)
    /\ Owned(x, token)
    /\ ~x.dispatched
    /\ event.document
    /\ event.status = "DOCUMENT_CREATED"
    /\ event.attempt = c

claimCorrectedWompiEventIssuanceEnabled(x, c, token, event) ==
    /\ ~event.processed
    /\ ~event.document
    /\ event.attempt = c
    /\ W!Queued(event)
    /\ event.claim \in {NULL, c}
    /\ Owned(x, token)

\* finalizeWompiFiscalCorrectionFailure, while there is no CDE: a batch on the
\* event and the correction.
finalizeWompiFailureEnabled(x, c, token, event) ==
    /\ x.kind = "WOMPI_EVENT"
    /\ Owned(x, token)
    /\ ~x.dispatched
    /\ ~event.document
    /\ ~event.processed
    /\ W!Queued(event)
    /\ event.attempt = c

FailedEvent(event, error) ==
    [event EXCEPT !.status = "FAILED", !.processed = TRUE, !.attempt = NULL, !.claim = NULL,
                  !.error = error]

\* The payment's own handlers keep away: the NOT EXISTS of claimWompiIssuanceRetry.
RetryExcluded(corrections) ==
    \E x \in corrections : x.kind = "WOMPI_EVENT" /\ Blocks(x)

\* A bug for the mutation test: only what runs is looked at.
SweepIgnoresQueued(event, corrections) ==
    \E c \in DOMAIN corrections :
       corrections[c].kind = "WOMPI_EVENT" /\ corrections[c].status = "PROCESSING"

\* That of claimStalledWompiIssuanceAttempt, which also spares an event that
\* still has the attempt of a correction that has ended.
SweepExcluded(event, corrections) ==
    \E c \in DOMAIN corrections :
       /\ corrections[c].kind = "WOMPI_EVENT"
       /\ Blocks(corrections[c]) \/ event.attempt = c

\* That of claimDocumentTransmission, for another claim.
TransmissionBlocked(corrections, d, claim) ==
    \E c \in DOMAIN corrections \ {claim} :
       /\ corrections[c].kind = "WOMPI_EVENT"
       /\ corrections[c].document = d
       /\ corrections[c].status \in OpenStatus \cup {"REVIEW_REQUIRED"}

-----------------------------------------------------------------------------
(* finalizeFiscalCorrection: a predicate per outcome.                      *)

\* ACCEPTED, REJECTED: MH's verdict is in the document, under the identity that
\* c, or its payment, has reserved.
finalizeVerdictEnabled(x, c, token, row, codigo, event) ==
    /\ Owned(x, token)
    /\ x.dispatched
    /\ row.status \in {"ACCEPTED", "REJECTED"}
    /\ row.op_claim = NULL
    /\ IF x.kind = "WOMPI_EVENT"
         THEN event.document /\ event.attempt = c /\ codigo = x.document
         ELSE codigo = c

finalizeReviewEnabled(x, c, token, row, event) ==
    /\ Owned(x, token)
    /\ x.dispatched
    /\ row.status = "SIGNED"
    /\ Held(row, c)
    /\ IsTarget(x, event)

finalizeFailedEnabled(x, token) == Owned(x, token) /\ ~x.dispatched

Finalized(x, status) == [x EXCEPT !.status = status]

\* The second statement of the batch: once x is a FAILED correction that never
\* dispatched, its document is released, now or by a later call.  (The CDE of a
\* payment stays claimed, for an operator to look at.)
ReleaseFailed(x, c, token, row) ==
    IF /\ x.kind = "DTE_DOCUMENT" /\ x.status = "FAILED" /\ x.token = token /\ ~x.dispatched
       /\ row.op_claim = c
      THEN WithoutOperation(row)
      ELSE row

\* finalizeDirectFiscalCorrectionGenerationDisabled: the rejected document is
\* put back as the snapshot has it.
retireDirectEnabled(x, c, token, row, codigo) ==
    /\ Owned(x, token)
    /\ ~x.dispatched
    /\ Held(row, c)
    /\ row.status = "REJECTED" \/ (row.status = "SIGNED" /\ x.number # 0 /\ codigo = c)

RestoredDocument(x, row) ==
    [WithoutOperation(row) EXCEPT
        !.status = "REJECTED", !.sello = FALSE, !.deferred_at = x.source.deferred_at,
        !.finalized_at = FALSE, !.fin_claim = NULL]

-----------------------------------------------------------------------------
(* Recovery.                                                               *)

\* listRecoverableFiscalCorrections, in its two uses.
RecoverableBeforeDispatch(x) ==
    /\ x.stale
    /\ x.status = "QUEUED" \/ (x.status = "PROCESSING" /\ ~x.dispatched)

RecoverableVerdict(x, c, row, codigo, event) ==
    x.stale /\ finalizeVerdictEnabled(x, c, x.token, row, codigo, event)

\* The target as recovery asks for it.
InReach(x, c, row, event) ==
    IF x.kind = "WOMPI_EVENT"
      THEN event.attempt = c /\ (W!Queued(event) \/ event.status = "DOCUMENT_CREATED")
      ELSE row.status \in {"REJECTED", "SIGNED"} /\ Held(row, c)

recoverFiscalCorrectionProcessingClaimEnabled(x, c, token, row, event) ==
    /\ x.token = token
    /\ ~x.dispatched
    /\ x.status \in OpenStatus
    /\ x.stale
    /\ InReach(x, c, row, event)
    /\ x.kind = "WOMPI_EVENT" => event.claim = NULL

\* A bug for the mutation test: a status of another table.
RecoverRequeues(x, token) ==
    [x EXCEPT !.status = "RETRY_QUEUED", !.token = token, !.stale = FALSE]

recoverFiscalCorrectionProcessingClaim(x, token) ==
    [x EXCEPT !.status = "PROCESSING", !.token = token, !.stale = FALSE]

=============================================================================
