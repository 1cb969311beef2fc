---------------------------- MODULE WompiEvents ----------------------------
(***************************************************************************)
(* A row of wompi_events in its pre-CDE life, and the statements of        *)
(* src/worker/storage/repository/wompiIssuance.ts on it.  XEnabled is a    *)
(* WHERE clause, X the row after the SET.                                  *)
(*                                                                         *)
(*   received     the row exists                                           *)
(*   status       issuance_status                                          *)
(*   processed    processed_at IS NOT NULL                                 *)
(*   document     created_document_id IS NOT NULL                          *)
(*   attempt      issuance_attempt_id                                      *)
(*   claim        issuance_claim_id                                        *)
(*   claim_stale  issuance_claimed_at is older than 15 minutes             *)
(*   stalled      issuance_last_attempt_at (or received_at) is older than  *)
(*                an hour                                                  *)
(*   error        issuance_error_code: RECEPTOR is one that needs a fiscal *)
(*                correction                                               *)
(*   number       control_sequence, 0 while nothing is reserved            *)
(*                                                                         *)
(* The payment is approved and belongs to the deployment's environment:    *)
(* nothing else is queued.  Messages without an attempt id (an older       *)
(* release) are left out; what a fiscal correction writes here is in       *)
(* FiscalCorrectionRows.                                                   *)
(***************************************************************************)
EXTENDS Naturals

CONSTANTS Attempts,  \* issuance attempt ids
          Claims,    \* issuance claim ids
          NULL

Errors == {"NONE", "OTHER", "RECEPTOR"}

WompiRow == [received    : BOOLEAN,
             status      : {"NONE", "RETRY_QUEUED", "PROCESSING", "FAILED",
                            "DEAD_LETTERED", "DOCUMENT_CREATED"},
             processed   : BOOLEAN,
             document    : BOOLEAN,
             attempt     : Attempts \cup {NULL},
             claim       : Claims \cup {NULL},
             claim_stale : BOOLEAN,
             stalled     : BOOLEAN,
             error       : Errors,
             number      : Nat]

NoEvent == [received |-> FALSE, status |-> "NONE", processed |-> FALSE, document |-> FALSE,
            attempt |-> NULL, claim |-> NULL, claim_stale |-> FALSE, stalled |-> FALSE,
            error |-> "NONE", number |-> 0]

\* Runnable work: what the sweep and the consumer may go on with.
Queued(row) == row.status \in {"RETRY_QUEUED", "PROCESSING"}

-----------------------------------------------------------------------------
(* Attempts.                                                               *)

insertWompiEvent(row) == [row EXCEPT !.received = TRUE]

claimInitialWompiIssuanceAttemptEnabled(row) ==
    ~row.document /\ row.attempt = NULL /\ row.status = "NONE"

\* What the three statements that queue an attempt leave behind.
QueueAttempt(row, attempt) ==
    [row EXCEPT !.status = "RETRY_QUEUED", !.attempt = attempt, !.stalled = FALSE]

\* The WHERE clause of claimWompiIssuanceRetry but for its comparison with the
\* columns the operator's request has read.
claimWompiIssuanceRetryEnabled(row) ==
    /\ ~row.document
    /\ row.claim = NULL
    /\ row.status \in {"FAILED", "DEAD_LETTERED"} \/ (Queued(row) /\ row.processed)

claimWompiIssuanceRetry(row, attempt) ==
    [QueueAttempt(row, attempt) EXCEPT !.processed = FALSE]

\* A bug for the mutation test: only events that never got an attempt.
SweepsUnqueuedOnly(row) ==
    row.received /\ ~row.document /\ ~row.processed /\ row.status = "NONE" /\ row.stalled

listStalledApprovedWompiEvents(row) ==
    /\ row.received
    /\ ~row.document
    /\ ~row.processed
    /\ row.status = "NONE" \/ Queued(row)
    /\ row.stalled

claimStalledWompiIssuanceAttemptEnabled(row, seen) ==
    /\ ~row.document
    /\ row.attempt = seen
    /\ ~row.processed
    /\ IF seen = NULL THEN row.status = "NONE" ELSE Queued(row)
    /\ row.stalled

\* createWompiAttemptAudit writes only for the current attempt.
createWompiAttemptAuditEnabled(row, attempt) == ~row.document /\ row.attempt = attempt

markWompiIssuanceProcessingEnabled(row, attempt) ==
    ~row.document /\ row.attempt = attempt /\ (Queued(row) \/ row.status = "FAILED")

markWompiIssuanceProcessing(row) == [row EXCEPT !.status = "PROCESSING", !.stalled = FALSE]

recordWompiIssuanceFailureEnabled(row, attempt) ==
    ~row.document /\ row.attempt = attempt /\ row.status = "PROCESSING"

recordWompiIssuanceFailure(row, error) ==
    [row EXCEPT !.status = "FAILED", !.error = error, !.stalled = FALSE]

markWompiIssuanceDeadLetteredEnabled(row, attempt) ==
    ~row.document /\ row.attempt = attempt /\ (Queued(row) \/ row.status = "FAILED")

\* A bug for the mutation test: an error without a code is stored as it is.
DeadLettersWithoutCode(row) ==
    [row EXCEPT !.status = "DEAD_LETTERED", !.processed = TRUE,
                !.error = IF @ = "NONE" THEN NULL ELSE @]

markWompiIssuanceDeadLettered(row) ==
    [row EXCEPT !.status = "DEAD_LETTERED", !.processed = TRUE,
                !.error = IF @ = "NONE" THEN "OTHER" ELSE @]

\* markWompiEventProcessed and the second statement of
\* quarantineWompiIntentBinding.
markWompiEventProcessed(row) == [row EXCEPT !.processed = TRUE]

-----------------------------------------------------------------------------
(* The claim, the identifiers and the document.                            *)

claimWompiEventIssuanceEnabled(row) ==
    ~row.processed /\ ~row.document /\ (row.claim = NULL \/ row.claim_stale)

claimWompiEventIssuance(row, claim) == [row EXCEPT !.claim = claim, !.claim_stale = FALSE]

releaseWompiEventIssuanceEnabled(row, claim) ==
    ~row.processed /\ ~row.document /\ row.claim = claim

releaseWompiEventIssuance(row) == [row EXCEPT !.claim = NULL, !.claim_stale = FALSE]

\* A bug for the mutation test: every attempt reserves a number of its own.
ReservesAgain(row) == TRUE

\* The UPDATE of reserveWompiDocumentIdentifiers and its trigger run when the
\* row has no identifiers yet.
reserveWompiDocumentIdentifiersEnabled(row) == row.number = 0

\* A bug for the mutation test: the plain INSERT of createDteDocument.
CreatesUnguarded(row, claim) == TRUE

\* A bug for the mutation test: the claim and processed_at are not looked at.
CreatesForAnyone(row, claim) == ~row.document

createClaimedWompiDteDocumentEnabled(row, claim) ==
    row.claim = claim /\ ~row.processed /\ ~row.document

createClaimedWompiDteDocument(row) ==
    [row EXCEPT !.document = TRUE, !.processed = TRUE, !.status = "DOCUMENT_CREATED",
                !.claim = NULL, !.claim_stale = FALSE]

\* markWompiDocumentCreated for the document found.
markWompiDocumentCreated(row) ==
    [row EXCEPT !.document = TRUE, !.processed = TRUE, !.status = "DOCUMENT_CREATED"]

=============================================================================
