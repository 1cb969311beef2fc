---------------------------- MODULE DteDocuments ----------------------------
(***************************************************************************)
(* One row of the table dte_documents and the guarded UPDATE statements    *)
(* that src/worker/storage/repository/dteDocuments.ts runs on it.  D1      *)
(* executes a statement (or a batch) atomically, so a statement is a pair  *)
(* of operators on a row: XEnabled(row, ...) is its WHERE clause, and      *)
(* X(row, ...) the row after its SET list.  The modules that interleave    *)
(* whole handlers (FiscalOperations, ...) are built from these pairs.      *)
(*                                                                         *)
(* Columns kept, with the name they have in the schema:                    *)
(*   status        status (the legacy CONTINGENCY_PENDING is left out)     *)
(*   signed_jws    signed_jws IS NOT NULL                                  *)
(*   op_claim      fiscal_operation_claim_id                               *)
(*   op_kind       fiscal_operation_kind                                   *)
(*   op_event      fiscal_operation_event_id                               *)
(*   deferred_at   transmission_deferred_at IS NOT NULL                    *)
(*   sello         sello_recibido IS NOT NULL (set with accepted_at)       *)
(*   finalized_at  post_accept_finalized_at IS NOT NULL                    *)
(*   fin_claim     post_accept_finalization_claim_id                       *)
(* JSON texts, names, amounts and timestamps are data no guard reads.      *)
(***************************************************************************)

CONSTANTS Ids,   \* identifiers minted by newId(): claims and event ids
          NULL   \* the SQL NULL

ASSUME NullIsNoId == NULL \notin Ids

DteStatus == {"PENDING", "SIGNED", "ACCEPTED", "REJECTED", "INVALIDATED", "FAILED"}

TerminalStatus == {"ACCEPTED", "REJECTED", "INVALIDATED"}

isTerminalDteStatus(status) == status \in TerminalStatus

DteRow == [status       : DteStatus,
           signed_jws   : BOOLEAN,
           op_claim     : Ids \cup {NULL},
           op_kind      : {"NONE", "TRANSMISSION", "INVALIDATION"},
           op_event     : Ids \cup {NULL},
           deferred_at  : BOOLEAN,
           sello        : BOOLEAN,
           finalized_at : BOOLEAN,
           fin_claim    : Ids \cup {NULL}]

\* The row createDteDocument and createClaimedWompiDteDocument insert.
createDteDocument ==
    [status |-> "PENDING", signed_jws |-> FALSE,
     op_claim |-> NULL, op_kind |-> "NONE", op_event |-> NULL,
     deferred_at |-> FALSE, sello |-> FALSE,
     finalized_at |-> FALSE, fin_claim |-> NULL]

\* The SET list "fiscal_operation_* = NULL" shared by six statements.
WithoutOperation(row) ==
    [row EXCEPT !.op_claim = NULL, !.op_kind = "NONE", !.op_event = NULL]

-----------------------------------------------------------------------------
(* Signing.                                                                *)

updateDocumentSignedEnabled(row, expected) ==
    row.status = expected /\ row.op_claim = NULL

updateDocumentSigned(row) ==
    [row EXCEPT !.signed_jws = TRUE, !.status = "SIGNED"]

-----------------------------------------------------------------------------
(* Transmission.                                                           *)

\* A bug for the mutation test: the claim forgets to look at the holder.
ClaimIgnoresHolder(row, expected, blocked) ==
    row.status = expected /\ row.signed_jws /\ ~blocked

\* A bug for the mutation test: the claim forgets the status it expects.
ClaimIgnoresStatus(row, expected, blocked) ==
    row.signed_jws /\ row.op_claim = NULL /\ ~blocked

\* A bug for the mutation test: a deferred row cannot be claimed.
ClaimRefusesDeferred(row, expected, blocked) ==
    row.status = expected /\ row.signed_jws /\ row.op_claim = NULL /\ ~row.deferred_at

\* blocked: an open fiscal correction of the document's Wompi event that is
\* not the claimant (the NOT EXISTS subquery).
claimDocumentTransmissionEnabled(row, expected, blocked) ==
    /\ row.status = expected
    /\ row.signed_jws
    /\ row.op_claim = NULL
    /\ ~blocked

claimDocumentTransmission(row, claim) ==
    [row EXCEPT !.status = "SIGNED",
                !.op_claim = claim, !.op_kind = "TRANSMISSION",
                !.op_event = NULL, !.finalized_at = FALSE]

completeDocumentTransmissionEnabled(row, claim) ==
    row.status = "SIGNED" /\ row.op_claim = claim

\* A bug for the mutation test: MH's estado is stored as the status.
CompleteStoresEstado(row, accepted) ==
    [WithoutOperation(row) EXCEPT
        !.status = IF accepted THEN "PROCESADO" ELSE "RECHAZADO", !.sello = accepted]

completeDocumentTransmission(row, accepted) ==
    [WithoutOperation(row) EXCEPT
        !.status = IF accepted THEN "ACCEPTED" ELSE "REJECTED",
        !.sello = accepted]

\* claim = NULL stands for the call that passes no claim.
markDocumentFailedEnabled(row, claim) ==
    ~isTerminalDteStatus(row.status) /\ row.op_claim = claim

markDocumentFailed(row) ==
    [WithoutOperation(row) EXCEPT !.status = "FAILED", !.sello = FALSE]

releaseDocumentFiscalOperationEnabled(row, claim) == row.op_claim = claim

releaseDocumentFiscalOperation(row) == WithoutOperation(row)

markDocumentTransmissionDeferredEnabled(row, claim) ==
    row.status = "SIGNED" /\ row.op_claim = claim

markDocumentTransmissionDeferred(row) ==
    [WithoutOperation(row) EXCEPT !.deferred_at = TRUE, !.sello = FALSE]

\* WHERE clause of the deferred sweep.
listDeferredTransmissionDocuments(row) ==
    row.status = "SIGNED" /\ row.deferred_at /\ row.op_claim = NULL

-----------------------------------------------------------------------------
(* Invalidation.  The two-statement batches also touch the event's row in  *)
(* dte_events; its status is an argument.                                  *)

\* A bug for the mutation test: an annulment in progress is not noticed.
InvalidateIgnoresHolder(row) == row.status = "ACCEPTED" /\ row.sello /\ row.finalized_at

claimDocumentInvalidationEnabled(row) ==
    /\ row.status = "ACCEPTED"
    /\ row.sello
    /\ row.finalized_at
    /\ row.op_claim = NULL

claimDocumentInvalidation(row, claim) ==
    [row EXCEPT !.op_claim = claim, !.op_kind = "INVALIDATION", !.op_event = NULL]

OwnsInvalidation(row, claim, event) ==
    /\ row.status = "ACCEPTED"
    /\ row.op_claim = claim
    /\ row.op_kind = "INVALIDATION"
    /\ row.op_event = event

createAndAttachDocumentInvalidationEventEnabled(row, claim) ==
    OwnsInvalidation(row, claim, NULL)

createAndAttachDocumentInvalidationEvent(row, event) ==
    [row EXCEPT !.op_event = event]

releaseDocumentInvalidationBeforeDispatchEnabled(row, claim, event, eventStatus) ==
    OwnsInvalidation(row, claim, event) /\ eventStatus = "SIGNED"

completeDocumentInvalidationEnabled(row, claim, event, eventStatus) ==
    OwnsInvalidation(row, claim, event) /\ eventStatus = "SIGNED"

completeDocumentInvalidation(row, accepted) ==
    [WithoutOperation(row) EXCEPT
        !.status = IF accepted THEN "INVALIDATED" ELSE "ACCEPTED"]

-----------------------------------------------------------------------------
(* Post-accept finalization.                                               *)

\* takeover: POST_ACCEPT_FINALIZATION_CLAIMABLE_PREDICATE lets a stale claim
\* be replaced.
claimDocumentPostAcceptFinalizationEnabled(row, takeover) ==
    /\ row.status = "ACCEPTED"
    /\ ~row.finalized_at
    /\ row.op_claim = NULL
    /\ row.fin_claim = NULL \/ takeover

claimDocumentPostAcceptFinalization(row, claim) == [row EXCEPT !.fin_claim = claim]

releaseDocumentPostAcceptFinalizationEnabled(row, claim) ==
    row.status = "ACCEPTED" /\ ~row.finalized_at /\ row.fin_claim = claim

releaseDocumentPostAcceptFinalization(row) == [row EXCEPT !.fin_claim = NULL]

markDocumentPostAcceptFinalizedEnabled(row, claim) ==
    /\ row.status = "ACCEPTED"
    /\ ~row.finalized_at
    /\ row.op_claim = NULL
    /\ row.fin_claim = claim

markDocumentPostAcceptFinalized(row) ==
    [row EXCEPT !.finalized_at = TRUE, !.fin_claim = NULL]

=============================================================================
