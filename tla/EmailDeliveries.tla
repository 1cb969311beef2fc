-------------------------- MODULE EmailDeliveries --------------------------
(***************************************************************************)
(* The rows of email_deliveries that belong to the definitive receipt      *)
(* (dteReceipt, sent while ACCEPTED) of one document, and the statements   *)
(* of src/worker/storage/repository/deliveries.ts on them.  As in          *)
(* DteDocuments, XEnabled is a WHERE clause and X the row after the SET.   *)
(*                                                                         *)
(* A row is named by its resend_request_id; NULL names the one row of the  *)
(* automatic receipt.  rows is the table, latest holds the name of the     *)
(* row with the highest attempt_no, if there is one.                       *)
(*   token       claim_token, dropped once the row is settled: no          *)
(*               statement compares it afterwards                          *)
(*   stale       claim_attempted_at is older than the 15 minute lease      *)
(*   dispatched  provider_dispatch_started_at IS NOT NULL                  *)
(*   outcome     outcome_class; retry_safe is outcome = NOT_SENT           *)
(***************************************************************************)

CONSTANTS Tokens,    \* claim tokens
          Requests,  \* resend_request_ids, one per deliberate operator action
          Emails,    \* addresses
          NULL

Keys == Requests \cup {NULL}

Outcomes == {"NONE", "NOT_SENT", "NOT_DELIVERED", "UNKNOWN"}

DeliveryRow == [status     : {"NONE", "PENDING", "SENT", "FAILED"},
                token      : Tokens \cup {NULL},
                to         : Emails \cup {NULL},
                stale      : BOOLEAN,
                dispatched : BOOLEAN,
                outcome    : Outcomes]

NoDelivery == [status |-> "NONE", token |-> NULL, to |-> NULL, stale |-> FALSE,
               dispatched |-> FALSE, outcome |-> "NONE"]

\* The row every claim leaves behind.
Claimed(token, to) == [NoDelivery EXCEPT !.status = "PENDING", !.token = token, !.to = to]

retry_safe(row) == row.outcome = "NOT_SENT"

\* Rows of the unique index idx_email_deliveries_unresolved_receipt_claim: a
\* second one for the document makes a statement fail.
Unresolved(row) ==
    \/ row.status = "PENDING"
    \/ row.status = "FAILED" /\ row.outcome \in {"NONE", "UNKNOWN"}

Fenced(rows, key) == \E k \in Keys \ {key} : Unresolved(rows[k])

\* What a claim may take over: a failure proven not to have been sent, or a
\* stale claim that never reached the provider.
Reclaimable(row) ==
    \/ row.status = "FAILED" /\ retry_safe(row)
    \/ row.status = "PENDING" /\ ~row.dispatched /\ row.stale

-----------------------------------------------------------------------------

\* The NOT EXISTS subquery, then the upsert of the automatic row.
claimEmailDeliveryEnabled(rows) ==
    /\ \A k \in Keys : rows[k].status = "NONE" \/ Reclaimable(rows[k])

\* First statement of claimManualEmailDelivery: the same request again.
reclaimManualEmailDeliveryEnabled(rows, latest, request, to) ==
    /\ request \in latest
    /\ rows[request].to = to
    /\ Reclaimable(rows[request])

\* Second statement: a new request, unless the latest attempt is unresolved.
claimManualEmailDeliveryEnabled(rows, latest, request) ==
    /\ rows[request].status = "NONE"
    /\ \A k \in latest : ~Unresolved(rows[k])
    /\ ~Fenced(rows, request)

markEmailDeliveryDispatchStartedEnabled(row, token) ==
    row.status = "PENDING" /\ row.token = token /\ ~row.dispatched

markEmailDeliveryDispatchStarted(row) == [row EXCEPT !.dispatched = TRUE]

finalizeEmailDeliveryClaimEnabled(row, token) ==
    row.status = "PENDING" /\ row.token = token

\* A bug for the mutation test: the success is stored as an outcome class.
StoresSentAsOutcome(row, outcome) ==
    [row EXCEPT !.status = IF outcome = "SENT" THEN "SENT" ELSE "FAILED",
                !.outcome = outcome, !.token = NULL, !.stale = FALSE]

\* outcome "SENT" is the success; the others are classes of failure.
finalizeEmailDeliveryClaim(row, outcome) ==
    [row EXCEPT !.status = IF outcome = "SENT" THEN "SENT" ELSE "FAILED",
                !.outcome = IF outcome = "SENT" THEN "NONE" ELSE outcome,
                !.token = NULL, !.stale = FALSE]

\* hasHandledEmail(document, dteReceipt, ACCEPTED).
hasHandledEmail(rows) == \E k \in Keys : rows[k].status \in {"SENT", "FAILED"}

=============================================================================
