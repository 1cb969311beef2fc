-------------------------- MODULE FiscalOperations --------------------------
(***************************************************************************)
(* Every handler that may send a CDE (comprobante de donación) or its      *)
(* annulment to the Ministerio de Hacienda, interleaved statement by       *)
(* statement on the shared D1 rows:                                        *)
(*                                                                         *)
(*   process    queue consumer -> DtePipeline.processDteDocument           *)
(*   sweep      cron -> DtePipeline.retryDeferredTransmissions             *)
(*   finalize   cron -> retryPendingPostAcceptFinalizations                *)
(*   retry      POST /api/documents/:id/retry                              *)
(*   invalidate POST /api/documents/:id/invalidate                         *)
(*                                                                         *)
(* A run is one invocation of a handler for one document.  A run mints     *)
(* its own claim and event ids (newId); the run itself stands for the ids  *)
(* it mints, and may be used again once no row mentions it.  A Worker may  *)
(* be evicted, or a D1 call may throw, between any two steps of a run:     *)
(* that is Crash.  Redelivery of a queue message is a new process run.     *)
(*                                                                         *)
(* Fiscal corrections change a row's codigoGeneracion and have their own   *)
(* protocol; they are not part of this module, so "blocked" is FALSE and   *)
(* REJECTED is final here.                                                 *)
(***************************************************************************)
EXTENDS DteDocuments, MhClient, Naturals

CONSTANT Docs    \* the documents, each with its codigoGeneracion

ASSUME NullIsNoDoc == NULL \notin Docs

Runs == Ids

Kinds == {"process", "sweep", "retry", "invalidate", "finalize"}

PCs == {"idle", "sign", "catch", "mark_failed", "claim", "dispatch",
        "pre_failed", "reply", "complete", "fin_claim", "fin_work",
        "inv_claim", "inv_attach", "inv_release", "inv_dispatch",
        "inv_pre_failed", "inv_reply", "inv_complete"}

\* What a handler keeps in its local variables across awaits: the document,
\* the columns of its (possibly stale) snapshot, and MH's parsed verdict.
RunState == [pc       : PCs,
             kind     : Kinds \cup {"none"},
             doc      : Docs \cup {NULL},
             status   : DteStatus,
             deferred : BOOLEAN,
             verdict  : {"NONE", "ACCEPTED", "REJECTED"}]

IdleRun == [pc |-> "idle", kind |-> "none", doc |-> NULL, status |-> "PENDING",
            deferred |-> FALSE, verdict |-> "NONE"]

EventRow == [status      : {"NONE", "SIGNED", "FAILED", "ACCEPTED", "REJECTED"},
             document_id : Docs \cup {NULL}]

NoEvent == [status |-> "NONE", document_id |-> NULL]

VARIABLES
    dte_documents,  \* the table: Docs -> DteRow
    dte_events,     \* the table of annulment events: Runs -> EventRow
    run,            \* the handlers in flight
    posts,          \* POSTs to /recepciondte sent per document (history)
    recepcion,      \* MH: what became of each document
    anulacion       \* MH: what became of each annulment event

vars == <<dte_documents, dte_events, run, posts, recepcion, anulacion>>

mhVars == <<posts, recepcion, anulacion>>

Init ==
    /\ dte_documents = [d \in Docs |-> createDteDocument]
    /\ dte_events = [r \in Runs |-> NoEvent]
    /\ run = [r \in Runs |-> IdleRun]
    /\ posts = [d \in Docs |-> 0]
    /\ recepcion = [d \in Docs |-> "NONE"]
    /\ anulacion = [r \in Runs |-> "NONE"]

-----------------------------------------------------------------------------
(* How a step moves its run and its row.                                   *)

At(r, pc) == run[r].pc = pc

Row(r) == dte_documents[run[r].doc]

Goto(r, pc) == run' = [run EXCEPT ![r].pc = pc]

Return(r) == run' = [run EXCEPT ![r] = IdleRun]

SetRow(r, row) == dte_documents' = [dte_documents EXCEPT ![run[r].doc] = row]

\* An UPDATE ... WHERE: the row changes if the WHERE clause holds.
UpdateRow(r, enabled, row) == SetRow(r, IF enabled THEN row ELSE Row(r))

SetEvent(e, status, doc) ==
    dte_events' = [dte_events EXCEPT ![e] = [status |-> status, document_id |-> doc]]

\* newId: an identifier that occurs nowhere.
Fresh(r) ==
    /\ run[r] = IdleRun
    /\ dte_events[r] = NoEvent
    /\ \A d \in Docs : r \notin {dte_documents[d].op_claim, dte_documents[d].fin_claim}

Begin(r, d, kind, pc) ==
    /\ Fresh(r)
    /\ run' = [run EXCEPT ![r] =
                 [pc |-> pc, kind |-> kind, doc |-> d,
                  status |-> dte_documents[d].status,
                  deferred |-> dte_documents[d].deferred_at, verdict |-> "NONE"]]
    /\ UNCHANGED <<dte_documents, dte_events, mhVars>>

-----------------------------------------------------------------------------
(* Entry points: read the row, take the early returns.                     *)

\* processDteDocument up to its try block.
StartProcess(r, d) ==
    LET row == dte_documents[d] IN
    /\ isTerminalDteStatus(row.status) => row.status = "ACCEPTED" /\ ~row.finalized_at
    /\ Begin(r, d, "process",
             CASE row.status = "ACCEPTED" -> "fin_claim"
               [] row.status # "ACCEPTED" /\ row.signed_jws  -> "claim"
               [] row.status # "ACCEPTED" /\ ~row.signed_jws -> "sign")

\* One document of the list read by retryDeferredTransmissions.
StartSweep(r, d) ==
    /\ listDeferredTransmissionDocuments(dte_documents[d])
    /\ Begin(r, d, "sweep", IF dte_documents[d].signed_jws THEN "claim" ELSE "sign")

isRetryableDocument(row) ==
    /\ row.op_claim = NULL
    /\ row.status \in {"SIGNED", "FAILED"}
    /\ ~(row.status = "SIGNED" /\ row.deferred_at)

\* The manual retry of a signed document.  Without signed_jws the route only
\* enqueues a message, which is a StartProcess.
StartRetry(r, d) ==
    /\ isRetryableDocument(dte_documents[d])
    /\ dte_documents[d].signed_jws
    /\ Begin(r, d, "retry", "claim")

\* The manual annulment up to the signature of its event.  The legal window
\* (cdeInvalidationDeadline) only narrows this guard.
StartInvalidate(r, d) ==
    /\ dte_documents[d].op_claim = NULL
    /\ dte_documents[d].status = "ACCEPTED"
    /\ dte_documents[d].sello
    /\ Begin(r, d, "invalidate", "inv_claim")

\* One document of the list read by retryPendingPostAcceptFinalizations.
\* takeover: see claimDocumentPostAcceptFinalizationEnabled.
StartFinalize(r, d) ==
    /\ \E takeover \in BOOLEAN :
          claimDocumentPostAcceptFinalizationEnabled(dte_documents[d], takeover)
    /\ Begin(r, d, "finalize", "fin_claim")

-----------------------------------------------------------------------------
(* Signing, and the catch block reached when it throws.                    *)

Sign(r) ==
    LET enabled == updateDocumentSignedEnabled(Row(r), run[r].status) IN
    /\ At(r, "sign")
    /\ UpdateRow(r, enabled, updateDocumentSigned(Row(r)))
    /\ IF enabled
         THEN run' = [run EXCEPT ![r].pc = "claim", ![r].status = "SIGNED"]
         ELSE Return(r)
    /\ UNCHANGED <<dte_events, mhVars>>

\* Bad certificate, wrong issuer, or a D1 error whose UPDATE may have been
\* committed all the same.  processDteDocument catches it, the sweep goes on.
SignThrows(r) ==
    /\ At(r, "sign")
    /\ \E committed \in BOOLEAN :
         UpdateRow(r, committed /\ updateDocumentSignedEnabled(Row(r), run[r].status),
                   updateDocumentSigned(Row(r)))
    /\ IF run[r].kind = "process" THEN Goto(r, "catch") ELSE Return(r)
    /\ UNCHANGED <<dte_events, mhVars>>

\* The catch block reads the latest status, but the deferred marker from the
\* snapshot taken when the run began.
Catch(r) ==
    /\ At(r, "catch")
    /\ IF \/ isTerminalDteStatus(Row(r).status)
          \/ run[r].status = "SIGNED" /\ run[r].deferred
         THEN Return(r)
         ELSE Goto(r, "mark_failed")
    /\ UNCHANGED <<dte_documents, dte_events, mhVars>>

MarkFailed(r) ==
    /\ At(r, "mark_failed")
    /\ UpdateRow(r, markDocumentFailedEnabled(Row(r), NULL), markDocumentFailed(Row(r)))
    /\ Return(r)
    /\ UNCHANGED <<dte_events, mhVars>>

-----------------------------------------------------------------------------
(* Transmission: claim, authenticate, POST, read the answer, record it.    *)

Claim(r) ==
    LET enabled == claimDocumentTransmissionEnabled(Row(r), run[r].status, FALSE) IN
    /\ At(r, "claim")
    /\ UpdateRow(r, enabled, claimDocumentTransmission(Row(r), r))
    /\ IF enabled THEN Goto(r, "dispatch") ELSE Return(r)
    /\ UNCHANGED <<dte_events, mhVars>>

\* getPreDispatchToken throws MhPreDispatchError: nothing was sent.
TokenFails(r) ==
    /\ At(r, "dispatch")
    /\ Goto(r, "pre_failed")
    /\ UNCHANGED <<dte_documents, dte_events, mhVars>>

\* processDteDocument defers; the sweep and the manual retry release.
PreDispatchFailed(r) ==
    /\ At(r, "pre_failed")
    /\ IF run[r].kind = "process"
         THEN UpdateRow(r, markDocumentTransmissionDeferredEnabled(Row(r), r),
                        markDocumentTransmissionDeferred(Row(r)))
         ELSE UpdateRow(r, releaseDocumentFiscalOperationEnabled(Row(r), r),
                        releaseDocumentFiscalOperation(Row(r)))
    /\ Return(r)
    /\ UNCHANGED <<dte_events, mhVars>>

\* fetchMh on /recepciondte.  From here on MH may have the document.
Post(r) ==
    LET d == run[r].doc IN
    /\ At(r, "dispatch")
    /\ posts' = [posts EXCEPT ![d] = @ + 1]
    /\ recepcion' = [recepcion EXCEPT ![d] = IF @ = "NONE" THEN "IN_FLIGHT" ELSE @]
    /\ Goto(r, "reply")
    /\ UNCHANGED <<dte_documents, dte_events, anulacion>>

\* A bug for the mutation test: an ambiguous answer is handled as if nothing
\* had been sent.
AmbiguousReleases(r, truth, complete) ==
    /\ \E reply \in MhReply :
         /\ MhCanReply(truth, reply)
         /\ IF parseMhResponse(reply) = "AMBIGUOUS"
              THEN Goto(r, IF complete = "complete" THEN "pre_failed" ELSE "inv_pre_failed")
              ELSE run' = [run EXCEPT ![r].pc = complete,
                                      ![r].verdict = parseMhResponse(reply)]
    /\ UNCHANGED <<dte_documents, dte_events, mhVars>>

\* A definitive answer goes on to be recorded; an ambiguous one is thrown,
\* and every caller leaves the claim where it is.
ReadReply(r, truth, complete) ==
    /\ \E reply \in MhReply :
         /\ MhCanReply(truth, reply)
         /\ IF parseMhResponse(reply) = "AMBIGUOUS"
              THEN Return(r)
              ELSE run' = [run EXCEPT ![r].pc = complete,
                                      ![r].verdict = parseMhResponse(reply)]
    /\ UNCHANGED <<dte_documents, dte_events, mhVars>>

Reply(r) ==
    /\ At(r, "reply")
    /\ ReadReply(r, recepcion[run[r].doc], "complete")

\* completeDocumentTransmission; only the manual retry leaves the
\* finalization of an accepted document to the cron.
Complete(r) ==
    LET enabled  == completeDocumentTransmissionEnabled(Row(r), r)
        accepted == run[r].verdict = "ACCEPTED"
    IN
    /\ At(r, "complete")
    /\ UpdateRow(r, enabled, completeDocumentTransmission(Row(r), accepted))
    /\ IF enabled /\ accepted /\ run[r].kind # "retry"
         THEN Goto(r, "fin_claim")
         ELSE Return(r)
    /\ UNCHANGED <<dte_events, mhVars>>

-----------------------------------------------------------------------------
(* finalizeAcceptedDocument, reduced to its ownership protocol.            *)

FinClaim(r) ==
    /\ At(r, "fin_claim")
    /\ \E takeover \in BOOLEAN :
         LET enabled == claimDocumentPostAcceptFinalizationEnabled(Row(r), takeover) IN
         /\ UpdateRow(r, enabled, claimDocumentPostAcceptFinalization(Row(r), r))
         /\ IF enabled THEN Goto(r, "fin_work") ELSE Return(r)
    /\ UNCHANGED <<dte_events, mhVars>>

FinMark(r) ==
    /\ At(r, "fin_work")
    /\ UpdateRow(r, markDocumentPostAcceptFinalizedEnabled(Row(r), r),
                 markDocumentPostAcceptFinalized(Row(r)))
    /\ Return(r)
    /\ UNCHANGED <<dte_events, mhVars>>

FinRelease(r) ==
    /\ At(r, "fin_work")
    /\ UpdateRow(r, releaseDocumentPostAcceptFinalizationEnabled(Row(r), r),
                 releaseDocumentPostAcceptFinalization(Row(r)))
    /\ Return(r)
    /\ UNCHANGED <<dte_events, mhVars>>

-----------------------------------------------------------------------------
(* Annulment.                                                              *)

InvClaim(r) ==
    LET enabled == claimDocumentInvalidationEnabled(Row(r)) IN
    /\ At(r, "inv_claim")
    /\ UpdateRow(r, enabled, claimDocumentInvalidation(Row(r), r))
    /\ IF enabled THEN Goto(r, "inv_attach") ELSE Return(r)
    /\ UNCHANGED <<dte_events, mhVars>>

\* The batch that inserts the SIGNED event and links it to the claim.  It may
\* throw although it was committed.
InvAttach(r) ==
    LET enabled == createAndAttachDocumentInvalidationEventEnabled(Row(r), r) IN
    /\ At(r, "inv_attach")
    /\ \E committed, returned \in BOOLEAN :
         /\ returned => committed /\ enabled
         /\ IF committed /\ enabled
              THEN /\ SetRow(r, createAndAttachDocumentInvalidationEvent(Row(r), r))
                   /\ SetEvent(r, "SIGNED", run[r].doc)
              ELSE UNCHANGED <<dte_documents, dte_events>>
         /\ Goto(r, IF returned THEN "inv_dispatch" ELSE "inv_release")
    /\ UNCHANGED mhVars

InvRelease(r) ==
    /\ At(r, "inv_release")
    /\ UpdateRow(r, releaseDocumentFiscalOperationEnabled(Row(r), r),
                 releaseDocumentFiscalOperation(Row(r)))
    /\ Return(r)
    /\ UNCHANGED <<dte_events, mhVars>>

InvTokenFails(r) ==
    /\ At(r, "inv_dispatch")
    /\ Goto(r, "inv_pre_failed")
    /\ UNCHANGED <<dte_documents, dte_events, mhVars>>

InvPreDispatchFailed(r) ==
    /\ At(r, "inv_pre_failed")
    /\ IF releaseDocumentInvalidationBeforeDispatchEnabled(
              Row(r), r, r, dte_events[r].status)
         THEN /\ SetRow(r, WithoutOperation(Row(r)))
              /\ SetEvent(r, "FAILED", run[r].doc)
         ELSE UNCHANGED <<dte_documents, dte_events>>
    /\ Return(r)
    /\ UNCHANGED mhVars

\* fetchMh on /anulardte.
InvPost(r) ==
    /\ At(r, "inv_dispatch")
    /\ anulacion' = [anulacion EXCEPT ![r] = "IN_FLIGHT"]
    /\ Goto(r, "inv_reply")
    /\ UNCHANGED <<dte_documents, dte_events, posts, recepcion>>

InvReply(r) ==
    /\ At(r, "inv_reply")
    /\ ReadReply(r, anulacion[r], "inv_complete")

InvComplete(r) ==
    LET accepted == run[r].verdict = "ACCEPTED" IN
    /\ At(r, "inv_complete")
    /\ IF completeDocumentInvalidationEnabled(Row(r), r, r, dte_events[r].status)
         THEN /\ SetRow(r, completeDocumentInvalidation(Row(r), accepted))
              /\ SetEvent(r, run[r].verdict, run[r].doc)
         ELSE UNCHANGED <<dte_documents, dte_events>>
    /\ Return(r)
    /\ UNCHANGED mhVars

-----------------------------------------------------------------------------
(* The environment.                                                        *)

\* The invocation ends between two steps: an eviction, or an error of a D1
\* call that no catch block turns into a write.
Crash(r) ==
    /\ ~At(r, "idle")
    /\ Return(r)
    /\ UNCHANGED <<dte_documents, dte_events, mhVars>>

\* MH rules on a document or on an annulment, possibly long after the POST
\* timed out.
MhRecepcion(d) ==
    /\ recepcion[d] = "IN_FLIGHT"
    /\ \E verdict \in {"PROCESADO", "RECHAZADO"} :
         recepcion' = [recepcion EXCEPT ![d] = verdict]
    /\ UNCHANGED <<dte_documents, dte_events, run, posts, anulacion>>

MhAnulacion(r) ==
    /\ anulacion[r] = "IN_FLIGHT"
    /\ \E verdict \in {"PROCESADO", "RECHAZADO"} :
         anulacion' = [anulacion EXCEPT ![r] = verdict]
    /\ UNCHANGED <<dte_documents, dte_events, run, posts, recepcion>>

-----------------------------------------------------------------------------

Start(r, d) ==
    \/ StartProcess(r, d) \/ StartSweep(r, d) \/ StartRetry(r, d)
    \/ StartInvalidate(r, d) \/ StartFinalize(r, d)

Step(r) ==
    \/ Sign(r) \/ SignThrows(r) \/ Catch(r) \/ MarkFailed(r)
    \/ Claim(r) \/ TokenFails(r) \/ PreDispatchFailed(r)
    \/ Post(r) \/ Reply(r) \/ Complete(r)
    \/ FinClaim(r) \/ FinMark(r) \/ FinRelease(r)
    \/ InvClaim(r) \/ InvAttach(r) \/ InvRelease(r) \/ InvTokenFails(r)
    \/ InvPreDispatchFailed(r) \/ InvPost(r) \/ InvReply(r) \/ InvComplete(r)

Next ==
    \/ \E r \in Runs, d \in Docs : Start(r, d)
    \/ \E r \in Runs : Step(r) \/ Crash(r) \/ MhAnulacion(r)
    \/ \E d \in Docs : MhRecepcion(d)

Spec == Init /\ [][Next]_vars
-----------------------------------------------------------------------------
(* Properties.                                                             *)

\* The columns and the handlers' locals have their types.
TypeOK ==
    /\ dte_documents \in [Docs -> DteRow]
    /\ dte_events \in [Runs -> EventRow]
    /\ run \in [Runs -> RunState]
    /\ posts \in [Docs -> Nat]
    /\ recepcion \in [Docs -> MhTruth]
    /\ anulacion \in [Runs -> MhTruth]

\* A codigoGeneracion is POSTed to /recepciondte at most once, whatever queue
\* redeliveries, cron sweeps, manual retries and crashes overlap (the durable
\* claim of claimDocumentTransmission).
AtMostOnePost == \A d \in Docs : posts[d] <= 1

\* The status in dte_documents never contradicts the Ministry: a document
\* shown as accepted or invalidated was processed, one shown as rejected was
\* rejected, and an invalidation shown was granted to one of its events.
LedgerAgreesWithMh ==
    \A d \in Docs :
       LET status == dte_documents[d].status IN
       /\ status \in {"ACCEPTED", "INVALIDATED"} => recepcion[d] = "PROCESADO"
       /\ status = "REJECTED" => recepcion[d] = "RECHAZADO"
       /\ status = "INVALIDATED" =>
            \E e \in Runs : /\ dte_events[e] = [status |-> "ACCEPTED", document_id |-> d]
                           /\ anulacion[e] = "PROCESADO"

\* Once a POST has left, the row is either settled or stays SIGNED under its
\* transmission claim: it is never failed, deferred, released or listed by the
\* sweep, so no later handler can send it again before it is reconciled.
UncertainStaysClaimed ==
    \A d \in Docs :
       LET row == dte_documents[d] IN
       posts[d] > 0 /\ ~isTerminalDteStatus(row.status) =>
          /\ row.status = "SIGNED"
          /\ row.op_claim # NULL
          /\ row.op_kind = "TRANSMISSION"

\* An annulment request that MH has, or may have, granted is either recorded
\* or still holds its document's claim with its own event attached.
AnnulmentStaysClaimed ==
    \A e \in Runs : anulacion[e] \in {"IN_FLIGHT", "PROCESADO"} =>
       LET d == dte_events[e].document_id IN
       \/ dte_events[e].status = "ACCEPTED" /\ dte_documents[d].status = "INVALIDATED"
       \/ dte_events[e].status = "SIGNED" /\ OwnsInvalidation(dte_documents[d], e, e)

\* Two annulments of one document are never outstanding or granted together.
AtMostOneAnulacion ==
    \A e, f \in Runs :
       /\ {anulacion[e], anulacion[f]} \subseteq {"IN_FLIGHT", "PROCESADO"}
       /\ dte_events[e].document_id = dte_events[f].document_id
       => e = f

\* A verdict written by completeDocumentTransmission is never overwritten:
\* REJECTED and INVALIDATED are final, ACCEPTED may only become INVALIDATED,
\* and the seal of an accepted document is kept.
VerdictIsFinal ==
    [][\A d \in Docs :
         LET old == dte_documents[d]
             new == dte_documents'[d]
         IN  isTerminalDteStatus(old.status) =>
               /\ \/ new.status = old.status
                  \/ old.status = "ACCEPTED" /\ new.status = "INVALIDATED"
               /\ new.sello = old.sello]_vars

\* The handlers implement the promise of LegalSubmission.
Legal == INSTANCE LegalSubmission WITH
    submitted <- {d \in Docs : posts[d] > 0},
    mh        <- [d \in Docs |-> IF recepcion[d] = "IN_FLIGHT" THEN "NONE" ELSE recepcion[d]],
    annulled  <- {d \in Docs : \E e \in Runs : /\ dte_events[e].document_id = d
                                              /\ anulacion[e] = "PROCESADO"},
    ledger    <- [d \in Docs |->
                    CASE dte_documents[d].status = "ACCEPTED"    -> "PROCESADO"
                      [] dte_documents[d].status = "REJECTED"    -> "RECHAZADO"
                      [] dte_documents[d].status = "INVALIDATED" -> "ANULADO"
                      [] OTHER                                   -> "OPEN"]

LegalSpec == Legal!Spec

-----------------------------------------------------------------------------
(* The inductive invariant behind the properties above: who may be where   *)
(* in its handler, as a function of the claim in the row.                  *)

OwnsTransmission(r) ==
    /\ Row(r).status = "SIGNED"
    /\ Row(r).op_claim = r
    /\ Row(r).op_kind = "TRANSMISSION"

\* What a run knows of its document at each point of its handler.
RunKnows(r) ==
    /\ run[r].pc # "idle" => run[r].doc \in Docs
    /\ run[r].pc \in {"sign", "claim"} => ~isTerminalDteStatus(run[r].status)
    /\ run[r].pc \in {"dispatch", "pre_failed"} =>
         OwnsTransmission(r) /\ posts[run[r].doc] = 0
    /\ run[r].pc \in {"reply", "complete"} =>
         OwnsTransmission(r) /\ posts[run[r].doc] = 1
    /\ run[r].pc = "complete" =>
         recepcion[run[r].doc] = IF run[r].verdict = "ACCEPTED" THEN "PROCESADO" ELSE "RECHAZADO"
    /\ run[r].pc \in {"complete", "inv_complete"} => run[r].verdict # "NONE"
    /\ run[r].pc \in {"inv_claim", "inv_attach"} => dte_events[r] = NoEvent
    /\ run[r].pc = "inv_attach" => OwnsInvalidation(Row(r), r, NULL)
    /\ run[r].pc = "inv_release" =>
         Row(r).status = "ACCEPTED" /\ Row(r).op_claim = r
    /\ run[r].pc \in {"inv_dispatch", "inv_pre_failed", "inv_reply", "inv_complete"} =>
         /\ OwnsInvalidation(Row(r), r, r)
         /\ dte_events[r] = [status |-> "SIGNED", document_id |-> run[r].doc]
    /\ run[r].pc \notin {"idle", "inv_reply", "inv_complete"} => anulacion[r] = "NONE"
    /\ run[r].pc = "inv_complete" =>
         anulacion[r] = IF run[r].verdict = "ACCEPTED" THEN "PROCESADO" ELSE "RECHAZADO"

\* How the columns of a row, the POSTs and the Ministry's verdict go together.
RowKnows(d) ==
    LET row == dte_documents[d] IN
    /\ posts[d] <= 1
    /\ posts[d] = 0 <=> recepcion[d] = "NONE"
    /\ row.status \in {"ACCEPTED", "INVALIDATED"} => recepcion[d] = "PROCESADO"
    /\ row.status = "REJECTED" => recepcion[d] = "RECHAZADO"
    /\ row.sello <=> row.status \in {"ACCEPTED", "INVALIDATED"}
    /\ row.op_claim # NULL =>
         \/ row.status = "SIGNED" /\ row.op_kind = "TRANSMISSION"
         \/ row.status = "ACCEPTED" /\ row.op_kind = "INVALIDATION"
    /\ posts[d] > 0 /\ ~isTerminalDteStatus(row.status) => row.op_claim # NULL

\* How an annulment event, its document and the Ministry go together.
EventKnows(e) ==
    LET d == dte_events[e].document_id IN
    /\ dte_events[e].status = "NONE" => dte_events[e] = NoEvent
    /\ dte_events[e].status # "NONE" => d \in Docs
    /\ anulacion[e] # "NONE" => dte_events[e].status # "NONE"
    /\ dte_events[e].status = "ACCEPTED" => anulacion[e] = "PROCESADO"
    /\ anulacion[e] \in {"IN_FLIGHT", "PROCESADO"} =>
         \/ dte_events[e].status = "ACCEPTED" /\ dte_documents[d].status = "INVALIDATED"
         \/ dte_events[e].status = "SIGNED" /\ OwnsInvalidation(dte_documents[d], e, e)

\* A document shown as invalidated has the event that annulled it.
InvalidatedHasEvent ==
    \A d \in Docs : dte_documents[d].status = "INVALIDATED" =>
       \E e \in Runs : /\ dte_events[e] = [status |-> "ACCEPTED", document_id |-> d]
                      /\ anulacion[e] = "PROCESADO"

\* No document is annulled by two events.
OneAcceptedEvent ==
    \A e, f \in Runs :
       /\ dte_events[e].status = "ACCEPTED" /\ dte_events[f].status = "ACCEPTED"
       /\ dte_events[e].document_id = dte_events[f].document_id
       => e = f

\* Every step of every handler keeps the claim protocol: a run past its claim
\* still holds it, a row without a claim is settled or was never sent, and an
\* annulment at the Ministry still holds its document.
ClaimProtocol ==
    /\ \A r \in Runs : RunKnows(r)
    /\ \A d \in Docs : RowKnows(d)
    /\ \A e \in Runs : EventKnows(e)
    /\ InvalidatedHasEvent
    /\ OneAcceptedEvent

-----------------------------------------------------------------------------
(* Liveness.                                                               *)

\* A transmission claim whose run is over: nobody knows whether MH has the
\* document, and only an operator may settle it.
AwaitsReconciliation(d) ==
    LET claim == dte_documents[d].op_claim IN claim # NULL /\ run[claim] = IdleRun

\* The sweep takes a document it listed.
SweepClaims(d) ==
    \E r \in Runs : /\ run[r].kind = "sweep" /\ run[r].doc = d
                   /\ claimDocumentTransmissionEnabled(Row(r), run[r].status, FALSE)
                   /\ Claim(r)

\* The sweep gets a token and sends the document.
SweepPosts(d) == \E r \in Runs : run[r].kind = "sweep" /\ run[r].doc = d /\ Post(r)

\* A started handler goes on unless it crashes; the cron lists a document that
\* is deferred again and again; it is not outrun for ever by queue deliveries
\* (their retries are bounded), does not crash every time, and MH does not
\* refuse to authenticate for ever.  Crashes, lost POSTs and ambiguous
\* answers stay possible everywhere.
Fairness ==
    /\ \A r \in Runs : WF_vars(Step(r))
    /\ \A d \in Docs : /\ SF_vars(\E r \in Runs : StartSweep(r, d))
                       /\ SF_vars(SweepClaims(d))
                       /\ SF_vars(SweepPosts(d))

FairSpec == Spec /\ Fairness

\* A CDE whose transmission was deferred is eventually ruled on, or shown to
\* the operator as FAILED or as awaiting reconciliation: it is never left
\* deferred for ever once MH authenticates again.
DeferredIsSettled ==
    \A d \in Docs :
       listDeferredTransmissionDocuments(dte_documents[d]) ~>
          \/ dte_documents[d].status \in TerminalStatus \cup {"FAILED"}
          \/ AwaitsReconciliation(d)

=============================================================================
