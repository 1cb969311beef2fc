-------------------------- MODULE FiscalCorrections --------------------------
(***************************************************************************)
(* The repair of a CDE that MH rejected, or of a payment whose CDE could   *)
(* not be made, from the operator's request to MH's verdict:               *)
(*                                                                         *)
(*   request   POST /api/documents/:id/fiscal-correction (or /reissue),    *)
(*             POST /api/wompi-events/:id/correct-and-retry                *)
(*   consumer  handleFiscalCorrectionQueueMessage, and its dead-letter     *)
(*             twin -> IssuancePipeline.processFiscalCorrection            *)
(*   sweep     cron -> recoverStalledFiscalCorrections                     *)
(*   transmit  a queue message, the deferred sweep or an operator's retry  *)
(*             that finds the corrected CDE signed (see FiscalOperations)  *)
(*   annul     the operator's invalidation (see FiscalOperations)          *)
(*   issue     the payment's own deliveries, retries and sweep (see        *)
(*             WompiIssuance), as far as they meet a correction            *)
(*                                                                         *)
(* interleaved statement by statement.  A message carries the correction   *)
(* and the processing claim (token) it was sent for, and is named by that  *)
(* token.  It is delivered at least once, goes to the dead-letter queue    *)
(* after MaxRetries failed retries, and is dropped after as many there.    *)
(* A run stands for the fiscal claim it mints when it is not a consumer.   *)
(***************************************************************************)
EXTENDS FiscalCorrectionRows, MhClient

CONSTANTS Runs,          \* handlers that may be in flight at a time
          Kinds,         \* where a document may stand initially: DIRECT, rejected
                         \* and backed by no payment; PAYMENT, not made yet
          Deferred,      \* documents whose first transmission was deferred
          Others,        \* handlers that run besides: TRANSMIT, INVALIDATE, ISSUE
          MaxRetries,    \* max_retries of the queue
          Overlapping    \* may a message be delivered to two runs at a time?

ASSUME RunsAreIds == Runs \subseteq Ids /\ Runs \cap Corrections = {}

ASSUME KindsOfDocs == Kinds \subseteq {"DIRECT", "PAYMENT"} /\ Deferred \subseteq Docs

ASSUME NullIsNoName == NULL \notin Docs \cup Tokens /\ Docs \cap (Ids \cup {OwnAttempt}) = {}

ASSUME OthersAreHandlers == Others \subseteq {"TRANSMIT", "INVALIDATE", "ISSUE"}

ASSUME LimitsAreTyped == MaxRetries \in Nat /\ Overlapping \in BOOLEAN

\* Inside the try block of processFiscalCorrection, before processDteDocument.
RebuildPCs == {"read", "reserve", "renew", "prepare", "transmit", "finish", "retire",
               "claim_event", "unsigned", "undo"}

\* Inside the try block of processDteDocument.
DispatchPCs == {"claim_doc", "mark", "dispatch", "complete", "fin"}

\* Outside both.
SettlePCs == {"dead_load", "load", "claim", "reload", "reconcile", "review",
              "error", "clear", "fail", "event", "hold", "release"}

ConsumerPCs == RebuildPCs \cup DispatchPCs \cup SettlePCs
                 \cup {"create", "sign", "sign_held", "reply", "catch", "handler"}

OtherPCs == {"send", "recover", "tx_claim", "tx_dispatch", "tx_reply", "tx_complete",
             "inv_post", "inv_complete", "iss_check", "iss_park", "iss_create", "iss_release"}

\* codigo is the identity of the JWS a handler has read, expected the status of
\* its row; seen the processing claim of the row it has read; error the exception
\* being handled.
RunState == [pc         : {"idle"} \cup ConsumerPCs \cup OtherPCs,
             correction : Corrections \cup {NULL},
             document   : Docs \cup {NULL},
             token      : Tokens \cup {NULL},
             seen       : Tokens \cup {NULL},
             codigo     : Codes,
             expected   : DteStatus,
             dead       : BOOLEAN,
             error      : {"NONE", "PRE_DISPATCH", "BUSY", "OTHER"},
             verdict    : {"NONE", "ACCEPTED", "REJECTED"}]

IdleRun == [pc |-> "idle", correction |-> NULL, document |-> NULL, token |-> NULL,
            seen |-> NULL, codigo |-> NULL, expected |-> "PENDING", dead |-> FALSE,
            error |-> "NONE", verdict |-> "NONE"]

Message == [at : {"none", "queue", "dlq"}, correction : Corrections \cup {NULL},
            tries : 0..MaxRetries]

NoMessage == [at |-> "none", correction |-> NULL, tries |-> 0]

VARIABLES
    fiscal_corrections,  \* the table: Corrections -> CorrectionRow
    dte_documents,       \* the table: Docs -> DteRow
    codigo_generacion,   \* its column codigo_generacion (and numero_control, signed_jws)
    wompi_events,        \* the payment of each document, NoEvent if there is none
    document_sequences,  \* next_value
    messages,            \* the issuance queue and its dead-letter queue
    run,                 \* handlers in flight
    posts,               \* POSTs of each codigo (history)
    recepcion,           \* MH: what became of each codigo
    annulled             \* MH: the codigos it has annulled

vars == <<fiscal_corrections, dte_documents, codigo_generacion, wompi_events,
          document_sequences, messages, run, posts, recepcion, annulled>>

mhVars == <<posts, recepcion, annulled>>

docVars == <<dte_documents, codigo_generacion>>

otherVars == <<wompi_events, document_sequences>>

tableVars == <<fiscal_corrections, docVars, otherVars>>

\* Every codigo that is sent to MH while the model runs.
NewCodes == Corrections \cup (IF "PAYMENT" \in Kinds THEN Docs ELSE {})

\* The document was signed, sent and rejected under its first identity; the
\* rejection leaves transmission_deferred_at as it was.
RejectedDocument(d) ==
    [completeDocumentTransmission(updateDocumentSigned(createDteDocument), FALSE)
        EXCEPT !.deferred_at = d \in Deferred]

\* A payment that waits for its first delivery.
QueuedPayment == W!QueueAttempt(W!insertWompiEvent(W!NoEvent), OwnAttempt)

Init ==
    /\ fiscal_corrections = [c \in Corrections |-> NoCorrection]
    /\ \E kind \in [Docs -> Kinds] :
         /\ dte_documents = [d \in Docs |-> IF kind[d] = "PAYMENT" THEN createDteDocument
                                                                   ELSE RejectedDocument(d)]
         /\ codigo_generacion = [d \in Docs |-> IF kind[d] = "PAYMENT" THEN d ELSE NULL]
         /\ wompi_events = [d \in Docs |-> IF kind[d] = "PAYMENT" THEN QueuedPayment
                                                                  ELSE W!NoEvent]
    /\ document_sequences = 2
    /\ messages = [t \in Tokens |-> NoMessage]
    /\ run = [r \in Runs |-> IdleRun]
    /\ posts = [k \in NewCodes |-> 0]
    /\ recepcion = [k \in NewCodes |-> "NONE"]
    /\ annulled = {}

-----------------------------------------------------------------------------
(* How a step moves its run, its rows and its message.                     *)

At(r, pc) == run[r].pc = pc

Correction(r) == fiscal_corrections[run[r].correction]

Document(r) == dte_documents[run[r].document]

Codigo(r) == codigo_generacion[run[r].document]

Event(r) == wompi_events[run[r].document]

\* No Wompi payment backs the document.
Direct(d) == ~wompi_events[d].received

OfPayment(r) == Correction(r).kind = "WOMPI_EVENT"

SetCorrection(r, x) ==
    fiscal_corrections' = [fiscal_corrections EXCEPT ![run[r].correction] = x]

SetDocument(r, row) == dte_documents' = [dte_documents EXCEPT ![run[r].document] = row]

SetEvent(r, event) == wompi_events' = [wompi_events EXCEPT ![run[r].document] = event]

Goto(r, pc) == run' = [run EXCEPT ![r].pc = pc]

Return(r) == run' = [run EXCEPT ![r] = IdleRun]

\* FiscalCorrectionBusyError, FiscalCorrectionDispatchInFlightError and the
\* errors of the settling statements reach the queue handler.
Throw(r) == Goto(r, "handler") /\ UNCHANGED messages

Proceed(r, pc) == Goto(r, pc) /\ UNCHANGED messages

\* The delivery ends: acknowledged, or to be tried again.
Ack(r) ==
    /\ messages' = [messages EXCEPT ![run[r].token] = NoMessage]
    /\ Return(r)

Redeliver(r) ==
    LET m == messages[run[r].token] IN
    /\ messages' = [messages EXCEPT ![run[r].token] =
                      CASE m.at = "none"                           -> m
                        [] m.at # "none" /\ m.tries < MaxRetries   -> [m EXCEPT !.tries = @ + 1]
                        [] m.at = "queue" /\ m.tries >= MaxRetries ->
                             [m EXCEPT !.at = "dlq", !.tries = 0]
                        [] m.at = "dlq" /\ m.tries >= MaxRetries   -> NoMessage]
    /\ Return(r)

IsTerminal(x) == x.status \in TERMINAL_FISCAL_CORRECTION_STATUSES

\* newId for a processing claim: it occurs nowhere.
FreshToken(t) ==
    /\ messages[t] = NoMessage
    /\ \A c \in Corrections : fiscal_corrections[c].token # t
    /\ \A r \in Runs : t \notin {run[r].token, run[r].seen}

\* newId for a fiscal claim or an issuance claim of r.
FreshRun(r) ==
    /\ run[r] = IdleRun
    /\ \A d \in Docs : r \notin {dte_documents[d].op_claim, wompi_events[d].claim}

Begin(r, state) == FreshRun(r) /\ run' = [run EXCEPT ![r] = state]

-----------------------------------------------------------------------------
(* handleDocumentFiscalCorrection and its twin for a payment.  Their checks*)
(* repeat what the claiming batch asks of the rows, or narrow it (the      *)
(* receptor's fields).  A replay of a stored request returns the stored    *)
(* status and changes nothing.                                             *)

RequestCorrection(r, c, d, t) ==
    LET others == {fiscal_corrections[o] : o \in {o \in Corrections :
                                             fiscal_corrections[o].document = d}}
    IN
    /\ fiscal_corrections[c] = NoCorrection
    /\ FreshToken(t)
    /\ claimDocumentFiscalCorrectionEnabled(dte_documents[d], others)
    /\ Begin(r, [IdleRun EXCEPT !.pc = "send", !.correction = c, !.document = d, !.token = t])
    /\ fiscal_corrections' = [fiscal_corrections EXCEPT ![c] =
          claimDocumentFiscalCorrection(dte_documents[d], d, t, codigo_generacion[d])]
    /\ dte_documents' = [dte_documents EXCEPT ![d] = HoldDocument(@, c)]
    /\ UNCHANGED <<codigo_generacion, otherVars, messages, mhVars>>

\* handleWompiFiscalCorrection, of a payment whose failure is about its receptor.
RequestPayment(r, c, d, t) ==
    LET others == {fiscal_corrections[o] : o \in {o \in Corrections :
                                             fiscal_corrections[o].document = d}}
    IN
    /\ fiscal_corrections[c] = NoCorrection
    /\ FreshToken(t)
    /\ wompi_events[d].error = "RECEPTOR"
    /\ claimWompiFiscalCorrectionEnabled(wompi_events[d], others)
    /\ Begin(r, [IdleRun EXCEPT !.pc = "send", !.correction = c, !.document = d, !.token = t])
    /\ fiscal_corrections' = [fiscal_corrections EXCEPT ![c] = claimWompiFiscalCorrection(d, t)]
    /\ wompi_events' = [wompi_events EXCEPT ![d] = QueueCorrection(@, c)]
    /\ UNCHANGED <<docVars, document_sequences, messages, mhVars>>

\* ISSUANCE_QUEUE.send, of the request and of the sweep.  It may fail, which is
\* logged and leaves the correction to the sweep.
Send(r) ==
    /\ At(r, "send")
    /\ messages' = [messages EXCEPT ![run[r].token] =
                      [at |-> "queue", correction |-> run[r].correction, tries |-> 0]]
    /\ Return(r)
    /\ UNCHANGED <<tableVars, mhVars>>

-----------------------------------------------------------------------------
(* The queue.                                                              *)

\* The queue hands message t to r.
StartDelivery(r, t, pc, dead) ==
    /\ Overlapping \/ \A o \in Runs : run[o].pc \in ConsumerPCs => run[o].token # t
    /\ Begin(r, [IdleRun EXCEPT !.pc = pc, !.token = t, !.dead = dead,
                   !.correction = messages[t].correction,
                   !.document = fiscal_corrections[messages[t].correction].document])
    /\ UNCHANGED <<tableVars, messages, mhVars>>

Deliver(r, t) == messages[t].at = "queue" /\ StartDelivery(r, t, "load", FALSE)

DeadDeliver(r, t) == messages[t].at = "dlq" /\ StartDelivery(r, t, "dead_load", TRUE)

\* handleFiscalCorrectionDeadLetterMessage: only a dispatched correction is
\* processed; what never reached MH is left to the sweep.
DeadLoad(r) ==
    LET x == Correction(r) IN
    /\ At(r, "dead_load")
    /\ IF Owned(x, run[r].token) /\ x.dispatched THEN Proceed(r, "load") ELSE Ack(r)
    /\ UNCHANGED <<tableVars, mhVars>>

\* The catch block of handleFiscalCorrectionQueueMessage; a dead letter's
\* error fails its delivery.
Handler(r) ==
    LET x == Correction(r) IN
    /\ At(r, "handler")
    /\ IF ~run[r].dead /\ (x.token # run[r].token \/ IsTerminal(x)) THEN Ack(r) ELSE Redeliver(r)
    /\ UNCHANGED <<tableVars, mhVars>>

-----------------------------------------------------------------------------
(* processFiscalCorrection.                                                *)

\* The correction as read, before (queued: claim it) and after the claim.
AfterLoad(r, queued) ==
    LET x == Correction(r) IN
    CASE x.token # run[r].token                             -> Throw(r)
      [] x.token = run[r].token /\ IsTerminal(x)            -> Ack(r)
      [] x.token = run[r].token /\ x.status = "QUEUED"      -> queued
      [] Owned(x, run[r].token) /\ x.dispatched             -> Proceed(r, "reconcile")
      [] Owned(x, run[r].token) /\ ~x.dispatched            ->
           Proceed(r, IF OfPayment(r) THEN "event" ELSE "read")

Load(r) ==
    /\ At(r, "load")
    /\ AfterLoad(r, Proceed(r, "claim"))
    /\ UNCHANGED <<tableVars, mhVars>>

ClaimProcessing(r) ==
    LET x == Correction(r) IN
    /\ At(r, "claim")
    /\ SetCorrection(r, IF claimFiscalCorrectionProcessingEnabled(
                               x, run[r].correction, run[r].token, Document(r), Event(r))
                          THEN claimFiscalCorrectionProcessing(x)
                          ELSE x)
    /\ Proceed(r, "reload")
    /\ UNCHANGED <<docVars, otherVars, mhVars>>

Reload(r) ==
    /\ At(r, "reload")
    /\ AfterLoad(r, Throw(r))
    /\ UNCHANGED <<tableVars, mhVars>>

\* A bug for the mutation test: whatever the row says is taken as the verdict.
SettleUnverified(r, enabled, otherwise) ==
    IF Document(r).status \in {"ACCEPTED", "REJECTED"} /\ Owned(Correction(r), run[r].token)
      THEN SetCorrection(r, Finalized(Correction(r), Document(r).status)) /\ Ack(r)
      ELSE UNCHANGED fiscal_corrections /\ otherwise

\* finalizeFiscalCorrection with the document's verdict; a correction that is
\* settled already counts as settled.
SettleVerdict(r, enabled, otherwise) ==
    /\ SetCorrection(r, IF enabled THEN Finalized(Correction(r), Document(r).status)
                                   ELSE Correction(r))
    /\ IF enabled \/ IsTerminal(Correction(r)) THEN Ack(r) ELSE otherwise

VerdictEnabled(r) ==
    finalizeVerdictEnabled(Correction(r), run[r].correction, run[r].token, Document(r), Codigo(r),
                           Event(r))

\* reconcileKnownTerminalFiscalCorrection for a dispatched correction.
Reconcile(r) ==
    /\ At(r, "reconcile")
    /\ IF Document(r).status \in {"ACCEPTED", "REJECTED"}
         THEN SettleVerdict(r, VerdictEnabled(r), Proceed(r, "review"))
         ELSE Proceed(r, "review") /\ UNCHANGED fiscal_corrections
    /\ UNCHANGED <<docVars, otherVars, mhVars>>

\* finalizeFiscalCorrectionReview.
Review(r) ==
    LET x       == Correction(r)
        enabled == finalizeReviewEnabled(x, run[r].correction, run[r].token, Document(r), Event(r))
    IN
    /\ At(r, "review")
    /\ SetCorrection(r, IF enabled THEN Finalized(x, "REVIEW_REQUIRED") ELSE x)
    /\ IF enabled \/ IsTerminal(x) THEN Ack(r) ELSE Throw(r)
    /\ UNCHANGED <<docVars, otherVars, mhVars>>

\* The head of the catch block: finalizeFiscalCorrectionProcessingError reads
\* the correction again and reconciles it.
Error(r) ==
    LET x       == Correction(r)
        handled == IF run[r].error = "PRE_DISPATCH"
                     THEN IF x.dispatched THEN "clear" ELSE "fail"
                     ELSE IF x.dispatched THEN "review" ELSE "fail"
        goOn    == /\ run' = [run EXCEPT ![r].pc = handled, ![r].seen = x.token]
                   /\ UNCHANGED messages
    IN
    /\ At(r, "error")
    /\ IF Document(r).status \in {"ACCEPTED", "REJECTED"}
         THEN SettleVerdict(r, VerdictEnabled(r), goOn)
         ELSE goOn /\ UNCHANGED fiscal_corrections
    /\ UNCHANGED <<docVars, otherVars, mhVars>>

Clear(r) ==
    LET x == Correction(r) IN
    /\ At(r, "clear")
    /\ SetCorrection(r, [x EXCEPT !.dispatched =
                           @ /\ ~clearFiscalCorrectionMhDispatchStartedEnabled(x, run[r].token)])
    /\ Proceed(r, "fail")
    /\ UNCHANGED <<docVars, otherVars, mhVars>>

RaiseError(r, error) ==
    run' = [run EXCEPT ![r].pc = "error", ![r].error = error]

\* Where an exception of Fail goes: a rejected document's run may still be inside
\* the try block, when it was FailInvalid.
FailThrows(r) ==
    IF run[r].error = "NONE" /\ ~OfPayment(r) THEN RaiseError(r, "OTHER") ELSE Goto(r, "handler")

\* finalizeFiscalCorrectionFailure: with the processing claim of the row that
\* was read, which after Error need not be the run's own.
Fail(r) ==
    LET x       == Correction(r)
        payment == finalizeWompiFailureEnabled(x, run[r].correction, run[r].seen, Event(r))
        after   == IF payment \/ finalizeFailedEnabled(x, run[r].seen) THEN Finalized(x, "FAILED")
                                                                      ELSE x
    IN
    /\ At(r, "fail")
    /\ SetCorrection(r, after)
    /\ IF payment
         THEN \E error \in {"OTHER", "RECEPTOR"} : SetEvent(r, FailedEvent(Event(r), error))
         ELSE UNCHANGED wompi_events
    /\ SetDocument(r, ReleaseFailed(after, run[r].correction, run[r].seen, Document(r)))
    /\ IF IsTerminal(after) THEN Ack(r) ELSE FailThrows(r) /\ UNCHANGED messages
    /\ UNCHANGED <<codigo_generacion, document_sequences, mhVars>>

-----------------------------------------------------------------------------
(* processRejectedDocumentFiscalCorrection.                                *)

\* FailInvalid: the source or the candidate does not validate, which fails the
\* correction under the claim the run has verified.
FailInvalid(r) == run' = [run EXCEPT ![r].pc = "fail", ![r].seen = run[r].token]

ReadDocument(r) ==
    LET row == Document(r) IN
    /\ At(r, "read")
    /\ CASE ~Held(row, run[r].correction) -> RaiseError(r, "OTHER")
         [] Held(row, run[r].correction)  ->
              \E directGenerationAllowed \in BOOLEAN :
                 IF Direct(run[r].document) /\ ~directGenerationAllowed
                   THEN Goto(r, "retire")
                   ELSE CASE row.status = "SIGNED"   -> Goto(r, "transmit")
                          [] row.status = "REJECTED" -> Goto(r, "reserve") \/ FailInvalid(r)
                          [] OTHER                   -> RaiseError(r, "OTHER")
    /\ UNCHANGED <<tableVars, messages, mhVars>>

Retire(r) ==
    LET x       == Correction(r)
        enabled == retireDirectEnabled(x, run[r].correction, run[r].token, Document(r), Codigo(r))
    IN
    /\ At(r, "retire")
    /\ IF enabled
         THEN /\ SetCorrection(r, Finalized(x, "FAILED"))
              /\ SetDocument(r, RestoredDocument(x, Document(r)))
              /\ codigo_generacion' = [codigo_generacion EXCEPT
                                         ![run[r].document] = x.source.codigo]
         ELSE UNCHANGED <<fiscal_corrections, docVars>>
    /\ IF enabled \/ IsTerminal(x) THEN Ack(r) ELSE Throw(r)
    /\ UNCHANGED <<otherVars, mhVars>>

\* reserveFiscalCorrectionDocumentIdentifiers.
Reserve(r) ==
    LET x     == Correction(r)
        c     == run[r].correction
        first == reserveIdentifiersEnabled(x, c, run[r].token, Document(r))
        again == reuseIdentifiersEnabled(x, c, run[r].token, Document(r))
    IN
    /\ At(r, "reserve")
    /\ SetCorrection(r, CASE first            -> [Renewed(x) EXCEPT !.number = document_sequences]
                          [] ~first /\ again  -> Renewed(x)
                          [] ~first /\ ~again -> x)
    /\ document_sequences' = IF first THEN document_sequences + 1 ELSE document_sequences
    /\ IF first \/ again THEN Proceed(r, "renew") ELSE Throw(r)
    /\ UNCHANGED <<docVars, wompi_events, mhVars>>

RenewLease(r) ==
    LET x       == Correction(r)
        enabled == renewFiscalCorrectionDocumentSigningLeaseEnabled(
                       x, run[r].correction, run[r].token, Document(r))
    IN
    /\ At(r, "renew")
    /\ SetCorrection(r, IF enabled THEN Renewed(x) ELSE x)
    /\ IF enabled THEN Proceed(r, "prepare") ELSE Throw(r)
    /\ UNCHANGED <<docVars, otherVars, mhVars>>

\* signMhDocument and the rewrite of the row.
Prepare(r) ==
    LET enabled == prepareClaimedFiscalCorrectionDocumentEnabled(
                       Correction(r), run[r].correction, run[r].token, Document(r))
    IN
    /\ At(r, "prepare")
    /\ IF enabled
         THEN /\ SetDocument(r, prepareClaimedFiscalCorrectionDocument(Document(r)))
              /\ codigo_generacion' = [codigo_generacion EXCEPT
                                         ![run[r].document] = run[r].correction]
         ELSE UNCHANGED docVars
    /\ IF enabled THEN Proceed(r, "transmit") ELSE Throw(r)
    /\ UNCHANGED <<fiscal_corrections, otherVars, mhVars>>

-----------------------------------------------------------------------------
(* The payment's half of processFiscalCorrection, up to finishWompiFiscal- *)
(* Correction, which has the steps of finishDocumentFiscalCorrection.      *)

ReadPayment(r) ==
    /\ At(r, "event")
    /\ CASE Event(r).attempt # run[r].correction -> Goto(r, "handler")
         [] Event(r).attempt = run[r].correction /\ Event(r).document ->
              Goto(r, IF isTerminalDteStatus(Document(r).status) THEN "transmit" ELSE "hold")
         [] Event(r).attempt = run[r].correction /\ ~Event(r).document ->
              Goto(r, "claim_event") \/ FailInvalid(r)
    /\ UNCHANGED <<tableVars, messages, mhVars>>

\* claimWompiFiscalCorrectionDocument.  The CDE found may be one that the payment's
\* own delivery made of the wrong data: FISCAL_CORRECTION_EXISTING_DOCUMENT_MISMATCH.
HoldPaymentDocument(r) ==
    LET enabled == claimWompiFiscalCorrectionDocumentEnabled(
                       Correction(r), run[r].correction, run[r].token, Document(r), Event(r))
    IN
    /\ At(r, "hold")
    /\ IF enabled
         THEN SetDocument(r, HoldDocument(Document(r), run[r].correction))
              /\ (Goto(r, "transmit") \/ FailInvalid(r))
         ELSE UNCHANGED dte_documents /\ Goto(r, "handler")
    /\ UNCHANGED <<fiscal_corrections, codigo_generacion, otherVars, messages, mhVars>>

\* Refused: the CDE of whoever was faster is taken, if there is one by now.
ClaimEvent(r) ==
    LET enabled == claimCorrectedWompiEventIssuanceEnabled(
                       Correction(r), run[r].correction, run[r].token, Event(r))
    IN
    /\ At(r, "claim_event")
    /\ IF enabled
         THEN /\ SetEvent(r, W!claimWompiEventIssuance(Event(r), run[r].correction))
              /\ Goto(r, "create")
         ELSE /\ UNCHANGED wompi_events
              /\ Goto(r, IF Event(r).document THEN "transmit" ELSE "handler")
    /\ UNCHANGED <<fiscal_corrections, docVars, document_sequences, messages, mhVars>>

\* reserveWompiDocumentIdentifiers and createClaimedWompiDteDocument, in one
\* step: the reservation is kept by the event, whoever goes on.
CreateDocument(r, claim, created, refused) ==
    LET first    == W!reserveWompiDocumentIdentifiersEnabled(Event(r))
        reserved == IF first THEN [Event(r) EXCEPT !.number = document_sequences] ELSE Event(r)
        enabled  == W!createClaimedWompiDteDocumentEnabled(reserved, claim)
    IN
    /\ SetEvent(r, IF enabled THEN W!createClaimedWompiDteDocument(reserved) ELSE reserved)
    /\ document_sequences' = IF first THEN document_sequences + 1 ELSE document_sequences
    /\ IF enabled THEN created ELSE refused
    /\ UNCHANGED <<fiscal_corrections, docVars, messages, mhVars>>

Release(r, error) == run' = [run EXCEPT ![r].pc = "release", ![r].error = error]

CreateCorrected(r) ==
    /\ At(r, "create")
    /\ CreateDocument(r, run[r].correction, Goto(r, "transmit"),
                      IF Event(r).document THEN Goto(r, "transmit") ELSE Release(r, "BUSY"))

\* releaseWompiEventIssuance in the catch block.
ReleaseEvent(r) ==
    /\ At(r, "release")
    /\ SetEvent(r, IF W!releaseWompiEventIssuanceEnabled(Event(r), run[r].correction)
                     THEN W!releaseWompiEventIssuance(Event(r))
                     ELSE Event(r))
    /\ Goto(r, IF run[r].error = "BUSY" THEN "handler" ELSE "error")
    /\ UNCHANGED <<fiscal_corrections, docVars, document_sequences, messages, mhVars>>

-----------------------------------------------------------------------------
(* processDteDocument, called with the correction's context.               *)

Transmit(r) ==
    LET row  == Document(r)
        held == Held(row, run[r].correction)
    IN
    /\ At(r, "transmit")
    /\ run' = [run EXCEPT
         ![r].codigo = Codigo(r),
         ![r].expected = row.status,
         ![r].pc =
            IF isTerminalDteStatus(row.status)
              THEN IF row.status = "ACCEPTED" /\ ~row.finalized_at THEN "fin" ELSE "finish"
              ELSE CASE held /\ (~row.signed_jws \/ row.status # "SIGNED") -> "sign_held"
                     [] held /\ row.signed_jws /\ row.status = "SIGNED"    -> "mark"
                     [] ~held /\ ~row.signed_jws                           -> "sign"
                     [] ~held /\ row.signed_jws                            -> "claim_doc"]
    /\ UNCHANGED <<tableVars, messages, mhVars>>

\* updateDocumentSigned, or updateClaimedDocumentSigned for a row that c holds; a
\* held row that was signed before is only put back to SIGNED.
Sign(r) ==
    LET row     == Document(r)
        enabled == \/ At(r, "sign") /\ updateDocumentSignedEnabled(row, run[r].expected)
                   \/ /\ At(r, "sign_held")
                      /\ row.status = run[r].expected
                      /\ Held(row, run[r].correction)
        after   == IF At(r, "sign") THEN "claim_doc" ELSE "mark"
    IN
    /\ run[r].pc \in {"sign", "sign_held"}
    /\ SetDocument(r, IF enabled THEN updateDocumentSigned(row) ELSE row)
    /\ run' = [run EXCEPT ![r].pc = IF enabled THEN after ELSE "finish",
                          ![r].expected = IF enabled THEN "SIGNED" ELSE @]
    /\ UNCHANGED <<fiscal_corrections, codigo_generacion, otherVars, messages, mhVars>>

\* The catch block after an exception of Sign, with no claim of its own.
Unsigned(r) ==
    LET row == Document(r) IN
    /\ At(r, "unsigned")
    /\ SetDocument(r, IF markDocumentFailedEnabled(row, NULL) THEN markDocumentFailed(row) ELSE row)
    /\ IF row.status = "ACCEPTED" \/ markDocumentFailedEnabled(row, NULL)
         THEN RaiseError(r, "OTHER")
         ELSE Goto(r, "finish")
    /\ UNCHANGED <<fiscal_corrections, codigo_generacion, otherVars, messages, mhVars>>

\* The claim was gone when the row was read: it is taken as for any document,
\* with the correction's own claim id.
ClaimDocument(r) ==
    LET blocked == TransmissionBlocked(fiscal_corrections, run[r].document, run[r].correction)
        enabled == /\ claimDocumentTransmissionEnabled(Document(r), run[r].expected, blocked)
                   /\ Codigo(r) = run[r].codigo
    IN
    /\ At(r, "claim_doc")
    /\ IF enabled
         THEN SetDocument(r, claimDocumentTransmission(Document(r), run[r].correction))
         ELSE UNCHANGED dte_documents
    /\ Goto(r, IF enabled THEN "mark" ELSE "finish")
    /\ UNCHANGED <<fiscal_corrections, codigo_generacion, otherVars, messages, mhVars>>

MarkDispatch(r) ==
    LET x       == Correction(r)
        enabled == /\ markFiscalCorrectionMhDispatchStartedEnabled(
                          x, run[r].correction, run[r].token, Document(r), Event(r))
                   /\ Codigo(r) = run[r].codigo
    IN
    /\ At(r, "mark")
    /\ SetCorrection(r, [x EXCEPT !.dispatched = @ \/ enabled])
    /\ IF enabled THEN Proceed(r, "dispatch") ELSE Throw(r)
    /\ UNCHANGED <<docVars, otherVars, mhVars>>

\* getPreDispatchToken throws.  preserveSignedOnPreDispatchFailure keeps the
\* signed row of a rejected document; that of a payment fails.
TokenFails(r) ==
    /\ At(r, "dispatch")
    /\ IF OfPayment(r) THEN Goto(r, "undo") ELSE RaiseError(r, "PRE_DISPATCH")
    /\ UNCHANGED <<tableVars, messages, mhVars>>

\* markDocumentFailed, or else releaseDocumentFiscalOperation.
Undo(r) ==
    LET row == Document(r)
        c   == run[r].correction
    IN
    /\ At(r, "undo")
    /\ SetDocument(r, CASE markDocumentFailedEnabled(row, c) -> markDocumentFailed(row)
                        [] ~markDocumentFailedEnabled(row, c)
                             /\ releaseDocumentFiscalOperationEnabled(row, c) ->
                               releaseDocumentFiscalOperation(row)
                        [] OTHER -> row)
    /\ RaiseError(r, "PRE_DISPATCH")
    /\ UNCHANGED <<fiscal_corrections, codigo_generacion, otherVars, messages, mhVars>>

\* fetchMh on /recepciondte, of a consumer or of another transmitter.
Submit(r, pc) ==
    LET k == run[r].codigo IN
    /\ posts' = [posts EXCEPT ![k] = @ + 1]
    /\ recepcion' = [recepcion EXCEPT ![k] = IF @ = "NONE" THEN "IN_FLIGHT" ELSE @]
    /\ Goto(r, pc)
    /\ UNCHANGED <<tableVars, messages, annulled>>

Post(r) == At(r, "dispatch") /\ Submit(r, "reply")

ReadReply(r, pc, ambiguous) ==
    /\ \E reply \in MhReply :
         /\ MhCanReply(recepcion[run[r].codigo], reply)
         /\ IF parseMhResponse(reply) = "AMBIGUOUS"
              THEN ambiguous
              ELSE run' = [run EXCEPT ![r].pc = pc, ![r].verdict = parseMhResponse(reply)]
    /\ UNCHANGED <<tableVars, messages, mhVars>>

\* A bug for the mutation test: an outcome nobody knows is taken for a failure
\* before dispatch.
ReplyLostIsUnsent(r) == At(r, "reply") /\ ReadReply(r, "complete", RaiseError(r, "PRE_DISPATCH"))

Reply(r) == At(r, "reply") /\ ReadReply(r, "complete", Goto(r, "catch"))

Complete(r) ==
    LET enabled  == completeDocumentTransmissionEnabled(Document(r), run[r].correction)
        accepted == run[r].verdict = "ACCEPTED"
    IN
    /\ At(r, "complete")
    /\ IF enabled
         THEN SetDocument(r, completeDocumentTransmission(Document(r), accepted))
         ELSE UNCHANGED dte_documents
    /\ Goto(r, IF enabled /\ accepted THEN "fin" ELSE "finish")
    /\ UNCHANGED <<fiscal_corrections, codigo_generacion, otherVars, messages, mhVars>>

\* finalizeAcceptedDocument (PostAccept): done, or left to another finalizer.
FinalizeAccepted(r) ==
    /\ At(r, "fin")
    /\ \E done \in BOOLEAN :
         SetDocument(r, IF done /\ claimDocumentPostAcceptFinalizationEnabled(Document(r), FALSE)
                          THEN markDocumentPostAcceptFinalized(Document(r))
                          ELSE Document(r))
    /\ Goto(r, "finish")
    /\ UNCHANGED <<fiscal_corrections, codigo_generacion, otherVars, messages, mhVars>>

\* The catch block of processDteDocument: every error is thrown on, except one
\* after the verdict was recorded (a Wompi document throws that one too).
Catch(r) ==
    LET row == Document(r) IN
    /\ At(r, "catch")
    /\ IF /\ isTerminalDteStatus(row.status)
          /\ row.status = "ACCEPTED" => row.finalized_at /\ Direct(run[r].document)
         THEN Goto(r, "finish")
         ELSE RaiseError(r, "OTHER")
    /\ UNCHANGED <<tableVars, messages, mhVars>>

\* finishDocumentFiscalCorrection.
Finish(r) ==
    /\ At(r, "finish")
    /\ IF Document(r).status \in {"ACCEPTED", "REJECTED"}
         THEN SettleVerdict(r, VerdictEnabled(r), RaiseError(r, "OTHER") /\ UNCHANGED messages)
         ELSE Throw(r) /\ UNCHANGED fiscal_corrections
    /\ UNCHANGED <<docVars, otherVars, mhVars>>

\* A statement, the signature or the index throws where the run stands: before
\* it, or after the one before it whose answer was lost.  ("create" releases the
\* claim unless the answer to the claim was lost.)
StatementThrows(r) ==
    /\ \/ run[r].pc \in RebuildPCs \cup {"create"} /\ RaiseError(r, "OTHER")
       \/ run[r].pc = "create" /\ Release(r, "OTHER")
       \/ run[r].pc \in {"sign", "sign_held"} /\ Goto(r, "unsigned")
       \/ run[r].pc \in DispatchPCs /\ Goto(r, "catch")
       \/ run[r].pc = "fail" /\ FailThrows(r)
       \/ run[r].pc \in SettlePCs \ {"fail"} /\ Goto(r, "handler")
    /\ UNCHANGED <<tableVars, messages, mhVars>>

-----------------------------------------------------------------------------
(* recoverStalledFiscalCorrections.                                        *)

StartRecovery(r, c) ==
    LET x == fiscal_corrections[c] IN
    /\ RecoverableBeforeDispatch(x)
    /\ \E t \in Tokens : FreshToken(t)
    /\ Begin(r, [IdleRun EXCEPT !.pc = "recover", !.correction = c, !.document = x.document,
                   !.seen = x.token])
    /\ UNCHANGED <<tableVars, messages, mhVars>>

\* The processing claim is rotated; the new owner's message is sent next.
Recover(r) ==
    LET x == Correction(r) IN
    /\ At(r, "recover")
    /\ IF recoverFiscalCorrectionProcessingClaimEnabled(
              x, run[r].correction, run[r].seen, Document(r), Event(r))
         THEN \E t \in Tokens :
                /\ FreshToken(t)
                /\ SetCorrection(r, recoverFiscalCorrectionProcessingClaim(x, t))
                /\ run' = [run EXCEPT ![r].pc = "send", ![r].token = t]
         ELSE UNCHANGED fiscal_corrections /\ Return(r)
    /\ UNCHANGED <<docVars, otherVars, messages, mhVars>>

\* A dispatched correction whose document has its verdict.
RecoverVerdict(c) ==
    LET x == fiscal_corrections[c] IN
    /\ x.document # NULL
    /\ RecoverableVerdict(x, c, dte_documents[x.document], codigo_generacion[x.document],
                          wompi_events[x.document])
    /\ fiscal_corrections' = [fiscal_corrections EXCEPT ![c] =
                                Finalized(x, dte_documents[x.document].status)]
    /\ UNCHANGED <<docVars, otherVars, messages, run, mhVars>>

-----------------------------------------------------------------------------
(* The document's other handlers, as far as they meet a correction.        *)

\* A transmitter has read a signed document.
StartTransmit(r, d) ==
    /\ "TRANSMIT" \in Others
    /\ dte_documents[d].status \in {"SIGNED", "FAILED"}
    /\ dte_documents[d].signed_jws
    /\ Begin(r, [IdleRun EXCEPT !.pc = "tx_claim", !.document = d,
                   !.codigo = codigo_generacion[d], !.expected = dte_documents[d].status])
    /\ UNCHANGED <<tableVars, messages, mhVars>>

TxClaim(r) ==
    LET blocked == TransmissionBlocked(fiscal_corrections, run[r].document, NULL)
        enabled == /\ claimDocumentTransmissionEnabled(Document(r), run[r].expected, blocked)
                   /\ Codigo(r) = run[r].codigo
    IN
    /\ At(r, "tx_claim")
    /\ IF enabled
         THEN SetDocument(r, claimDocumentTransmission(Document(r), r)) /\ Goto(r, "tx_dispatch")
         ELSE UNCHANGED dte_documents /\ Return(r)
    /\ UNCHANGED <<fiscal_corrections, codigo_generacion, otherVars, messages, mhVars>>

\* The queue defers, the sweep and the manual retry release.
TxTokenFails(r) ==
    /\ At(r, "tx_dispatch")
    /\ \/ /\ markDocumentTransmissionDeferredEnabled(Document(r), r)
          /\ SetDocument(r, markDocumentTransmissionDeferred(Document(r)))
       \/ /\ releaseDocumentFiscalOperationEnabled(Document(r), r)
          /\ SetDocument(r, releaseDocumentFiscalOperation(Document(r)))
    /\ Return(r)
    /\ UNCHANGED <<fiscal_corrections, codigo_generacion, otherVars, messages, mhVars>>

TxPost(r) == At(r, "tx_dispatch") /\ Submit(r, "tx_reply")

TxReply(r) == At(r, "tx_reply") /\ ReadReply(r, "tx_complete", Return(r))

TxComplete(r) ==
    /\ At(r, "tx_complete")
    /\ IF completeDocumentTransmissionEnabled(Document(r), r)
         THEN SetDocument(r, completeDocumentTransmission(Document(r), run[r].verdict = "ACCEPTED"))
         ELSE UNCHANGED dte_documents
    /\ Return(r)
    /\ UNCHANGED <<fiscal_corrections, codigo_generacion, otherVars, messages, mhVars>>

\* processDteDocument of the payment's own delivery signs its CDE, or fails to.
SignElsewhere(d) ==
    LET row == dte_documents[d] IN
    /\ wompi_events[d].document
    /\ row.status \in {"PENDING", "FAILED"} /\ ~row.signed_jws
    /\ dte_documents' = [dte_documents EXCEPT ![d] = updateDocumentSigned(row)]
       \/ dte_documents' = [dte_documents EXCEPT ![d] = markDocumentFailed(row)]
    /\ updateDocumentSignedEnabled(row, row.status)
    /\ UNCHANGED <<fiscal_corrections, codigo_generacion, otherVars, messages, run, mhVars>>

\* retryPendingPostAcceptFinalizations.
FinalizeByCron(d) ==
    /\ claimDocumentPostAcceptFinalizationEnabled(dte_documents[d], FALSE)
    /\ dte_documents' = [dte_documents EXCEPT ![d] = markDocumentPostAcceptFinalized(@)]
    /\ UNCHANGED <<fiscal_corrections, codigo_generacion, otherVars, messages, run, mhVars>>

\* The invalidation claims the document and attaches its signed event.
StartInvalidate(r, d) ==
    /\ "INVALIDATE" \in Others
    /\ claimDocumentInvalidationEnabled(dte_documents[d])
    /\ Begin(r, [IdleRun EXCEPT !.pc = "inv_post", !.document = d,
                   !.codigo = codigo_generacion[d]])
    /\ dte_documents' = [dte_documents EXCEPT ![d] =
          createAndAttachDocumentInvalidationEvent(claimDocumentInvalidation(@, r), r)]
    /\ UNCHANGED <<fiscal_corrections, codigo_generacion, otherVars, messages, mhVars>>

\* MH grants the annulment, refuses it, or its answer is lost.
InvPost(r) ==
    /\ At(r, "inv_post")
    /\ \E granted, answered \in BOOLEAN :
         /\ annulled' = IF granted THEN annulled \cup {run[r].codigo} ELSE annulled
         /\ run' = [run EXCEPT ![r] =
              IF answered
                THEN [@ EXCEPT !.pc = "inv_complete",
                               !.verdict = IF granted THEN "ACCEPTED" ELSE "REJECTED"]
                ELSE IdleRun]
    /\ UNCHANGED <<tableVars, messages, posts, recepcion>>

InvComplete(r) ==
    /\ At(r, "inv_complete")
    /\ SetDocument(r, IF completeDocumentInvalidationEnabled(Document(r), r, r, "SIGNED")
                        THEN completeDocumentInvalidation(Document(r), run[r].verdict = "ACCEPTED")
                        ELSE Document(r))
    /\ Return(r)
    /\ UNCHANGED <<fiscal_corrections, codigo_generacion, otherVars, messages, mhVars>>

-----------------------------------------------------------------------------
(* The payment's own handlers, as far as they meet a correction.  What a   *)
(* delivery reads before its next write is read with the write before it.  *)

\* markWompiIssuanceProcessing; whatever has been processed is left alone.
StartIssue(r, d) ==
    LET event == wompi_events[d] IN
    /\ "ISSUE" \in Others
    /\ event.received
    /\ W!markWompiIssuanceProcessingEnabled(event, OwnAttempt)
    /\ IF event.processed THEN UNCHANGED run
                          ELSE Begin(r, [IdleRun EXCEPT !.pc = "iss_check", !.document = d])
    /\ wompi_events' = [wompi_events EXCEPT ![d] = W!markWompiIssuanceProcessing(event)]
    /\ UNCHANGED <<fiscal_corrections, docVars, document_sequences, messages, mhVars>>

\* The payment's data cannot make a CDE, which is recorded; or the event is
\* claimed, perhaps over a claim of more than 15 minutes ago.
IssueCheck(r) ==
    LET event   == Event(r)
        enabled == W!claimWompiEventIssuanceEnabled([event EXCEPT !.claim_stale = TRUE])
    IN
    /\ At(r, "iss_check")
    /\ \/ /\ \E error \in {"OTHER", "RECEPTOR"} :
              SetEvent(r, IF W!recordWompiIssuanceFailureEnabled(event, OwnAttempt)
                            THEN W!recordWompiIssuanceFailure(event, error)
                            ELSE event)
          /\ Goto(r, "iss_park")
       \/ /\ SetEvent(r, IF enabled THEN W!claimWompiEventIssuance(event, r) ELSE event)
          /\ IF enabled THEN Goto(r, "iss_create") ELSE Return(r)
    /\ UNCHANGED <<fiscal_corrections, docVars, document_sequences, messages, mhVars>>

IssuePark(r) ==
    /\ At(r, "iss_park")
    /\ SetEvent(r, W!markWompiEventProcessed(Event(r)))
    /\ Return(r)
    /\ UNCHANGED <<fiscal_corrections, docVars, document_sequences, messages, mhVars>>

IssueCreate(r) ==
    /\ At(r, "iss_create")
    /\ CreateDocument(r, r, Return(r), Goto(r, "iss_release"))

IssueRelease(r) ==
    /\ At(r, "iss_release")
    /\ SetEvent(r, IF W!releaseWompiEventIssuanceEnabled(Event(r), r)
                     THEN W!releaseWompiEventIssuance(Event(r))
                     ELSE Event(r))
    /\ Return(r)
    /\ UNCHANGED <<fiscal_corrections, docVars, document_sequences, messages, mhVars>>

\* handleWompiIssuanceRetry: it leaves a failure about the receptor to a correction.
RetryIssuance(d) ==
    LET event == wompi_events[d] IN
    /\ event.error # "RECEPTOR"
    /\ W!claimWompiIssuanceRetryEnabled(event)
    /\ ~RetryExcluded({fiscal_corrections[c] : c \in {c \in Corrections :
                                                fiscal_corrections[c].document = d}})
    /\ wompi_events' = [wompi_events EXCEPT ![d] = W!claimWompiIssuanceRetry(event, OwnAttempt)]
    /\ UNCHANGED <<fiscal_corrections, docVars, document_sequences, messages, run, mhVars>>

\* sweepStalledWompiEvents, after an hour without an attempt.
SweepIssuance(d) ==
    LET event == [wompi_events[d] EXCEPT !.stalled = TRUE]
        mine  == {c \in Corrections : fiscal_corrections[c].document = d}
    IN
    /\ W!listStalledApprovedWompiEvents(event)
    /\ W!claimStalledWompiIssuanceAttemptEnabled(event, event.attempt)
    /\ ~SweepExcluded(event, [c \in mine |-> fiscal_corrections[c]])
    /\ wompi_events' = [wompi_events EXCEPT ![d] = W!QueueAttempt(event, OwnAttempt)]
    /\ UNCHANGED <<fiscal_corrections, docVars, document_sequences, messages, run, mhVars>>

-----------------------------------------------------------------------------
(* The environment.                                                        *)

MhDecides(k, verdict) ==
    /\ recepcion[k] = "IN_FLIGHT"
    /\ recepcion' = [recepcion EXCEPT ![k] = verdict]
    /\ UNCHANGED <<tableVars, messages, run, posts, annulled>>

\* Fifteen minutes pass without a write of the correction.
GoesStale(c) ==
    /\ fiscal_corrections[c].status \in OpenStatus
    /\ ~fiscal_corrections[c].stale
    /\ fiscal_corrections' = [fiscal_corrections EXCEPT ![c].stale = TRUE]
    /\ UNCHANGED <<docVars, otherVars, messages, run, mhVars>>

\* Neither the owner of a correction nor its message in the queue is on its way.
Unattended(c) ==
    LET x == fiscal_corrections[c] IN
    /\ messages[x.token].at # "queue"
    /\ \A r \in Runs : run[r].token # x.token

\* The Worker is evicted: a delivery fails, any other handler just ends, as it
\* does when ISSUANCE_QUEUE.send throws.
Crash(r) ==
    /\ ~At(r, "idle")
    /\ IF run[r].pc \in ConsumerPCs THEN Redeliver(r) ELSE Return(r) /\ UNCHANGED messages
    /\ UNCHANGED <<tableVars, mhVars>>

-----------------------------------------------------------------------------

Step(r) ==
    \/ Send(r) \/ DeadLoad(r) \/ Handler(r)
    \/ Load(r) \/ ClaimProcessing(r) \/ Reload(r) \/ Reconcile(r) \/ Review(r)
    \/ Error(r) \/ Clear(r) \/ Fail(r)
    \/ ReadDocument(r) \/ Retire(r) \/ Reserve(r) \/ RenewLease(r) \/ Prepare(r)
    \/ ReadPayment(r) \/ HoldPaymentDocument(r) \/ ClaimEvent(r) \/ CreateCorrected(r)
    \/ ReleaseEvent(r)
    \/ Transmit(r) \/ Sign(r) \/ Unsigned(r) \/ ClaimDocument(r) \/ MarkDispatch(r)
    \/ TokenFails(r) \/ Undo(r) \/ Post(r) \/ Reply(r) \/ Complete(r)
    \/ FinalizeAccepted(r) \/ Catch(r) \/ Finish(r)
    \/ Recover(r)
    \/ TxClaim(r) \/ TxTokenFails(r) \/ TxPost(r) \/ TxReply(r) \/ TxComplete(r)
    \/ InvPost(r) \/ InvComplete(r)
    \/ IssueCheck(r) \/ IssuePark(r) \/ IssueCreate(r) \/ IssueRelease(r)

\* Nothing fails, and nobody is slower than the sweep allows.
CalmNext ==
    \/ \E r \in Runs : Step(r)
    \/ \E r \in Runs, c \in Corrections, d \in Docs, t \in Tokens :
         RequestCorrection(r, c, d, t) \/ RequestPayment(r, c, d, t)
    \/ \E r \in Runs, t \in Tokens : Deliver(r, t) \/ DeadDeliver(r, t)
    \/ \E r \in Runs, c \in Corrections : StartRecovery(r, c)
    \/ \E r \in Runs, d \in Docs : StartTransmit(r, d) \/ StartInvalidate(r, d) \/ StartIssue(r, d)
    \/ \E c \in Corrections : RecoverVerdict(c) \/ (GoesStale(c) /\ Unattended(c))
    \/ \E k \in NewCodes, verdict \in {"PROCESADO", "RECHAZADO"} : MhDecides(k, verdict)
    \/ \E d \in Docs : \/ FinalizeByCron(d) \/ SignElsewhere(d)
                      \/ RetryIssuance(d) \/ SweepIssuance(d)

Next ==
    \/ CalmNext
    \/ \E r \in Runs : StatementThrows(r) \/ Crash(r)
    \/ \E c \in Corrections : GoesStale(c)

Spec == Init /\ [][Next]_vars

-----------------------------------------------------------------------------
(* Properties.                                                             *)

\* The tables, the queue, MH and the handlers' locals have their types.
TypeOK ==
    /\ fiscal_corrections \in [Corrections -> CorrectionRow]
    /\ dte_documents \in [Docs -> DteRow]
    /\ codigo_generacion \in [Docs -> Codes]
    /\ wompi_events \in [Docs -> W!WompiRow]
    /\ document_sequences \in Nat
    /\ messages \in [Tokens -> Message]
    /\ run \in [Runs -> RunState]
    /\ posts \in [NewCodes -> Nat]
    /\ recepcion \in [NewCodes -> MhTruth]
    /\ annulled \subseteq Codes

\* The document that carried codigo k: a payment's CDE has its name.
DocumentOf(k) == IF k \in Docs THEN k ELSE fiscal_corrections[k].document

\* The codigo c brings to MH: its own, or that of the payment's reservation.
CodigoOf(c) ==
    IF fiscal_corrections[c].kind = "WOMPI_EVENT" THEN fiscal_corrections[c].document ELSE c

\* A codigo that a correction or a payment reserved is sent to MH once at most,
\* and is never lost sight of then: until MH's verdict is recorded its row keeps
\* that codigo under a claim nobody else can take, and the row is only rewritten
\* for another codigo once MH has rejected it.  Redelivery, overlapping deliveries,
\* rotation of the processing claim, a crash around the POST, the payment's own
\* deliveries and a later retry of the signed document do not change that
\* (dispatch marker, fiscal claim, created_document_id).
SubmittedIsAccountedFor ==
    \A k \in NewCodes :
       /\ posts[k] <= 1
       /\ posts[k] > 0 =>
          LET row == dte_documents[DocumentOf(k)] IN
          IF codigo_generacion[DocumentOf(k)] = k
            THEN \/ isTerminalDteStatus(row.status)
                 \/ row.status = "SIGNED" /\ row.op_claim # NULL
            ELSE recepcion[k] = "RECHAZADO"

\* A correction is settled with MH's verdict on the codigo that it has reserved,
\* never with the verdict on the version it replaces, and it fails only while
\* nothing was sent under that codigo.  (The row it leaves behind, signed, may be
\* sent later as any other.)
VerdictIsOfThisCorrection ==
    [][\A c \in Corrections :
         LET was == fiscal_corrections[c].status
             is  == fiscal_corrections'[c].status
             k   == CodigoOf(c)
         IN  was # is => /\ is = "ACCEPTED" => recepcion'[k] = "PROCESADO"
                         /\ is = "REJECTED" => recepcion'[k] = "RECHAZADO"
                         /\ is = "FAILED"   => posts'[k] = 0]_vars

\* Work that never reached MH stays recoverable: as long as a correction is
\* open before its dispatch, it holds its target the way the sweep demands.
OpenHoldsTarget ==
    \A c \in Corrections :
       LET x == fiscal_corrections[c] IN
       x.status \in OpenStatus /\ ~x.dispatched =>
          InReach(x, c, dte_documents[x.document], wompi_events[x.document])

\* A document, with its payment, is in the hands of one correction at a time, also
\* between MH's verdict, which frees the row, and the settlement of the correction;
\* one that has not been dispatched holds its target the way the sweep demands.
OneCorrectionAtATime ==
    /\ OpenHoldsTarget
    /\ \A c, o \in Corrections :
       /\ c # o
       /\ fiscal_corrections[c].document = fiscal_corrections[o].document
       /\ fiscal_corrections[c].status \in OpenStatus
       => ~Blocks(fiscal_corrections[o])

\* What became of codigo k in the Worker's tables: its row, or the snapshot a
\* later correction has taken of it.
LedgerOf(k) ==
    IF \E d \in Docs : codigo_generacion[d] = k
      THEN LET status == dte_documents[DocumentOf(k)].status IN
           CASE status = "ACCEPTED"    -> "PROCESADO"
             [] status = "REJECTED"    -> "RECHAZADO"
             [] status = "INVALIDATED" -> "ANULADO"
             [] OTHER                  -> "OPEN"
      ELSE IF \E o \in Corrections : fiscal_corrections[o].source.codigo = k THEN "RECHAZADO"
                                                                             ELSE "OPEN"

\* Every codigo a correction or a payment brings into the world keeps the promise
\* of LegalSubmission, also after its row was rewritten by the next correction.
Legal == INSTANCE LegalSubmission WITH
    Docs      <- NewCodes,
    submitted <- {k \in NewCodes : posts[k] > 0},
    mh        <- [k \in NewCodes |-> IF recepcion[k] = "IN_FLIGHT" THEN "NONE" ELSE recepcion[k]],
    annulled  <- annulled,
    ledger    <- [k \in NewCodes |-> LedgerOf(k)]

LegalSpec == Legal!Spec

-----------------------------------------------------------------------------
(* Liveness.                                                               *)

\* The queue and the cron keep working, a started handler goes on, time
\* passes, and crashes, D1 errors and overlong deliveries are transient.  Strong
\* fairness: Runs bounds the handlers of the model, not those of the platform,
\* so neither the queue nor the cron waits for ever for a free one.
Fairness ==
    /\ \A r \in Runs : WF_vars(Step(r))
    /\ \A t \in Tokens : SF_vars(\E r \in Runs : Deliver(r, t) \/ DeadDeliver(r, t))
    /\ \A c \in Corrections : /\ SF_vars(\E r \in Runs : StartRecovery(r, c))
                              /\ WF_vars(RecoverVerdict(c))
                              /\ WF_vars(GoesStale(c) /\ Unattended(c))
    /\ <>[][CalmNext]_vars

FairSpec == Spec /\ Fairness

\* A dispatched correction whose message was dropped, or whose accepted
\* document was annulled (or is being annulled) before the verdict was noted; or
\* one whose payment is left under an issuance claim, or was parked by a late
\* delivery of its own.
AwaitsOperator(c) ==
    LET x == fiscal_corrections[c] IN
    \/ /\ x.dispatched
       /\ \/ messages[x.token] = NoMessage
          \/ dte_documents[x.document].status = "INVALIDATED"
          \/ dte_documents[x.document].op_kind = "INVALIDATION"
    \/ /\ x.kind = "WOMPI_EVENT"
       /\ ~wompi_events[x.document].document
       /\ \/ wompi_events[x.document].processed
          \/ /\ wompi_events[x.document].claim # NULL
             /\ \A r \in Runs : run[r].pc \notin {"create", "release", "iss_create", "iss_release"}

\* A requested correction is eventually settled, although its message may never
\* have been sent and its consumers may crash.
RequestIsSettled ==
    \A c \in Corrections :
       fiscal_corrections[c].status \in OpenStatus ~>
          IsTerminal(fiscal_corrections[c]) \/ AwaitsOperator(c)

=============================================================================
