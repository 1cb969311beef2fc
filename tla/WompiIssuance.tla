--------------------------- MODULE WompiIssuance ---------------------------
(***************************************************************************)
(* From an approved Wompi payment to its CDE:                              *)
(*                                                                         *)
(*   ingest    webhook or reconciliation: store the event, queue it        *)
(*   consumer  handleQueueBatch -> processWompiEvent                       *)
(*   dead      handleDeadLetterBatch, for messages out of retries          *)
(*   sweep     cron -> sweepStalledWompiEvents                             *)
(*   retry     POST /api/wompi-events/:id/retry, by an operator            *)
(*                                                                         *)
(* interleaved statement by statement on wompi_events.  A message is named *)
(* by the attempt id it carries; the queue delivers it at least once,      *)
(* perhaps to two runs at a time, and moves it to the dead-letter queue    *)
(* after MaxRetries failed deliveries.  A run stands for the claim id it   *)
(* mints and may crash between any two statements, which fails the         *)
(* delivery.  What happens to the CDE afterwards is FiscalOperations.      *)
(***************************************************************************)
EXTENDS WompiEvents, Sequences

CONSTANTS Events,      \* approved payments
          MaxRetries,  \* max_retries of the queue
          MaxRequeues  \* MAX_WOMPI_EVENT_REQUEUES

ASSUME NullIsNoName == NULL \notin Attempts \cup Claims \cup Events

ASSUME LimitsAreNumbers == MaxRetries \in Nat /\ MaxRequeues \in Nat

Runs == Claims

ConsumerPCs == {"mark", "load", "correlate", "quarantine", "quarantine_fail",
                "invalid_fail", "invalid_processed", "claim", "reserve", "create",
                "release_return", "release_throw", "process", "catch"}

DeadPCs == {"dead_mark", "dead_audit"}

OtherPCs == {"ingest_claim", "sweep_count", "sweep_claim", "sweep_audit", "retry_claim", "send"}

\* current is currentWompiAttempt; next what follows a send.
RunState == [pc      : {"idle"} \cup ConsumerPCs \cup DeadPCs \cup OtherPCs,
             event   : Events \cup {NULL},
             attempt : Attempts \cup {NULL},
             current : BOOLEAN,
             next    : {"idle", "sweep_audit"}]

IdleRun == [pc |-> "idle", event |-> NULL, attempt |-> NULL, current |-> FALSE, next |-> "idle"]

Message == [at : {"none", "queue", "dlq"}, event : Events \cup {NULL}, tries : 0..MaxRetries]

NoMessage == [at |-> "none", event |-> NULL, tries |-> 0]

VARIABLES
    wompi_events,        \* the table
    document_sequences,  \* next_value of the one environment and prefix
    documents,           \* CDEs in order: the event and the control number of each
    messages,            \* ISSUANCE_QUEUE and its dead-letter queue
    requeues,            \* WOMPI_EVENT_REQUEUED audits since the requeue epoch
    audits,              \* other audits of the events' current attempts
    observed,            \* retry requests whose snapshot still matches the row
    run                  \* handlers in flight

vars == <<wompi_events, document_sequences, documents, messages, requeues, audits,
          observed, run>>

Init ==
    /\ wompi_events = [e \in Events |-> NoEvent]
    /\ document_sequences = 1
    /\ documents = <<>>
    /\ messages = [a \in Attempts |-> NoMessage]
    /\ requeues = [e \in Events |-> 0]
    /\ audits = {}
    /\ observed = {}
    /\ run = [r \in Runs |-> IdleRun]

-----------------------------------------------------------------------------
(* How a step moves its run, its row and its message.                      *)

At(r, pc) == run[r].pc = pc

Row(r) == wompi_events[run[r].event]

Goto(r, pc) == run' = [run EXCEPT ![r].pc = pc]

Return(r) == run' = [run EXCEPT ![r] = IdleRun]

\* A statement on the row of r.  claimWompiIssuanceRetry compares the columns
\* its request has read, issuance_last_attempt_at among them: a row that was
\* touched no longer matches.
Write(r, row, touches) ==
    LET old  == Row(r)
        same == ~touches /\ row.status = old.status /\ row.processed = old.processed
    IN
    /\ wompi_events' = [wompi_events EXCEPT ![run[r].event] = row]
    /\ observed' = IF same THEN observed
                   ELSE {o \in observed : run[o].event # run[r].event}

\* The delivery ends: acknowledged, or to be tried again.
Ack(r) == messages' = [messages EXCEPT ![run[r].attempt] = NoMessage]

Redeliver(r) ==
    LET m == messages[run[r].attempt] IN
    messages' = [messages EXCEPT ![run[r].attempt] =
                   CASE m.at # "queue"                          -> m
                     [] m.at = "queue" /\ m.tries < MaxRetries  -> [m EXCEPT !.tries = @ + 1]
                     [] m.at = "queue" /\ m.tries >= MaxRetries -> [m EXCEPT !.at = "dlq", !.tries = 0]]

\* newId for an attempt: it occurs nowhere.
FreshAttempt(a) ==
    /\ messages[a] = NoMessage
    /\ \A e \in Events : wompi_events[e].attempt # a
    /\ \A r \in Runs : run[r].attempt # a

\* The bound on attempts: no handler that may need one starts without one left.
AttemptLeft == \E a \in Attempts : FreshAttempt(a)

\* The statements that give the event of r a new attempt, to be sent next.
NewAttempt(r, row, a, next) ==
    /\ FreshAttempt(a)
    /\ Write(r, row, TRUE)
    /\ audits' = {x \in audits : x[2] # run[r].event}
    /\ run' = [run EXCEPT ![r].pc = "send", ![r].attempt = a, ![r].next = next]

Begin(r, e, pc, attempt) ==
    /\ run[r] = IdleRun
    /\ \A f \in Events : wompi_events[f].claim # r
    /\ run' = [run EXCEPT ![r] =
                 [IdleRun EXCEPT !.pc = pc, !.event = e, !.attempt = attempt]]

tableVars == <<wompi_events, document_sequences, documents, requeues, audits, observed>>

-----------------------------------------------------------------------------
(* ingestTrustedWompiPayload.                                              *)

\* A replay of a stored event goes on as well: it repairs an event that was
\* never queued.  The statement that follows ignores one that was.
Ingest(r, e) ==
    /\ AttemptLeft
    /\ claimInitialWompiIssuanceAttemptEnabled(wompi_events[e])
    /\ Begin(r, e, "ingest_claim", NULL)
    /\ wompi_events' = [wompi_events EXCEPT ![e] = insertWompiEvent(@)]
    /\ UNCHANGED <<document_sequences, documents, messages, requeues, audits, observed>>

IngestClaim(r) ==
    /\ At(r, "ingest_claim")
    /\ IF claimInitialWompiIssuanceAttemptEnabled(Row(r))
         THEN \E a \in Attempts : NewAttempt(r, QueueAttempt(Row(r), a), a, "idle")
         ELSE Return(r) /\ UNCHANGED <<wompi_events, observed, audits>>
    /\ UNCHANGED <<document_sequences, documents, messages, requeues>>

\* ISSUANCE_QUEUE.send.
Send(r) ==
    /\ At(r, "send")
    /\ messages' = [messages EXCEPT ![run[r].attempt] =
                      [NoMessage EXCEPT !.at = "queue", !.event = run[r].event]]
    /\ IF run[r].next = "idle" THEN Return(r) ELSE Goto(r, run[r].next)
    /\ UNCHANGED tableVars

-----------------------------------------------------------------------------
(* handleQueueBatch and processWompiEvent.                                 *)

Deliver(r, a) ==
    /\ messages[a].at = "queue"
    /\ Begin(r, messages[a].event, "mark", a)
    /\ UNCHANGED <<tableVars, messages>>

\* An attempt that is no longer current only resumes an existing CDE.
MarkProcessing(r) ==
    LET enabled == markWompiIssuanceProcessingEnabled(Row(r), run[r].attempt) IN
    /\ At(r, "mark")
    /\ \/ /\ enabled
          /\ Write(r, markWompiIssuanceProcessing(Row(r)), TRUE)
          /\ run' = [run EXCEPT ![r].pc = "load", ![r].current = TRUE]
          /\ UNCHANGED messages
       \/ /\ ~enabled
          /\ IF Row(r).document THEN Goto(r, "process") /\ UNCHANGED messages
                                ELSE Return(r) /\ Ack(r)
          /\ UNCHANGED <<wompi_events, observed>>
    /\ UNCHANGED <<document_sequences, documents, requeues, audits>>

Load(r) ==
    /\ At(r, "load")
    /\ CASE Row(r).document ->
              /\ Write(r, markWompiDocumentCreated(Row(r)), FALSE)
              /\ Goto(r, "process")
              /\ UNCHANGED messages
         [] ~Row(r).document /\ Row(r).processed ->
              Return(r) /\ Ack(r) /\ UNCHANGED <<wompi_events, observed>>
         [] ~Row(r).document /\ ~Row(r).processed ->
              Goto(r, "correlate") /\ UNCHANGED <<wompi_events, observed, messages>>
    /\ UNCHANGED <<document_sequences, documents, requeues, audits>>

\* correlateIntent and the checks before a number is reserved: the payment is
\* ready, does not bind to its intent, or its donor data cannot make a CDE.
Correlate(r) ==
    /\ At(r, "correlate")
    /\ \E pc \in {"claim", "quarantine", "invalid_fail"} : Goto(r, pc)
    /\ UNCHANGED <<tableVars, messages>>

\* quarantineWompiIntentBinding: the audit and processed_at in one batch.
Quarantine(r) ==
    /\ At(r, "quarantine")
    /\ Write(r, markWompiEventProcessed(Row(r)), FALSE)
    /\ Goto(r, "quarantine_fail")
    /\ UNCHANGED <<document_sequences, documents, messages, requeues, audits>>

\* recordWompiIssuanceFailure of a quarantined or an invalid payment.
RecordFailure(r) ==
    LET enabled == recordWompiIssuanceFailureEnabled(Row(r), run[r].attempt) IN
    /\ run[r].pc \in {"quarantine_fail", "invalid_fail"}
    /\ \E error \in IF At(r, "invalid_fail") THEN {"OTHER", "RECEPTOR"} ELSE {"OTHER"} :
         IF enabled THEN Write(r, recordWompiIssuanceFailure(Row(r), error), TRUE)
                    ELSE UNCHANGED <<wompi_events, observed>>
    /\ IF At(r, "invalid_fail")
         THEN Goto(r, "invalid_processed") /\ UNCHANGED messages
         ELSE Return(r) /\ Ack(r)
    /\ UNCHANGED <<document_sequences, documents, requeues, audits>>

InvalidProcessed(r) ==
    /\ At(r, "invalid_processed")
    /\ Write(r, markWompiEventProcessed(Row(r)), FALSE)
    /\ Return(r)
    /\ Ack(r)
    /\ UNCHANGED <<document_sequences, documents, requeues, audits>>

\* A refused claim ends the delivery: another run is at work, or was.
Claim(r) ==
    /\ At(r, "claim")
    /\ IF claimWompiEventIssuanceEnabled(Row(r))
         THEN /\ Write(r, claimWompiEventIssuance(Row(r), r), FALSE)
              /\ Goto(r, "reserve")
              /\ UNCHANGED messages
         ELSE Return(r) /\ Ack(r) /\ UNCHANGED <<wompi_events, observed>>
    /\ UNCHANGED <<document_sequences, documents, requeues, audits>>

\* reserveWompiDocumentIdentifiers with its trigger on document_sequences.
Reserve(r) ==
    LET enabled == reserveWompiDocumentIdentifiersEnabled(Row(r)) IN
    /\ At(r, "reserve")
    /\ IF enabled THEN Write(r, [Row(r) EXCEPT !.number = document_sequences], FALSE)
                  ELSE UNCHANGED <<wompi_events, observed>>
    /\ document_sequences' = IF enabled THEN document_sequences + 1 ELSE document_sequences
    /\ Goto(r, "create")
    /\ UNCHANGED <<documents, messages, requeues, audits>>

\* The two statements of createClaimedWompiDteDocument are one batch.
Create(r) ==
    /\ At(r, "create")
    /\ IF createClaimedWompiDteDocumentEnabled(Row(r), r)
         THEN /\ Write(r, createClaimedWompiDteDocument(Row(r)), FALSE)
              /\ documents' = Append(documents, [event |-> run[r].event, number |-> Row(r).number])
              /\ Goto(r, "process")
         ELSE /\ Goto(r, "release_return")
              /\ UNCHANGED <<wompi_events, observed, documents>>
    /\ UNCHANGED <<document_sequences, messages, requeues, audits>>

Release(r) ==
    /\ run[r].pc \in {"release_return", "release_throw"}
    /\ IF releaseWompiEventIssuanceEnabled(Row(r), r)
         THEN Write(r, releaseWompiEventIssuance(Row(r)), FALSE)
         ELSE UNCHANGED <<wompi_events, observed>>
    /\ IF At(r, "release_throw") THEN Goto(r, "catch") /\ UNCHANGED messages
                                 ELSE Return(r) /\ Ack(r)
    /\ UNCHANGED <<document_sequences, documents, requeues, audits>>

\* processDteDocument returns; when it throws, StatementThrows.
Process(r) ==
    /\ At(r, "process")
    /\ Return(r)
    /\ Ack(r)
    /\ UNCHANGED tableVars

\* A D1 error or an exception of the handler's own code: the statement did not
\* take place, or the one before it did and its answer was lost.  Only after the
\* claim's answer does the handler release the claim.
StatementThrows(r) ==
    /\ run[r].pc \in ConsumerPCs \ {"catch"}
    /\ \/ run[r].pc \notin {"create", "release_return"} /\ Goto(r, "catch")
       \/ run[r].pc \in {"reserve", "create", "release_return"} /\ Goto(r, "release_throw")
    /\ UNCHANGED <<tableVars, messages>>

\* The catch block of handleQueueBatch.  A failure that cannot be recorded is
\* retried only for the sake of an existing CDE.
Catch(r) ==
    LET recorded == run[r].current
                    /\ recordWompiIssuanceFailureEnabled(Row(r), run[r].attempt)
    IN
    /\ At(r, "catch")
    /\ IF recorded
         THEN \E error \in {"OTHER", "RECEPTOR"} :
                 Write(r, recordWompiIssuanceFailure(Row(r), error), TRUE)
         ELSE UNCHANGED <<wompi_events, observed>>
    /\ IF recorded \/ Row(r).document THEN Redeliver(r) ELSE Ack(r)
    /\ Return(r)
    /\ UNCHANGED <<document_sequences, documents, requeues, audits>>

-----------------------------------------------------------------------------
(* handleDeadLetterBatch.                                                  *)

DeadDeliver(r, a) ==
    /\ messages[a].at = "dlq"
    /\ Begin(r, messages[a].event, "dead_mark", a)
    /\ UNCHANGED <<tableVars, messages>>

DeadMark(r) ==
    /\ At(r, "dead_mark")
    /\ IF markWompiIssuanceDeadLetteredEnabled(Row(r), run[r].attempt)
         THEN /\ Write(r, markWompiIssuanceDeadLettered(Row(r)), FALSE)
              /\ Goto(r, "dead_audit")
              /\ UNCHANGED messages
         ELSE Return(r) /\ Ack(r) /\ UNCHANGED <<wompi_events, observed>>
    /\ UNCHANGED <<document_sequences, documents, requeues, audits>>

\* createWompiAttemptAudit, then the alert.
DeadAudit(r) ==
    /\ At(r, "dead_audit")
    /\ audits' = IF createWompiAttemptAuditEnabled(Row(r), run[r].attempt)
                   THEN audits \cup {<<"ISSUANCE_DEAD_LETTERED", run[r].event>>}
                   ELSE audits
    /\ Return(r)
    /\ Ack(r)
    /\ UNCHANGED <<wompi_events, document_sequences, documents, requeues, observed>>

-----------------------------------------------------------------------------
(* sweepStalledWompiEvents and the operator's retry.                       *)

StartSweep(r, e) ==
    /\ AttemptLeft
    /\ listStalledApprovedWompiEvents(wompi_events[e])
    /\ Begin(r, e, "sweep_count", wompi_events[e].attempt)
    /\ UNCHANGED <<tableVars, messages>>

\* Out of requeues the event is left to an operator.
SweepCount(r) ==
    LET exhausted == requeues[run[r].event] >= MaxRequeues IN
    /\ At(r, "sweep_count")
    /\ audits' = IF exhausted THEN audits \cup {<<"WOMPI_EVENT_STALLED", run[r].event>>}
                              ELSE audits
    /\ IF exhausted THEN Return(r) ELSE Goto(r, "sweep_claim")
    /\ UNCHANGED <<wompi_events, document_sequences, documents, messages, requeues, observed>>

SweepClaim(r) ==
    /\ At(r, "sweep_claim")
    /\ IF claimStalledWompiIssuanceAttemptEnabled(Row(r), run[r].attempt)
         THEN \E a \in Attempts : NewAttempt(r, QueueAttempt(Row(r), a), a, "sweep_audit")
         ELSE Return(r) /\ UNCHANGED <<wompi_events, observed, audits>>
    /\ UNCHANGED <<document_sequences, documents, messages, requeues>>

SweepAudit(r) ==
    /\ At(r, "sweep_audit")
    /\ requeues' = IF createWompiAttemptAuditEnabled(Row(r), run[r].attempt)
                     THEN [requeues EXCEPT ![run[r].event] = @ + 1]
                     ELSE requeues
    /\ Return(r)
    /\ UNCHANGED <<wompi_events, document_sequences, documents, messages, audits, observed>>

\* getWompiIssuanceRetrySnapshotById; a receptor failure needs a correction.
StartRetry(r, e) ==
    /\ AttemptLeft
    /\ wompi_events[e].received
    /\ wompi_events[e].error # "RECEPTOR"
    /\ claimWompiIssuanceRetryEnabled(wompi_events[e])
    /\ Begin(r, e, "retry_claim", NULL)
    /\ observed' = observed \cup {r}
    /\ UNCHANGED <<wompi_events, document_sequences, documents, messages, requeues, audits>>

\* claimWompiIssuanceRetry also opens a new requeue epoch.
RetryClaim(r) ==
    LET enabled == r \in observed /\ claimWompiIssuanceRetryEnabled(Row(r)) IN
    /\ At(r, "retry_claim")
    /\ IF enabled
         THEN /\ \E a \in Attempts :
                    NewAttempt(r, claimWompiIssuanceRetry(Row(r), a), a, "idle")
              /\ requeues' = [requeues EXCEPT ![run[r].event] = 0]
         ELSE /\ Return(r)
              /\ observed' = observed \ {r}
              /\ UNCHANGED <<wompi_events, requeues, audits>>
    /\ UNCHANGED <<document_sequences, documents, messages>>

-----------------------------------------------------------------------------
(* The environment.                                                        *)

\* A cron or queue invocation is stopped after 15 minutes: none of those that
\* could have touched the row is still there an hour later.
HourPasses(e) ==
    /\ wompi_events[e].received
    /\ ~wompi_events[e].stalled
    /\ \A r \in Runs : run[r].event = e => run[r].pc \in {"ingest_claim", "retry_claim", "send"}
                                          /\ run[r].next = "idle"
    /\ wompi_events' = [wompi_events EXCEPT ![e].stalled = TRUE]
    /\ UNCHANGED <<document_sequences, documents, messages, requeues, audits, observed, run>>

ClaimExpires(e) ==
    /\ wompi_events[e].claim # NULL
    /\ ~wompi_events[e].claim_stale
    /\ wompi_events' = [wompi_events EXCEPT ![e].claim_stale = TRUE]
    /\ UNCHANGED <<document_sequences, documents, messages, requeues, audits, observed, run>>

\* The isolate is evicted; the queue delivers the message again.
Crash(r) ==
    /\ ~At(r, "idle")
    /\ Return(r)
    /\ IF run[r].pc \in ConsumerPCs THEN Redeliver(r) ELSE UNCHANGED messages
    /\ observed' = observed \ {r}
    /\ UNCHANGED <<wompi_events, document_sequences, documents, requeues, audits>>

-----------------------------------------------------------------------------

Consume(r) ==
    \/ MarkProcessing(r) \/ Load(r) \/ Correlate(r) \/ Quarantine(r) \/ RecordFailure(r)
    \/ InvalidProcessed(r) \/ Claim(r) \/ Reserve(r) \/ Create(r) \/ Release(r)
    \/ Process(r) \/ Catch(r) \/ DeadMark(r) \/ DeadAudit(r)

Step(r) ==
    \/ Consume(r)
    \/ IngestClaim(r) \/ Send(r) \/ SweepCount(r) \/ SweepClaim(r) \/ SweepAudit(r)
    \/ RetryClaim(r)

\* Nothing fails: no Worker is evicted and no statement throws.
CalmNext ==
    \/ \E r \in Runs : Step(r)
    \/ \E r \in Runs, e \in Events : Ingest(r, e) \/ StartSweep(r, e) \/ StartRetry(r, e)
    \/ \E r \in Runs, a \in Attempts : Deliver(r, a) \/ DeadDeliver(r, a)
    \/ \E e \in Events : HourPasses(e) \/ ClaimExpires(e)

Next ==
    \/ CalmNext
    \/ \E r \in Runs : StatementThrows(r) \/ Crash(r)

Spec == Init /\ [][Next]_vars

-----------------------------------------------------------------------------
(* Properties.                                                             *)

\* The tables, the queue and the handlers' locals have their types.
TypeOK ==
    /\ wompi_events \in [Events -> WompiRow]
    /\ document_sequences \in Nat
    /\ documents \in Seq([event : Events, number : Nat])
    /\ messages \in [Attempts -> Message]
    /\ requeues \in [Events -> Nat]
    /\ audits \subseteq {"ISSUANCE_DEAD_LETTERED", "WOMPI_EVENT_STALLED"} \X Events
    /\ observed \subseteq Runs
    /\ run \in [Runs -> RunState]

\* One payment makes one CDE at most, and the event knows of it: whatever is
\* redelivered, swept, retried or taken over from a stale claim.
OneCdePerPayment ==
    /\ \A i, j \in DOMAIN documents : documents[i].event = documents[j].event => i = j
    /\ \A e \in Events :
          wompi_events[e].document <=> \E i \in DOMAIN documents : documents[i].event = e

\* Control numbers are used without gaps or repetition: every number given out
\* belongs to exactly one payment, however often its issuance is tried, and
\* the CDE carries that number.
ControlNumbersHaveNoGap ==
    /\ \A n \in 1..(document_sequences - 1) :
          \E e \in Events : {f \in Events : wompi_events[f].number = n} = {e}
    /\ \A i \in DOMAIN documents :
          documents[i].number = wompi_events[documents[i].event].number

\* A parked event (processed without a CDE) has no attempt in the queue that
\* could still make its CDE: only an operator's retry starts it again.
ParkedStaysParked ==
    [][\A e \in Events :
         /\ wompi_events[e].processed
         /\ ~wompi_events[e].document
         => /\ ~wompi_events'[e].document
            /\ ~wompi_events'[e].processed => requeues'[e] = 0]_vars

-----------------------------------------------------------------------------
(* Liveness.                                                               *)

\* The queue and the cron keep working, a started handler goes on unless it
\* crashes, and crashes and D1 errors are transient.
Fairness ==
    /\ \A r \in Runs : WF_vars(Step(r))
    /\ WF_vars(\E r \in Runs, a \in Attempts : Deliver(r, a) \/ DeadDeliver(r, a))
    /\ WF_vars(\E r \in Runs, e \in Events : StartSweep(r, e))
    /\ \A e \in Events : WF_vars(HourPasses(e))
    /\ <>[][CalmNext]_vars

FairSpec == Spec /\ Fairness

\* An approved payment that was stored gets its CDE, or ends where an operator
\* hears of it: a recorded failure, the dead-letter queue, or the sweep's alert.
PaymentIsSettled ==
    \A e \in Events :
       wompi_events[e].received ~>
          \/ wompi_events[e].document
          \/ wompi_events[e].processed
          \/ wompi_events[e].status = "FAILED"
          \/ <<"WOMPI_EVENT_STALLED", e>> \in audits

=============================================================================
