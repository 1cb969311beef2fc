-------------------------- MODULE PostAcceptProofs --------------------------
(***************************************************************************)
(* Proofs about PostAccept, for any number of overlapping finalizers and   *)
(* resends, any number of requests and addresses.                          *)
(***************************************************************************)
EXTENDS PostAccept, TLAPS

-----------------------------------------------------------------------------
(* The inductive invariant.                                                *)

\* The row of the delivery r works on is still r's.
Holds(r) ==
    /\ deliveries[run[r].key].status = "PENDING"
    /\ deliveries[run[r].key].token = r

AuditPCs == {"audit_intent", "audit_accepted", "audit_finalized", "mark_finalized"}

\* Where a finalizer has read the row, and where it is done with the intent.
PastReload == {"intent", "complete_intent", "email", "claim_email", "mark_document"}
                \cup AuditPCs \cup SendPCs

PastIntent == {"email", "claim_email", "mark_document"} \cup AuditPCs \cup SendPCs

\* What a finalizer and a resend are, and what a finalizer has read.
Reads(r) ==
    /\ run[r].pc \in FinalizerPCs => run[r].key = NULL
    /\ run[r].pc \in ResendPCs => run[r].key # NULL
    /\ run[r].pc # "idle" /\ run[r].key # NULL => document.finalized_at
    /\ run[r].pc \in PastReload /\ run[r].key = NULL /\ Owner(r) => run[r].to = donor_email
    /\ run[r].pc \in {"claim_email", "mark_document"} \cup SendPCs /\ run[r].key = NULL =>
         run[r].to # NULL

\* What a finalizer has completed and audited.
Completes(r) ==
    /\ run[r].pc \in PastIntent /\ run[r].key = NULL => intent \in {"NONE", "COMPLETED"}
    /\ run[r].pc \in AuditPCs \ {"audit_intent"} /\ intent = "COMPLETED" =>
         "DONATION_INTENT_COMPLETED" \in audits
    /\ run[r].pc \in {"audit_finalized", "mark_finalized"} => "DTE_ACCEPTED" \in audits
    /\ run[r].pc = "mark_finalized" => "DTE_ACCEPTED_FINALIZED" \in audits

\* What a run knows of the mail it is about to send, or has sent.
Sends(r) ==
    LET k == run[r].key IN
    /\ run[r].pc \in {"prepare", "mark_document", "mark_delivery"} /\ Holds(r) =>
         ~deliveries[k].dispatched /\ outbox[k] = 0
    /\ run[r].pc \in {"mark_delivery", "send"} /\ k = NULL => run[r].started
    /\ run[r].pc = "mark_delivery" /\ k = NULL /\ Holds(r) => Owner(r) /\ email_started
    /\ run[r].pc = "send" => Holds(r) /\ deliveries[k].dispatched /\ outbox[k] = 0
    /\ run[r].pc = "record" /\ Holds(r) /\ run[r].outcome \in {"NOT_SENT", "NOT_DELIVERED"} =>
         outbox[k] = 0
    /\ run[r].pc # "idle" /\ k = NULL /\ Holds(r) /\ deliveries[k].dispatched =>
         run[r].started /\ run[r].to # NULL /\ run[r].pc \in {"send", "record", "catch"}

\* A mail the provider took is recorded as sent or stays unresolved.
Mailed(k) ==
    /\ outbox[k] <= 1
    /\ outbox[k] > 0 => /\ deliveries[k].dispatched
                        /\ (deliveries[k].status = "SENT" \/ Unresolved(deliveries[k]))
    /\ k # NULL /\ deliveries[k].status # "NONE" => document.finalized_at

\* The unique index idx_email_deliveries_unresolved_receipt_claim.
OneUnresolved ==
    \A k, m \in Keys : Unresolved(deliveries[k]) /\ Unresolved(deliveries[m]) => k = m

\* While the automatic receipt is in flight its claim cannot be taken over.
Locked ==
    deliveries[NULL].status = "PENDING" /\ deliveries[NULL].dispatched =>
      /\ deliveries[NULL].token # NULL /\ Owner(deliveries[NULL].token)
      /\ email_started /\ donor_email # NULL

Receipts ==
    /\ \A r \in Runs : Reads(r) /\ Completes(r) /\ Sends(r)
    /\ \A k \in Keys : Mailed(k)
    /\ OneUnresolved
    /\ Locked
    /\ FinalizedIsComplete

-----------------------------------------------------------------------------
(* Type correctness.                                                       *)

PCs == {"idle"} \cup FinalizerPCs \cup ResendPCs \cup SendPCs

\* A run's locals keep their type when it moves on or returns.
LEMMA RunTypes ==
    ASSUME TypeOK, NEW r \in Runs
    PROVE  /\ Return(r) => run' \in [Runs -> RunState]
           /\ \A pc \in PCs : Goto(r, pc) => run' \in [Runs -> RunState]
           /\ Throws(r) => run' \in [Runs -> RunState]
<1>1. IdleRun \in RunState
  BY DEF IdleRun, RunState, Keys, Outcomes
<1>2. Return(r) => run' \in [Runs -> RunState]
  BY <1>1 DEF TypeOK, Return
<1>3. ASSUME NEW pc \in PCs, Goto(r, pc) PROVE run' \in [Runs -> RunState]
  <2>1. [run[r] EXCEPT !.pc = pc] \in RunState
    BY DEF TypeOK, RunState, PCs
  <2> QED BY <1>3, <2>1 DEF TypeOK, Goto
<1>4. "catch" \in PCs
  BY DEF PCs, FinalizerPCs
<1> QED BY <1>2, <1>3, <1>4 DEF Throws

\* The three audits and where each leads.
LEMMA AuditSteps ==
    /\ DOMAIN AuditAt = {"audit_intent", "audit_accepted", "audit_finalized"}
    /\ \A pc \in DOMAIN AuditAt : AuditAt[pc] \in Audits /\ AfterAudit[pc] \in AuditPCs
    /\ AuditAt["audit_intent"] = "DONATION_INTENT_COMPLETED"
    /\ AuditAt["audit_accepted"] = "DTE_ACCEPTED"
    /\ AuditAt["audit_finalized"] = "DTE_ACCEPTED_FINALIZED"
    /\ AfterAudit["audit_intent"] = "audit_accepted"
    /\ AfterAudit["audit_accepted"] = "audit_finalized"
    /\ AfterAudit["audit_finalized"] = "mark_finalized"
  BY DEF AuditAt, AfterAudit, Audits, AuditPCs

\* The statements of email_deliveries write rows of the table.
LEMMA DeliveryTypes ==
    ASSUME NEW row \in DeliveryRow, NEW r \in Runs, NEW to \in Emails \cup {NULL},
           NEW outcome \in Outcomes \cup {"SENT"}
    PROVE  /\ Claimed(r, to) \in DeliveryRow
           /\ markEmailDeliveryDispatchStarted(row) \in DeliveryRow
           /\ finalizeEmailDeliveryClaim(row, outcome) \in DeliveryRow
           /\ [row EXCEPT !.stale = TRUE] \in DeliveryRow
  BY DEF DeliveryRow, Claimed, NoDelivery, markEmailDeliveryDispatchStarted,
         finalizeEmailDeliveryClaim, Runs, Outcomes

\* The statements of the finalization write rows of dte_documents.
LEMMA DocumentTypes ==
    ASSUME TypeOK, NEW r \in Runs
    PROVE  /\ claimDocumentPostAcceptFinalization(document, r) \in DteRow
           /\ markDocumentPostAcceptFinalized(document) \in DteRow
           /\ releaseDocumentPostAcceptFinalization(document) \in DteRow
  BY DEF TypeOK, DteRow, claimDocumentPostAcceptFinalization, markDocumentPostAcceptFinalized,
         releaseDocumentPostAcceptFinalization, Runs

\* Every step keeps the types.
LEMMA TypeStep == TypeOK /\ [Next]_vars => TypeOK'
<1> SUFFICES ASSUME TypeOK, [Next]_vars PROVE TypeOK'
  OBVIOUS
<1> USE DEF rowVars, mailVars
<1>t. /\ document \in DteRow /\ donor_email \in Emails \cup {NULL}
      /\ email_started \in BOOLEAN /\ fin_stale \in BOOLEAN
      /\ intent \in {"NONE", "OPEN", "SWITCHED", "COMPLETED"}
      /\ audits \subseteq Audits /\ deliveries \in [Keys -> DeliveryRow]
      /\ latest \subseteq Keys /\ run \in [Runs -> RunState] /\ outbox \in [Keys -> Nat]
  BY DEF TypeOK
<1>a. ASSUME NEW r \in Runs, FinClaim(r) \/ Step(r) \/ Crash(r) PROVE TypeOK'
  <2>p. FinalizerPCs \cup ResendPCs \cup SendPCs \cup AuditPCs \subseteq PCs
    BY DEF PCs, FinalizerPCs, AuditPCs
  <2>r. run[r] \in RunState /\ run[r].key \in Keys /\ run[r].to \in Emails \cup {NULL}
        /\ run[r].outcome \in Outcomes \cup {"SENT"}
    BY <1>t DEF RunState
  <2>d. deliveries[run[r].key] \in DeliveryRow /\ outbox[run[r].key] \in Nat
    BY <1>t, <2>r
  <2> USE <1>t, <2>p, <2>r, <2>d, RunTypes
  <2>1. CASE FinClaim(r)
    <3>1. [IdleRun EXCEPT !.pc = "reload"] \in RunState
      BY DEF IdleRun, RunState, FinalizerPCs, Keys, Outcomes
    <3> QED BY <2>1, <3>1, DocumentTypes DEF FinClaim, TypeOK
  <2>2. CASE Reload(r)
    <3>1. [run[r] EXCEPT !.pc = "intent", !.to = donor_email] \in RunState
      BY DEF RunState, FinalizerPCs
    <3>2. run' \in [Runs -> RunState]
      BY <2>2, <3>1 DEF Reload, FinalizerPCs
    <3> QED BY <2>2, <3>2 DEF Reload, TypeOK
  <2>3. CASE ResolveIntent(r)
    BY <2>3 DEF ResolveIntent, TypeOK, FinalizerPCs
  <2>4. CASE completeIntentForPostAcceptOwner(r)
    BY <2>4 DEF completeIntentForPostAcceptOwner, TypeOK, FinalizerPCs
  <2>5. CASE ReceiptDue(r)
    BY <2>5 DEF ReceiptDue, TypeOK, FinalizerPCs, Audits
  <2>6. CASE ClaimEmail(r)
    <3>1. Claimed(r, run[r].to) \in DeliveryRow
      BY DeliveryTypes
    <3>2. deliveries' \in [Keys -> DeliveryRow] /\ latest' \subseteq Keys
      BY <2>6, <3>1 DEF ClaimEmail, Keys
    <3>3. run' \in [Runs -> RunState]
      <4>1. {"catch", "prepare", "audit_intent"} \subseteq PCs
        BY DEF PCs, FinalizerPCs, SendPCs
      <4> QED BY <2>6, <4>1 DEF ClaimEmail
    <3> QED BY <2>6, <3>2, <3>3 DEF ClaimEmail, TypeOK
  <2>7. CASE MarkDocument(r)
    <3>1. \A returned \in BOOLEAN :
            [run[r] EXCEPT !.started = returned,
                           !.pc = IF returned THEN "mark_delivery" ELSE "catch"] \in RunState
      BY DEF RunState, FinalizerPCs, SendPCs
    <3> QED BY <2>7, <3>1 DEF MarkDocument, TypeOK
  <2>8. CASE EnsureAudit(r)
    BY <2>8, AuditSteps DEF EnsureAudit, TypeOK, FinalizerPCs
  <2>9. CASE MarkFinalized(r)
    BY <2>9, DocumentTypes DEF MarkFinalized, TypeOK, FinalizerPCs
  <2>10. CASE StatementThrows(r) \/ Crash(r)
    BY <2>10 DEF StatementThrows, Crash, TypeOK, FinalizerPCs
  <2>11. CASE Catch(r)
    BY <2>11 DEF Catch, TypeOK, FinalizerPCs
  <2>12. CASE Release(r)
    BY <2>12, DocumentTypes DEF Release, TypeOK, FinalizerPCs
  <2>13. CASE ManualReclaim(r)
    <3>1. Claimed(r, run[r].to) \in DeliveryRow
      BY DeliveryTypes
    <3>2. deliveries' \in [Keys -> DeliveryRow]
      BY <2>13, <3>1 DEF ManualReclaim
    <3>3. run' \in [Runs -> RunState]
      <4>1. {"manual_claim", "prepare"} \subseteq PCs
        BY DEF PCs, ResendPCs, SendPCs
      <4> QED BY <2>13, <4>1 DEF ManualReclaim
    <3> QED BY <2>13, <3>2, <3>3 DEF ManualReclaim, TypeOK
  <2>14. CASE ManualClaim(r)
    BY <2>14, DeliveryTypes DEF ManualClaim, TypeOK, SendPCs
  <2>15. CASE Prepare(r)
    <3>1. [run[r] EXCEPT !.pc = "record", !.outcome = classifyEmailDispatchError("OTHER", FALSE)]
             \in RunState
      BY DEF RunState, SendPCs, classifyEmailDispatchError, Outcomes
    <3> QED BY <2>15, <3>1 DEF Prepare, TypeOK, FinalizerPCs, SendPCs
  <2>16. CASE MarkDelivery(r)
    <3>1. \A returned \in BOOLEAN :
            [run[r] EXCEPT !.pc = IF returned THEN "send" ELSE "record",
                           !.outcome = IF returned THEN "NONE"
                                       ELSE classifyEmailDispatchError("OTHER", FALSE)] \in RunState
      BY DEF RunState, SendPCs, classifyEmailDispatchError, Outcomes
    <3>2. run' \in [Runs -> RunState]
      BY <2>16, <3>1 DEF MarkDelivery
    <3>3. deliveries' \in [Keys -> DeliveryRow]
      <4>1. markEmailDeliveryDispatchStarted(deliveries[run[r].key]) \in DeliveryRow
        BY DEF markEmailDeliveryDispatchStarted, DeliveryRow
      <4> QED BY <2>16, <4>1 DEF MarkDelivery
    <3> QED BY <2>16, <3>2, <3>3 DEF MarkDelivery, TypeOK
  <2>17. CASE Send(r)
    <3>1. \A answer \in {"ACCEPTED"} \cup EmailErrors :
            [run[r] EXCEPT !.pc = "record",
                           !.outcome = IF answer = "ACCEPTED" THEN "SENT"
                                       ELSE classifyEmailDispatchError(answer, TRUE)] \in RunState
      BY DEF RunState, SendPCs, classifyEmailDispatchError, EmailErrors, Outcomes
    <3>2. run' \in [Runs -> RunState]
      BY <2>17, <3>1 DEF Send
    <3>3. outbox' \in [Keys -> Nat]
      BY <2>17 DEF Send
    <3> QED BY <2>17, <3>2, <3>3 DEF Send, TypeOK
  <2>18. CASE Record(r)
    BY <2>18, DeliveryTypes DEF Record, TypeOK, FinalizerPCs
  <2> QED BY <1>a, <2>1, <2>2, <2>3, <2>4, <2>5, <2>6, <2>7, <2>8, <2>9, <2>10, <2>11, <2>12,
             <2>13, <2>14, <2>15, <2>16, <2>17, <2>18 DEF Step
<1>b. ASSUME NEW r \in Runs, NEW q \in Requests, NEW e \in Emails, StartResend(r, q, e)
      PROVE  TypeOK'
  <2>1. [IdleRun EXCEPT !.pc = "manual_reclaim", !.key = q, !.to = e] \in RunState
    BY DEF IdleRun, RunState, ResendPCs, Keys, Outcomes
  <2> QED BY <1>b, <1>t, <2>1 DEF StartResend, TypeOK
<1>c. ASSUME NEW e \in Emails, updateDocumentDonorEmail(e) PROVE TypeOK'
  BY <1>c, <1>t DEF updateDocumentDonorEmail, TypeOK
<1>d. ASSUME NEW k \in Keys, DeliveryLeaseExpires(k) PROVE TypeOK'
  <2>1. deliveries' \in [Keys -> DeliveryRow]
    BY <1>d, <1>t DEF DeliveryLeaseExpires, DeliveryRow
  <2> QED BY <1>d, <1>t, <2>1 DEF DeliveryLeaseExpires, TypeOK
<1>e. CASE switchIntentToN1co \/ FinLeaseExpires \/ UNCHANGED vars
  BY <1>e, <1>t DEF switchIntentToN1co, FinLeaseExpires, vars, TypeOK
<1> QED BY <1>a, <1>b, <1>c, <1>d, <1>e DEF Next

\* The first state has the types.
LEMMA InitTypes == Init => TypeOK
<1> SUFFICES ASSUME Init PROVE TypeOK
  OBVIOUS
<1>1. IdleRun \in RunState /\ NoDelivery \in DeliveryRow
  BY DEF IdleRun, RunState, NoDelivery, DeliveryRow, Keys, Outcomes
<1>2. document \in DteRow
  BY DEF Init, createDteDocument, DteRow, DteStatus
<1> QED BY <1>1, <1>2 DEF Init, TypeOK, Keys

\* The rows, the mails and the handlers' locals keep their types.
THEOREM TypeCorrect == Spec => []TypeOK
  BY InitTypes, TypeStep, PTL DEF Spec

-----------------------------------------------------------------------------
(* What a step leaves alone.                                               *)

\* A claim of the delivery r is to make: the three claiming statements.
ClaimsDelivery(r) ==
    LET k == run[r].key IN
    /\ run[r].pc \in {"claim_email", "manual_reclaim", "manual_claim"}
    /\ deliveries[k].status = "NONE" \/ Reclaimable(deliveries[k])
    /\ ~Fenced(deliveries, k)
    /\ deliveries' = [deliveries EXCEPT ![k] = Claimed(r, run[r].to)]
    /\ Goto(r, "prepare")

\* Which steps of a run write which variables.
LEMMA Frames ==
    ASSUME TypeOK, NEW r \in Runs, Reads(r), FinClaim(r) \/ Step(r) \/ Crash(r)
    PROVE  /\ FinClaim(r) \/ MarkDocument(r) \/ MarkFinalized(r) \/ Release(r) \/ UNCHANGED rowVars
           /\ completeIntentForPostAcceptOwner(r) \/ UNCHANGED intent
           /\ ReceiptDue(r) \/ EnsureAudit(r) \/ UNCHANGED audits
           /\ ClaimsDelivery(r) \/ MarkDelivery(r) \/ Record(r) \/ UNCHANGED deliveries
           /\ Send(r) \/ UNCHANGED outbox
           /\ \A x \in Runs \ {r} : run'[x] = run[x]
           /\ run'[r].pc # run[r].pc
<1> USE DEF rowVars, mailVars, Return, Goto, Throws, At, IdleRun
<1>r. run \in [Runs -> RunState] /\ run[r] \in RunState
  BY DEF TypeOK
<1>1. CASE FinClaim(r)
  BY <1>1, <1>r DEF FinClaim, Fresh, RunState
<1>2. CASE Reload(r) \/ ResolveIntent(r) \/ StatementThrows(r) \/ Catch(r) \/ Crash(r) \/ Prepare(r)
  <2>1. CASE Reload(r)
    BY <2>1, <1>r DEF Reload, RunState
  <2>2. CASE ResolveIntent(r)
    <3>1. PICK pc \in {"email", "complete_intent", "catch"} : Goto(r, pc)
      BY <2>2 DEF ResolveIntent, TypeOK
    <3> QED BY <2>2, <3>1, <1>r DEF ResolveIntent, RunState
  <2>3. CASE StatementThrows(r) \/ Catch(r) \/ Crash(r)
    BY <2>3, <1>r DEF StatementThrows, Catch, Crash, FinalizerPCs, RunState
  <2>4. CASE Prepare(r)
    <3>1. /\ run'[r].pc \in {"mark_document", "mark_delivery", "record"}
          /\ \A x \in Runs \ {r} : run'[x] = run[x]
      <4>1. CASE \E pc \in {"mark_document", "mark_delivery"} : Goto(r, pc)
        BY <4>1, <1>r DEF RunState
      <4>2. CASE run' = [run EXCEPT ![r].pc = "record",
                              ![r].outcome = classifyEmailDispatchError("OTHER", FALSE)]
        BY <4>2, <1>r DEF RunState
      <4> QED BY <2>4, <4>1, <4>2 DEF Prepare
    <3> QED BY <2>4, <3>1 DEF Prepare
  <2> QED BY <1>2, <2>1, <2>2, <2>3, <2>4
<1>3. CASE completeIntentForPostAcceptOwner(r)
  BY <1>3, <1>r DEF completeIntentForPostAcceptOwner, RunState
<1>4. CASE ReceiptDue(r)
  BY <1>4, <1>r DEF ReceiptDue, RunState
<1>5. CASE ClaimEmail(r)
  <2>1. claimEmailDeliveryEnabled(deliveries) =>
          \A k \in Keys : deliveries[k].status = "NONE" \/ Reclaimable(deliveries[k])
    BY DEF claimEmailDeliveryEnabled
  <2>2. run[r].key = NULL
    BY <1>5 DEF ClaimEmail, Reads, FinalizerPCs
  <2> QED BY <1>5, <1>r, <2>1, <2>2 DEF ClaimEmail, ClaimsDelivery, RunState
<1>6. CASE MarkDocument(r)
  <2>1. PICK returned \in BOOLEAN :
           run' = [run EXCEPT ![r].started = returned,
                              ![r].pc = IF returned THEN "mark_delivery" ELSE "catch"]
    BY <1>6 DEF MarkDocument
  <2> QED BY <1>6, <1>r, <2>1 DEF MarkDocument, RunState
<1>7. CASE EnsureAudit(r)
  BY <1>7, <1>r, AuditSteps DEF EnsureAudit, RunState
<1>8. CASE MarkFinalized(r) \/ Release(r)
  BY <1>8, <1>r DEF MarkFinalized, Release, RunState
<1>9. CASE ManualReclaim(r)
  BY <1>9, <1>r DEF ManualReclaim, reclaimManualEmailDeliveryEnabled, ClaimsDelivery, RunState
<1>10. CASE ManualClaim(r)
  BY <1>10, <1>r DEF ManualClaim, claimManualEmailDeliveryEnabled, ClaimsDelivery, RunState
<1>11. CASE MarkDelivery(r)
  <2>1. /\ run'[r].pc \in {"send", "record"}
        /\ \A x \in Runs \ {r} : run'[x] = run[x]
    BY <1>11, <1>r DEF MarkDelivery, RunState
  <2> QED BY <1>11, <2>1 DEF MarkDelivery
<1>12. CASE Send(r)
  <2>1. run'[r].pc = "record" /\ \A x \in Runs \ {r} : run'[x] = run[x]
    BY <1>12, <1>r DEF Send, RunState
  <2> QED BY <1>12, <2>1 DEF Send
<1>13. CASE Record(r)
  BY <1>13, <1>r DEF Record, RunState
<1> QED BY <1>1, <1>2, <1>3, <1>4, <1>5, <1>6, <1>7, <1>8, <1>9, <1>10, <1>11, <1>12, <1>13
        DEF Step

\* The steps that write email_deliveries, and the outbox.
LEMMA DeliverySteps ==
    ASSUME TypeOK, Receipts, [Next]_vars
    PROVE  /\ \/ \E r \in Runs : ClaimsDelivery(r) \/ MarkDelivery(r) \/ Record(r)
              \/ \E k \in Keys : DeliveryLeaseExpires(k)
              \/ UNCHANGED deliveries
           /\ (\E r \in Runs : Send(r)) \/ UNCHANGED outbox
<1> USE DEF rowVars, mailVars
<1>1. ASSUME NEW r \in Runs, FinClaim(r) \/ Step(r) \/ Crash(r)
      PROVE  /\ ClaimsDelivery(r) \/ MarkDelivery(r) \/ Record(r) \/ UNCHANGED deliveries
             /\ Send(r) \/ UNCHANGED outbox
  BY <1>1, Frames DEF Receipts
<1>2. ASSUME NEW r \in Runs, NEW q \in Requests, NEW e \in Emails, StartResend(r, q, e)
      PROVE  UNCHANGED <<deliveries, outbox>>
  BY <1>2 DEF StartResend
<1>3. ASSUME NEW e \in Emails, updateDocumentDonorEmail(e) PROVE UNCHANGED <<deliveries, outbox>>
  BY <1>3 DEF updateDocumentDonorEmail
<1>4. CASE switchIntentToN1co \/ FinLeaseExpires \/ UNCHANGED vars
  BY <1>4 DEF switchIntentToN1co, FinLeaseExpires, vars
<1>5. ASSUME NEW k \in Keys, DeliveryLeaseExpires(k) PROVE UNCHANGED outbox
  BY <1>5 DEF DeliveryLeaseExpires
<1> QED BY <1>1, <1>2, <1>3, <1>4, <1>5 DEF Next

\* Who owns the finalization: a claim is only gained by claiming, only lost to
\* a takeover or at the end, and holds the address in place.
LEMMA OwnerStep ==
    ASSUME TypeOK, Receipts, [Next]_vars, NEW x \in Runs
    PROVE  /\ document.finalized_at => document'.finalized_at
           /\ Owner(x)' => Owner(x) \/ FinClaim(x)
           /\ Owner(x) => donor_email' = donor_email
           /\ Owner(x) => \/ Owner(x)' /\ (email_started => email_started')
                          \/ Takeover
                          \/ run[x].pc \in {"mark_finalized", "release"}
           /\ audits \subseteq audits'
           /\ intent \in {"NONE", "COMPLETED"} => intent' = intent
<1> USE DEF rowVars, mailVars, Owner
<1>t. document \in DteRow /\ run \in [Runs -> RunState] /\ email_started \in BOOLEAN
      /\ audits \subseteq Audits
  BY DEF TypeOK
<1>n. x # NULL
  BY NullIsNoId DEF Runs
<1>1. ASSUME NEW r \in Runs, FinClaim(r) \/ Step(r) \/ Crash(r)
      PROVE  /\ document.finalized_at => document'.finalized_at
             /\ Owner(x)' => Owner(x) \/ FinClaim(x)
             /\ donor_email' = donor_email
             /\ Owner(x) => \/ Owner(x)' /\ (email_started => email_started')
                            \/ Takeover
                            \/ run[x].pc \in {"mark_finalized", "release"}
             /\ audits \subseteq audits'
             /\ intent \in {"NONE", "COMPLETED"} => intent' = intent
  <2>1. intent \in {"NONE", "COMPLETED"} => intent' = intent
    BY <1>1, Frames DEF Receipts, completeIntentForPostAcceptOwner
  <2>2. audits \subseteq audits'
    BY <1>1, Frames DEF Receipts, ReceiptDue, EnsureAudit
  <2>3. CASE FinClaim(r)
    BY <2>1, <2>2, <2>3, <1>t, <1>n DEF FinClaim, DteRow, claimDocumentPostAcceptFinalization,
       claimDocumentPostAcceptFinalizationEnabled
  <2>4. CASE MarkDocument(r)
    BY <2>1, <2>2, <2>4, <1>t, <1>n DEF MarkDocument
  <2>5. CASE MarkFinalized(r)
    BY <2>1, <2>2, <2>5, <1>t, <1>n DEF MarkFinalized, At, DteRow, markDocumentPostAcceptFinalized,
       markDocumentPostAcceptFinalizedEnabled
  <2>6. CASE Release(r)
    BY <2>1, <2>2, <2>6, <1>t, <1>n DEF Release, At, DteRow, releaseDocumentPostAcceptFinalization,
       releaseDocumentPostAcceptFinalizationEnabled
  <2>7. CASE UNCHANGED rowVars
    BY <2>1, <2>2, <2>7
  <2> QED BY <1>1, <2>3, <2>4, <2>5, <2>6, <2>7, Frames DEF Receipts
<1>2. ASSUME NEW r \in Runs, NEW q \in Requests, NEW e \in Emails, StartResend(r, q, e)
      PROVE  UNCHANGED <<rowVars, audits, intent>>
  BY <1>2 DEF StartResend
<1>3. ASSUME NEW e \in Emails, updateDocumentDonorEmail(e)
      PROVE  UNCHANGED <<document, email_started, audits, intent>> /\ document.fin_claim = NULL
  BY <1>3 DEF updateDocumentDonorEmail
<1>4. CASE UNCHANGED vars
  BY <1>4 DEF vars
<1>5. ASSUME NEW k \in Keys, DeliveryLeaseExpires(k) PROVE UNCHANGED <<rowVars, audits, intent>>
  BY <1>5 DEF DeliveryLeaseExpires
<1>6. CASE switchIntentToN1co
  BY <1>6 DEF switchIntentToN1co
<1>7. CASE FinLeaseExpires
  BY <1>7 DEF FinLeaseExpires
<1> QED BY <1>n, <1>1, <1>2, <1>3, <1>4, <1>5, <1>6, <1>7 DEF Next

-----------------------------------------------------------------------------
(* The run that does not move.                                             *)

\* While the automatic receipt is in flight nothing has been handled.
LEMMA NothingHandled ==
    ASSUME TypeOK, Receipts, deliveries[NULL].status = "PENDING", ~document.finalized_at
    PROVE  ~hasHandledEmail(deliveries)
  BY DEF Receipts, Mailed, hasHandledEmail, Keys

\* The row a run holds is not touched by the others.
LEMMA HoldersRow ==
    ASSUME TypeOK, Receipts, [Next]_vars, NEW x \in Runs, run'[x] = run[x],
           NEW k \in Keys, k = run[x].key
    PROVE  /\ Holds(x)' => Holds(x)
           /\ Holds(x)' => /\ deliveries'[k].dispatched = deliveries[k].dispatched
                           /\ outbox'[k] = outbox[k]
           /\ Holds(x) /\ deliveries[k].dispatched =>
                /\ Holds(x)'
                /\ deliveries'[k].dispatched
<1>t. deliveries \in [Keys -> DeliveryRow] /\ run \in [Runs -> RunState]
  BY DEF TypeOK
<1>1. /\ Holds(x)' => Holds(x)
      /\ Holds(x)' => deliveries'[k].dispatched = deliveries[k].dispatched
      /\ Holds(x) /\ deliveries[k].dispatched => Holds(x)' /\ deliveries'[k].dispatched
  <2>1. ASSUME NEW r \in Runs, ClaimsDelivery(r)
        PROVE  <1>1!1 /\ <1>1!2 /\ <1>1!3
    <3>1. r # x
      BY <2>1, <1>t DEF ClaimsDelivery, Goto, RunState
    <3>2. run[r].key \in Keys
      BY <1>t DEF RunState
    <3> QED BY <2>1, <3>1, <3>2, <1>t DEF ClaimsDelivery, Holds, Claimed, NoDelivery, Reclaimable
  <2>2. ASSUME NEW r \in Runs, MarkDelivery(r)
        PROVE  <1>1!1 /\ <1>1!2 /\ <1>1!3
    <3>1. r # x
      BY <2>2, Frames DEF Step, Receipts
    <3>2. run[r].key \in Keys /\ deliveries[run[r].key] \in DeliveryRow
      BY <1>t DEF RunState
    <3>3. \/ UNCHANGED deliveries
          \/ /\ deliveries[run[r].key].token = r
             /\ deliveries' = [deliveries EXCEPT ![run[r].key] =
                                 markEmailDeliveryDispatchStarted(deliveries[run[r].key])]
      BY <2>2 DEF MarkDelivery, markEmailDeliveryDispatchStartedEnabled
    <3> QED BY <3>1, <3>2, <3>3, <1>t DEF Holds, DeliveryRow, markEmailDeliveryDispatchStarted
  <2>3. ASSUME NEW r \in Runs, Record(r)
        PROVE  <1>1!1 /\ <1>1!2 /\ <1>1!3
    <3>1. r # x
      BY <2>3, Frames DEF Step, Receipts
    <3>2. run[r].key \in Keys /\ deliveries[run[r].key] \in DeliveryRow
      BY <1>t DEF RunState
    <3>3. \/ UNCHANGED deliveries
          \/ /\ deliveries[run[r].key].token = r
             /\ deliveries' = [deliveries EXCEPT ![run[r].key] =
                           finalizeEmailDeliveryClaim(deliveries[run[r].key], run[r].outcome)]
      BY <2>3 DEF Record, finalizeEmailDeliveryClaimEnabled
    <3>4. finalizeEmailDeliveryClaim(deliveries[run[r].key], run[r].outcome).status # "PENDING"
      BY <3>2 DEF DeliveryRow, finalizeEmailDeliveryClaim
    <3> QED BY <3>1, <3>2, <3>3, <3>4, <1>t DEF Holds
  <2>4. ASSUME NEW m \in Keys, DeliveryLeaseExpires(m)
        PROVE  <1>1!1 /\ <1>1!2 /\ <1>1!3
    BY <2>4, <1>t DEF DeliveryLeaseExpires, Holds, DeliveryRow
  <2>5. CASE UNCHANGED deliveries
    BY <2>5 DEF Holds
  <2> QED BY <2>1, <2>2, <2>3, <2>4, <2>5, DeliverySteps
<1>2. Holds(x)' => outbox'[k] = outbox[k]
  <2>1. ASSUME NEW r \in Runs, Send(r), Holds(x) PROVE outbox'[k] = outbox[k]
    <3>1. r # x
      BY <2>1, Frames DEF Step, Receipts
    <3>2. Holds(r)
      BY <2>1 DEF Receipts, Sends, Send, At
    <3>3. run[r].key # k
      BY <2>1, <3>1, <3>2 DEF Holds
    <3> QED BY <2>1, <3>3 DEF Send, TypeOK
  <2> QED BY <2>1, <1>1, DeliverySteps
<1> QED BY <1>1, <1>2

\* An owner that has an address and has started the dispatch keeps its claim
\* while the automatic receipt is in flight.
LEMMA OwnerStays ==
    ASSUME TypeOK, Receipts, [Next]_vars, NEW x \in Runs,
           Owner(x), email_started, donor_email # NULL,
           deliveries[NULL].status = "PENDING",
           run[x].pc \notin {"mark_finalized", "release"}
    PROVE  Owner(x)' /\ email_started' /\ donor_email' = donor_email
<1>1. ~Takeover
  BY NothingHandled DEF Takeover, Owner
<1> QED BY <1>1, OwnerStep

\* What a run knows survives the steps of the others.
LEMMA Bystander ==
    ASSUME TypeOK, Receipts, [Next]_vars, NEW x \in Runs, run'[x] = run[x]
    PROVE  Reads(x)' /\ Completes(x)' /\ Sends(x)'
<1>t. run \in [Runs -> RunState] /\ run[x] \in RunState /\ run[x].key \in Keys
  BY DEF TypeOK, RunState
<1>r. Reads(x) /\ Completes(x) /\ Sends(x)
  BY DEF Receipts
<1>1. CASE run[x].pc = "idle"
  BY <1>1 DEF Reads, Completes, Sends, PastReload, PastIntent, AuditPCs, FinalizerPCs, ResendPCs,
              SendPCs
<1>2. CASE run[x].pc # "idle"
  <2>o. /\ document.finalized_at => document'.finalized_at
        /\ Owner(x)' => Owner(x)
        /\ Owner(x) => donor_email' = donor_email
        /\ audits \subseteq audits'
        /\ intent \in {"NONE", "COMPLETED"} => intent' = intent
    <3>1. ~FinClaim(x)
      BY <1>2 DEF FinClaim, Fresh, IdleRun
    <3> QED BY <3>1, OwnerStep
  <2>1. Reads(x)'
    BY <1>r, <2>o DEF Reads
  <2>2. Completes(x)'
    <3>1. run[x].pc \in AuditPCs => run[x].pc \in PastIntent /\ run[x].key = NULL
      BY <1>r DEF Reads, AuditPCs, PastIntent, FinalizerPCs
    <3> QED BY <1>r, <2>o, <3>1 DEF Completes, AuditPCs
  <2>3. Sends(x)'
    <3>1. PICK k \in Keys : k = run[x].key
      BY <1>t
    <3>2. /\ Holds(x)' => Holds(x)
          /\ Holds(x)' => /\ deliveries'[k].dispatched = deliveries[k].dispatched
                          /\ outbox'[k] = outbox[k]
          /\ Holds(x) /\ deliveries[k].dispatched => Holds(x)' /\ deliveries'[k].dispatched
      BY <3>1, HoldersRow
    <3>3. run[x].pc = "mark_delivery" /\ k = NULL /\ Holds(x)' => Owner(x)' /\ email_started'
      <4> SUFFICES ASSUME run[x].pc = "mark_delivery", k = NULL, Holds(x)'
                   PROVE  Owner(x)' /\ email_started'
        OBVIOUS
      <4>1. Holds(x) /\ Owner(x) /\ email_started
        BY <1>r, <3>1, <3>2 DEF Sends
      <4>2. donor_email # NULL
        BY <1>r, <3>1, <4>1 DEF Reads, PastReload, SendPCs
      <4> QED BY <3>1, <4>1, <4>2, OwnerStays DEF Holds
    <3> QED BY <1>r, <3>1, <3>2, <3>3 DEF Sends
  <2> QED BY <2>1, <2>2, <2>3
<1> QED BY <1>1, <1>2

-----------------------------------------------------------------------------
(* The tables.                                                             *)

\* A mail the provider took stays accounted for, and one delivery unresolved.
LEMMA RowsStep ==
    ASSUME TypeOK, TypeOK', Receipts, [Next]_vars
    PROVE  (\A k \in Keys : Mailed(k)') /\ OneUnresolved'
<1>t. /\ deliveries \in [Keys -> DeliveryRow] /\ run \in [Runs -> RunState]
      /\ outbox \in [Keys -> Nat]
      /\ \A r \in Runs : run[r].key \in Keys /\ deliveries[run[r].key] \in DeliveryRow
  BY DEF TypeOK, RunState
<1>f. document.finalized_at => document'.finalized_at
  <2>1. CASE Runs = {}
    BY <2>1 DEF Next, updateDocumentDonorEmail, DeliveryLeaseExpires, switchIntentToN1co,
       FinLeaseExpires, rowVars, vars
  <2>2. CASE \E x \in Runs : TRUE
    BY <2>2, OwnerStep
  <2> QED BY <2>1, <2>2
<1>m. \A k \in Keys : Mailed(k)
  BY DEF Receipts
<1>u. OneUnresolved
  BY DEF Receipts
<1>1. ASSUME NEW r \in Runs, Send(r) PROVE (\A k \in Keys : Mailed(k)') /\ OneUnresolved'
  <2>1. UNCHANGED deliveries
    BY <1>1 DEF Send
  <2>2. PICK m \in Keys : m = run[r].key
    BY <1>t
  <2>3. /\ deliveries[m].dispatched /\ Unresolved(deliveries[m])
        /\ outbox[m] = 0
    BY <1>1, <2>2 DEF Receipts, Sends, Holds, Unresolved, Send, At
  <2>4. /\ \A k \in Keys \ {m} : outbox'[k] = outbox[k]
        /\ outbox'[m] \in {0, 1}
    BY <1>1, <1>t, <2>2, <2>3 DEF Send
  <2> QED BY <1>m, <1>u, <1>f, <2>1, <2>3, <2>4 DEF Mailed, OneUnresolved
<1>2. CASE UNCHANGED outbox
  <2>1. ASSUME NEW r \in Runs, ClaimsDelivery(r)
        PROVE  (\A k \in Keys : Mailed(k)') /\ OneUnresolved'
    <3>1. PICK m \in Keys : m = run[r].key
      BY <1>t
    <3>2. /\ deliveries' = [deliveries EXCEPT ![m] = Claimed(r, run[r].to)]
          /\ deliveries[m].status = "NONE" \/ Reclaimable(deliveries[m])
          /\ ~Fenced(deliveries, m)
      BY <2>1, <3>1 DEF ClaimsDelivery
    <3>3. deliveries'[m].status = "PENDING" /\ \A k \in Keys \ {m} : deliveries'[k] = deliveries[k]
      BY <3>2, <1>t DEF Claimed, NoDelivery
    <3>4. outbox'[m] = 0
      BY <1>2, <1>t, <1>m, <3>2 DEF Mailed, Reclaimable, Unresolved, retry_safe
    <3>5. m # NULL => document.finalized_at
      BY <2>1, <3>1 DEF Receipts, Reads, ClaimsDelivery
    <3>6. \A k \in Keys : Mailed(k)'
      BY <1>2, <1>m, <1>f, <3>3, <3>4, <3>5 DEF Mailed
    <3>7. OneUnresolved'
      BY <1>u, <3>2, <3>3 DEF OneUnresolved, Fenced
    <3> QED BY <3>6, <3>7
  <2>2. ASSUME NEW r \in Runs, MarkDelivery(r) \/ Record(r)
        PROVE  (\A k \in Keys : Mailed(k)') /\ OneUnresolved'
    <3>1. PICK m \in Keys : m = run[r].key
      BY <1>t
    <3>2. \/ UNCHANGED deliveries
          \/ /\ \A k \in Keys \ {m} : deliveries'[k] = deliveries[k]
             /\ deliveries[m].status = "PENDING"
             /\ deliveries'[m].status # "NONE"
             /\ deliveries[m].dispatched => deliveries'[m].dispatched
             /\ outbox[m] > 0 => (deliveries'[m].status = "SENT" \/ Unresolved(deliveries'[m]))
      <4>1. CASE MarkDelivery(r)
        <5>1. \/ UNCHANGED deliveries
              \/ /\ deliveries[m].status = "PENDING"
                 /\ deliveries' = [deliveries EXCEPT ![m] =
                                     markEmailDeliveryDispatchStarted(deliveries[m])]
          BY <3>1, <4>1 DEF MarkDelivery, markEmailDeliveryDispatchStartedEnabled
        <5> QED BY <5>1, <1>t DEF markEmailDeliveryDispatchStarted, DeliveryRow, Unresolved
      <4>2. CASE Record(r)
        <5>1. \/ UNCHANGED deliveries
              \/ /\ Holds(r)
                 /\ deliveries' = [deliveries EXCEPT ![m] =
                              finalizeEmailDeliveryClaim(deliveries[m], run[r].outcome)]
          BY <3>1, <4>2 DEF Record, finalizeEmailDeliveryClaimEnabled, Holds
        <5>2. Holds(r) /\ outbox[m] > 0 => run[r].outcome \in {"SENT", "NONE", "UNKNOWN"}
          BY <1>t, <3>1, <4>2 DEF TypeOK, RunState, Outcomes, Receipts, Sends, Record, At
        <5>3. deliveries[m] \in DeliveryRow
          BY <1>t
        <5>4. /\ finalizeEmailDeliveryClaim(deliveries[m], run[r].outcome).dispatched
                   = deliveries[m].dispatched
              /\ finalizeEmailDeliveryClaim(deliveries[m], run[r].outcome).status
                   = IF run[r].outcome = "SENT" THEN "SENT" ELSE "FAILED"
              /\ finalizeEmailDeliveryClaim(deliveries[m], run[r].outcome).outcome
                   = IF run[r].outcome = "SENT" THEN "NONE" ELSE run[r].outcome
          BY <5>3 DEF finalizeEmailDeliveryClaim, DeliveryRow
        <5> QED BY <5>1, <5>2, <5>4, <1>t, <3>1 DEF Holds, Unresolved
      <4> QED BY <2>2, <4>1, <4>2
    <3>3. Unresolved(deliveries[m]) \/ UNCHANGED deliveries
      BY <3>2 DEF Unresolved
    <3> QED BY <1>2, <1>f, <1>m, <1>u, <3>2, <3>3 DEF Mailed, OneUnresolved
  <2>3. ASSUME NEW k \in Keys, DeliveryLeaseExpires(k)
        PROVE  (\A m \in Keys : Mailed(m)') /\ OneUnresolved'
    <3>1. /\ deliveries'[k] = [deliveries[k] EXCEPT !.stale = TRUE]
          /\ \A m \in Keys \ {k} : deliveries'[m] = deliveries[m]
      BY <2>3, <1>t DEF DeliveryLeaseExpires
    <3>2. \A m \in Keys : /\ deliveries'[m].status = deliveries[m].status
                          /\ deliveries'[m].dispatched = deliveries[m].dispatched
                          /\ deliveries'[m].outcome = deliveries[m].outcome
      BY <3>1, <1>t DEF DeliveryRow
    <3> QED BY <1>2, <1>f, <1>m, <1>u, <3>2 DEF Mailed, OneUnresolved, Unresolved
  <2>4. CASE UNCHANGED deliveries
    BY <1>2, <1>f, <1>m, <1>u, <2>4 DEF Mailed, OneUnresolved
  <2> QED BY <2>1, <2>2, <2>3, <2>4, DeliverySteps
<1> QED BY <1>1, <1>2, DeliverySteps

-----------------------------------------------------------------------------
(* The run that moves.                                                     *)

\* A run that returns knows nothing.
LEMMA Returns ==
    ASSUME NEW r \in Runs, run'[r].pc = "idle"
    PROVE  Reads(r)' /\ Completes(r)' /\ Sends(r)'
  BY DEF Reads, Completes, Sends, PastReload, PastIntent, AuditPCs, FinalizerPCs, ResendPCs, SendPCs

\* A finalizer that moves between statements without touching the mails.
LEMMA Quiet ==
    ASSUME TypeOK, Receipts, NEW r \in Runs, UNCHANGED <<deliveries, outbox>>,
           run[r].key = NULL, run'[r].key = NULL,
           \/ run[r].pc \notin {"idle", "send", "record", "catch"}
           \/ run'[r].pc = "catch" /\ run[r].pc = "record"
           \/ ~Holds(r),
           run'[r].to = run[r].to, run'[r].started = run[r].started,
           run'[r].pc \in FinalizerPCs \ {"mark_document"}
    PROVE  Sends(r)'
<1>1. Sends(r) /\ (Holds(r)' <=> Holds(r))
  BY DEF Receipts, Holds
<1> QED BY <1>1 DEF Sends, FinalizerPCs

\* What a run knows after a statement of its own.
LEMMA Mover ==
    ASSUME TypeOK, TypeOK', Receipts, NEW r \in Runs, FinClaim(r) \/ Step(r) \/ Crash(r)
    PROVE  Reads(r)' /\ Completes(r)' /\ Sends(r)'
<1> USE DEF rowVars, mailVars
<1>t. /\ run \in [Runs -> RunState] /\ run[r] \in RunState
      /\ run[r].key \in Keys /\ donor_email \in Emails \cup {NULL}
      /\ deliveries \in [Keys -> DeliveryRow]
  BY DEF TypeOK, RunState
<1>r. Reads(r) /\ Completes(r) /\ Sends(r)
  BY DEF Receipts
<1>g. ASSUME NEW pc, Goto(r, pc)
      PROVE  /\ run'[r].pc = pc /\ run'[r].key = run[r].key /\ run'[r].to = run[r].to
             /\ run'[r].started = run[r].started /\ run'[r].outcome = run[r].outcome
  BY <1>g, <1>t DEF Goto, RunState
<1>i. Return(r) => run'[r].pc = "idle"
  BY <1>t DEF Return, IdleRun
<1>1. CASE FinClaim(r)
  <2>1. run'[r] = [IdleRun EXCEPT !.pc = "reload"] /\ UNCHANGED <<deliveries, outbox>>
    BY <1>1, <1>t DEF FinClaim
  <2>2. run'[r].pc = "reload" /\ run'[r].key = NULL
    BY <2>1 DEF IdleRun
  <2>3. ~(deliveries[NULL].status = "PENDING" /\ deliveries[NULL].token = r
           /\ deliveries[NULL].dispatched)
    BY <1>1 DEF FinClaim, Fresh, Receipts, Locked, Owner
  <2> QED BY <2>1, <2>2, <2>3 DEF Reads, Completes, Sends, Holds, PastReload, PastIntent, AuditPCs,
                                  FinalizerPCs, ResendPCs, SendPCs
<1>2. CASE Reload(r)
  <2>0. run[r].key = NULL /\ UNCHANGED <<rowVars, mailVars, intent, audits>>
    BY <1>2, <1>r DEF Reload, At, Reads, FinalizerPCs
  <2>1. \/ run'[r].pc = "intent" /\ run'[r].to = donor_email
        \/ run'[r].pc = "catch" /\ run'[r].to = run[r].to
    BY <1>2, <1>t, <1>g DEF Reload, RunState
  <2>2. run'[r].key = NULL /\ run'[r].started = run[r].started
    BY <1>2, <2>0, <1>t, <1>g DEF Reload, RunState
  <2>3. Sends(r)'
    <3>1. Holds(r)' <=> Holds(r)
      BY <2>0, <2>2 DEF Holds
    <3> QED BY <1>2, <1>r, <2>0, <2>1, <2>2, <3>1 DEF Sends, Reload, At
  <2> QED BY <2>0, <2>1, <2>2, <2>3 DEF Reads, Completes, PastReload, PastIntent, AuditPCs,
                                        FinalizerPCs, ResendPCs, SendPCs
<1>3. CASE ResolveIntent(r)
  <2>0. run[r].pc = "intent" /\ run[r].key = NULL /\ UNCHANGED <<rowVars, mailVars, intent, audits>>
    BY <1>3, <1>r DEF ResolveIntent, At, Reads, FinalizerPCs
  <2>1. PICK pc \in {"email", "complete_intent", "catch"} :
          Goto(r, pc) /\ (pc = "email" => intent \in {"NONE", "COMPLETED"})
    BY <1>3 DEF ResolveIntent, TypeOK
  <2>2. Sends(r)'
    BY <2>0, <2>1, <1>g, Quiet DEF FinalizerPCs
  <2>3. Reads(r)'
    BY <1>r, <2>0, <2>1, <1>g DEF Reads, PastReload, AuditPCs, FinalizerPCs, ResendPCs, SendPCs, Owner
  <2>4. Completes(r)'
    BY <2>0, <2>1, <1>g DEF Completes, PastIntent, AuditPCs, SendPCs
  <2> QED BY <2>2, <2>3, <2>4
<1>4. CASE completeIntentForPostAcceptOwner(r)
  <2>0. /\ run[r].pc = "complete_intent" /\ run[r].key = NULL
        /\ UNCHANGED <<rowVars, mailVars, audits>>
    BY <1>4, <1>r DEF completeIntentForPostAcceptOwner, At, Reads, FinalizerPCs
  <2>1. PICK pc \in {"email", "catch"} : Goto(r, pc) /\ (pc = "email" => intent' = "COMPLETED")
    BY <1>4 DEF completeIntentForPostAcceptOwner
  <2>2. Sends(r)'
    BY <2>0, <2>1, <1>g, Quiet DEF FinalizerPCs
  <2>3. Reads(r)'
    BY <1>r, <2>0, <2>1, <1>g DEF Reads, PastReload, AuditPCs, FinalizerPCs, ResendPCs, SendPCs, Owner
  <2>4. Completes(r)'
    BY <2>0, <2>1, <1>g DEF Completes, PastIntent, AuditPCs, SendPCs
  <2> QED BY <2>2, <2>3, <2>4
<1>5. CASE ReceiptDue(r)
  <2>0. /\ run[r].pc = "email" /\ run[r].key = NULL
        /\ UNCHANGED <<rowVars, mailVars, intent>> /\ audits \subseteq audits'
    BY <1>5, <1>r DEF ReceiptDue, At, Reads, FinalizerPCs
  <2>1. PICK pc \in {"audit_intent", "catch", "claim_email"} :
          Goto(r, pc) /\ (pc = "claim_email" => run[r].to # NULL)
    BY <1>5 DEF ReceiptDue
  <2>2. Sends(r)'
    BY <2>0, <2>1, <1>g, Quiet DEF FinalizerPCs
  <2>3. Reads(r)'
    BY <1>r, <2>0, <2>1, <1>g DEF Reads, PastReload, AuditPCs, FinalizerPCs, ResendPCs, SendPCs, Owner
  <2>4. Completes(r)'
    BY <1>r, <2>0, <2>1, <1>g DEF Completes, PastIntent, AuditPCs, SendPCs
  <2> QED BY <2>2, <2>3, <2>4
<1>6. CASE ClaimsDelivery(r) /\ UNCHANGED <<rowVars, intent, audits, outbox>>
  <2>0. run[r].pc \in {"claim_email", "manual_reclaim", "manual_claim"} /\ Goto(r, "prepare")
    BY <1>6 DEF ClaimsDelivery
  <2>1. PICK k \in Keys : k = run[r].key
    BY <1>t
  <2>2. ~deliveries'[k].dispatched
    BY <1>6, <1>t, <2>1 DEF ClaimsDelivery, Claimed, NoDelivery
  <2>3. outbox'[k] = 0
    BY <1>6, <2>1 DEF ClaimsDelivery, Receipts, Mailed, Reclaimable, Unresolved, retry_safe, TypeOK
  <2>4. Sends(r)'
    BY <2>0, <2>1, <2>2, <2>3, <1>g DEF Sends
  <2>5. Reads(r)'
    BY <1>r, <1>6, <2>0, <1>g DEF Reads, PastReload, AuditPCs, FinalizerPCs, ResendPCs, SendPCs, Owner
  <2>6. Completes(r)'
    BY <1>r, <1>6, <2>0, <1>g DEF Completes, Reads, PastIntent, AuditPCs, ResendPCs, SendPCs
  <2> QED BY <2>4, <2>5, <2>6
<1>7. CASE /\ ClaimEmail(r)
           /\ \E pc \in {"catch", "audit_intent"} : Goto(r, pc) /\ UNCHANGED deliveries
  <2>0. /\ run[r].pc = "claim_email" /\ run[r].key = NULL
        /\ UNCHANGED <<rowVars, outbox, deliveries, intent, audits>>
    BY <1>7, <1>r DEF ClaimEmail, At, Reads, FinalizerPCs
  <2>1. PICK pc \in {"catch", "audit_intent"} : Goto(r, pc)
    BY <1>7
  <2>2. Sends(r)'
    BY <2>0, <2>1, <1>g, Quiet DEF FinalizerPCs
  <2>3. Reads(r)'
    BY <1>r, <2>0, <2>1, <1>g DEF Reads, PastReload, AuditPCs, FinalizerPCs, ResendPCs, SendPCs, Owner
  <2>4. Completes(r)'
    BY <1>r, <2>0, <2>1, <1>g DEF Completes, PastIntent, AuditPCs, SendPCs
  <2> QED BY <2>2, <2>3, <2>4
<1>8. CASE MarkDocument(r)
  <2>0. /\ run[r].pc = "mark_document" /\ run[r].key = NULL
        /\ UNCHANGED <<document, donor_email, mailVars, intent, audits>>
    BY <1>8, <1>r DEF MarkDocument, At, Reads, FinalizerPCs
  <2>1. PICK returned \in BOOLEAN :
          /\ run' = [run EXCEPT ![r].started = returned,
                                ![r].pc = IF returned THEN "mark_delivery" ELSE "catch"]
          /\ returned => Owner(r) /\ email_started'
    BY <1>8 DEF MarkDocument, TypeOK
  <2>2. /\ run'[r].pc = IF returned THEN "mark_delivery" ELSE "catch"
        /\ run'[r].started = returned
        /\ run'[r].key = NULL /\ run'[r].to = run[r].to
    BY <1>t, <2>0, <2>1 DEF RunState
  <2>3. Sends(r)'
    BY <1>r, <2>0, <2>1, <2>2 DEF Sends, Holds, Owner
  <2>4. Reads(r)'
    BY <1>r, <2>0, <2>2 DEF Reads, PastReload, AuditPCs, FinalizerPCs, ResendPCs, SendPCs, Owner
  <2>5. Completes(r)'
    BY <1>r, <2>0, <2>2 DEF Completes, PastIntent, AuditPCs, SendPCs
  <2> QED BY <2>3, <2>4, <2>5
<1>9. CASE EnsureAudit(r)
  <2>0. /\ run[r].pc \in {"audit_intent", "audit_accepted", "audit_finalized"}
        /\ run[r].key = NULL
        /\ UNCHANGED <<rowVars, mailVars, intent>> /\ audits \subseteq audits'
    BY <1>9, <1>r, AuditSteps DEF EnsureAudit, Reads, FinalizerPCs
  <2>1. PICK pc \in AuditPCs \cup {"catch"} :
          /\ Goto(r, pc)
          /\ pc # "catch" =>
               /\ pc = AfterAudit[run[r].pc]
               /\ \/ AuditAt[run[r].pc] \in audits'
                  \/ run[r].pc = "audit_intent" /\ intent # "COMPLETED"
    BY <1>9, <2>0, AuditSteps DEF EnsureAudit
  <2>2. Sends(r)'
    BY <2>0, <2>1, <1>g, Quiet DEF FinalizerPCs, AuditPCs
  <2>3. Reads(r)'
    BY <1>r, <2>0, <2>1, <1>g DEF Reads, PastReload, AuditPCs, FinalizerPCs, ResendPCs, SendPCs, Owner
  <2>4. Completes(r)'
    <3>1. CASE pc = "catch"
      BY <2>1, <3>1, <1>g DEF Completes, PastIntent, AuditPCs, SendPCs
    <3>2. CASE pc # "catch"
      BY <1>r, <2>0, <2>1, <3>2, <1>g, AuditSteps DEF Completes, PastIntent, AuditPCs, SendPCs
    <3> QED BY <3>1, <3>2
  <2> QED BY <2>2, <2>3, <2>4
<1>10. CASE (MarkFinalized(r) \/ Catch(r) \/ StatementThrows(r)) /\ Goto(r, "catch") /\ run[r].pc # "catch"
  <2>0. run[r].key = NULL /\ UNCHANGED <<deliveries, outbox>> /\ run[r].pc # "idle"
    BY <1>10, <1>r DEF MarkFinalized, StatementThrows, Catch, At, Reads, FinalizerPCs
  <2>1. run[r].pc # "send"
    BY <1>10 DEF MarkFinalized, StatementThrows, Catch, At, FinalizerPCs
  <2>2. Sends(r)'
    BY <1>10, <2>0, <2>1, <1>g, Quiet DEF FinalizerPCs
  <2>3. Reads(r)'
    BY <2>0, <1>10, <1>g DEF Reads, PastReload, AuditPCs, FinalizerPCs, ResendPCs, SendPCs
  <2>4. Completes(r)'
    BY <1>10, <1>g DEF Completes, PastIntent, AuditPCs, SendPCs
  <2> QED BY <2>2, <2>3, <2>4
<1>11. CASE Catch(r) /\ Goto(r, "release")
  <2>0. run[r].pc = "catch" /\ run[r].key = NULL /\ UNCHANGED <<rowVars, mailVars, intent, audits>>
    BY <1>11, <1>r DEF Catch, At, Reads, FinalizerPCs
  <2>1. ~(Holds(r) /\ deliveries[NULL].dispatched)
    <3> SUFFICES ASSUME Holds(r), deliveries[NULL].dispatched PROVE FALSE
      OBVIOUS
    <3>1. run[r].started /\ run[r].to # NULL
      BY <1>r, <2>0 DEF Sends
    <3>2. hasHandledEmail(deliveries)
      BY <1>11, <1>t, <3>1 DEF Catch, Goto, Return, IdleRun, RunState
    <3>3. ~document.finalized_at
      BY <2>0 DEF Receipts, Locked, Holds, Owner
    <3> QED BY <2>0, <3>2, <3>3, NothingHandled DEF Holds
  <2>2. Holds(r)' <=> Holds(r)
    BY <1>11, <2>0, <1>g DEF Holds
  <2>3. Sends(r)'
    BY <1>11, <2>0, <2>1, <2>2, <1>g DEF Sends
  <2>4. Reads(r)'
    BY <1>11, <2>0, <1>g DEF Reads, PastReload, AuditPCs, FinalizerPCs, ResendPCs, SendPCs
  <2>5. Completes(r)'
    BY <1>11, <1>g DEF Completes, PastIntent, AuditPCs, SendPCs
  <2> QED BY <2>3, <2>4, <2>5
<1>12. CASE Return(r)
  BY <1>12, <1>i, Returns
<1>13. CASE ManualReclaim(r) /\ Goto(r, "manual_claim")
  <2>0. /\ run[r].pc = "manual_reclaim" /\ run[r].key # NULL /\ document.finalized_at
        /\ UNCHANGED <<rowVars, intent, audits>>
    BY <1>13, <1>r DEF ManualReclaim, At, Reads, ResendPCs
  <2> QED BY <1>13, <2>0, <1>g DEF Reads, Completes, Sends, PastReload, PastIntent, AuditPCs,
                                    FinalizerPCs, ResendPCs, SendPCs
<1>14. CASE Prepare(r)
  <2>0. run[r].pc = "prepare" /\ UNCHANGED <<rowVars, mailVars, intent, audits>>
    BY <1>14 DEF Prepare, At
  <2>1. /\ \/ run'[r].pc = "mark_document" /\ run[r].key = NULL
           \/ run'[r].pc = "mark_delivery" /\ run[r].key # NULL
           \/ run'[r].pc = "record"
        /\ run'[r].key = run[r].key /\ run'[r].to = run[r].to /\ run'[r].started = run[r].started
    <3>1. CASE Goto(r, IF run[r].key = NULL THEN "mark_document" ELSE "mark_delivery")
      BY <3>1, <1>g
    <3>2. CASE run' = [run EXCEPT ![r].pc = "record",
                            ![r].outcome = classifyEmailDispatchError("OTHER", FALSE)]
      BY <3>2, <1>t DEF RunState
    <3> QED BY <1>14, <3>1, <3>2 DEF Prepare
  <2>2. Holds(r)' <=> Holds(r)
    BY <2>0, <2>1 DEF Holds
  <2>3. Sends(r)'
    BY <1>r, <2>0, <2>1, <2>2 DEF Sends
  <2>4. Reads(r)'
    BY <1>r, <2>0, <2>1 DEF Reads, PastReload, AuditPCs, FinalizerPCs, ResendPCs, SendPCs, Owner
  <2>5. Completes(r)'
    BY <1>r, <2>0, <2>1 DEF Completes, PastIntent, AuditPCs, SendPCs
  <2> QED BY <2>3, <2>4, <2>5
<1>15. CASE MarkDelivery(r)
  <2>0. run[r].pc = "mark_delivery" /\ UNCHANGED <<rowVars, intent, audits, outbox>>
    BY <1>15 DEF MarkDelivery, At
  <2>k. PICK k \in Keys : k = run[r].key
    BY <1>t
  <2>1. PICK committed, returned \in BOOLEAN :
          /\ returned => committed
          /\ committed => markEmailDeliveryDispatchStartedEnabled(deliveries[k], r)
          /\ deliveries' = IF committed
                             THEN [deliveries EXCEPT ![k] =
                                     markEmailDeliveryDispatchStarted(deliveries[k])]
                             ELSE deliveries
          /\ run' = [run EXCEPT ![r].pc = IF returned THEN "send" ELSE "record",
                                ![r].outcome = IF returned THEN "NONE"
                                               ELSE classifyEmailDispatchError("OTHER", FALSE)]
    BY <1>15, <2>k DEF MarkDelivery
  <2>2. /\ run'[r].pc = IF returned THEN "send" ELSE "record"
        /\ run'[r].key = run[r].key /\ run'[r].to = run[r].to /\ run'[r].started = run[r].started
    BY <1>t, <2>1 DEF RunState
  <2>3. committed => /\ Holds(r)
                     /\ deliveries'[k].status = "PENDING" /\ deliveries'[k].token = r
                     /\ deliveries'[k].dispatched
    <3>1. deliveries[k] \in DeliveryRow
      BY <1>t
    <3> QED BY <1>t, <2>1, <2>k, <3>1 DEF markEmailDeliveryDispatchStartedEnabled, DeliveryRow,
                                       markEmailDeliveryDispatchStarted, Holds
  <2>4. Holds(r)' => Holds(r)
    BY <2>1, <2>2, <2>3 DEF Holds
  <2>5. Holds(r) => ~deliveries[k].dispatched /\ outbox[k] = 0
    BY <1>r, <2>0, <2>k DEF Sends
  <2>6. k = NULL => run[r].started /\ run[r].to # NULL
    BY <1>r, <2>0, <2>k DEF Sends, Reads, SendPCs
  <2>7. Sends(r)'
    <3>1. returned => Holds(r)' /\ deliveries'[k].dispatched /\ outbox'[k] = 0
      BY <2>0, <2>1, <2>2, <2>3, <2>5, <2>k DEF Holds
    <3>2. Holds(r)' => outbox'[k] = 0
      BY <2>0, <2>4, <2>5
    <3> QED BY <2>2, <2>6, <2>k, <3>1, <3>2 DEF Sends
  <2>8. Reads(r)'
    BY <1>r, <2>0, <2>2 DEF Reads, PastReload, AuditPCs, FinalizerPCs, ResendPCs, SendPCs, Owner
  <2>9. Completes(r)'
    BY <1>r, <2>0, <2>2 DEF Completes, PastIntent, AuditPCs, SendPCs
  <2> QED BY <2>7, <2>8, <2>9
<1>16. CASE Send(r)
  <2>0. run[r].pc = "send" /\ UNCHANGED <<rowVars, intent, audits, deliveries, latest>>
    BY <1>16 DEF Send, At
  <2>k. PICK k \in Keys : k = run[r].key
    BY <1>t
  <2>1. PICK answer \in {"ACCEPTED"} \cup EmailErrors, accepted \in BOOLEAN :
          /\ answer \in {"REFUSED", "DELIVERY_FAILED"} => ~accepted
          /\ outbox' = [outbox EXCEPT ![k] = IF accepted THEN @ + 1 ELSE @]
          /\ run' = [run EXCEPT ![r].pc = "record",
                                ![r].outcome = IF answer = "ACCEPTED" THEN "SENT"
                                               ELSE classifyEmailDispatchError(answer, TRUE)]
    BY <1>16, <2>k DEF Send
  <2>2. /\ run'[r].pc = "record"
        /\ run'[r].key = run[r].key /\ run'[r].to = run[r].to /\ run'[r].started = run[r].started
        /\ run'[r].outcome = IF answer = "ACCEPTED" THEN "SENT"
                             ELSE classifyEmailDispatchError(answer, TRUE)
    BY <1>t, <2>1 DEF RunState
  <2>3. run'[r].outcome \in {"NOT_SENT", "NOT_DELIVERED"} => ~accepted
    BY <2>1, <2>2 DEF classifyEmailDispatchError, EmailErrors
  <2>4. outbox[k] = 0 /\ (k = NULL => run[r].started /\ run[r].to # NULL)
    BY <1>r, <2>0, <2>k DEF Sends, Reads, SendPCs
  <2>5. ~accepted => outbox'[k] = 0
    BY <2>1, <2>4 DEF TypeOK
  <2>6. Sends(r)'
    BY <2>2, <2>3, <2>4, <2>5, <2>k DEF Sends
  <2>7. Reads(r)'
    BY <1>r, <2>0, <2>2 DEF Reads, PastReload, AuditPCs, FinalizerPCs, ResendPCs, SendPCs, Owner
  <2>8. Completes(r)'
    BY <1>r, <2>0, <2>2 DEF Completes, PastIntent, AuditPCs, SendPCs
  <2> QED BY <2>6, <2>7, <2>8
<1>17. CASE Record(r) /\ ~Return(r)
  <2>0. run[r].pc = "record" /\ UNCHANGED <<rowVars, intent, audits, latest, outbox>>
    BY <1>17 DEF Record, At
  <2>k. run[r].key = NULL
    BY <1>17 DEF Record, Throws
  <2>1. /\ run'[r].pc \in {"audit_intent", "catch"} /\ run'[r].key = NULL
        /\ run'[r].to = run[r].to /\ run'[r].started = run[r].started
    BY <1>17, <2>k, <1>g DEF Record, Throws
  <2>2. ~Holds(r)'
    <3>1. deliveries[NULL] \in DeliveryRow
      BY <1>t, <2>k
    <3>2. finalizeEmailDeliveryClaim(deliveries[NULL], run[r].outcome).status # "PENDING"
      BY <3>1 DEF finalizeEmailDeliveryClaim, DeliveryRow
    <3> QED BY <1>17, <1>t, <2>k, <2>1, <3>2 DEF Record, Holds, finalizeEmailDeliveryClaimEnabled
  <2>3. Sends(r)'
    BY <2>1, <2>2 DEF Sends
  <2>4. Reads(r)'
    BY <1>r, <2>0, <2>1, <2>k DEF Reads, PastReload, AuditPCs, FinalizerPCs, ResendPCs, SendPCs, Owner
  <2>5. Completes(r)'
    BY <1>r, <2>0, <2>1, <2>k DEF Completes, PastIntent, AuditPCs, SendPCs
  <2> QED BY <2>3, <2>4, <2>5
<1>18. ASSUME ClaimEmail(r) \/ ManualReclaim(r) \/ ManualClaim(r)
       PROVE  \/ ClaimsDelivery(r) /\ UNCHANGED <<rowVars, intent, audits, outbox>>
              \/ Return(r)
              \/ ClaimEmail(r) /\ \E pc \in {"catch", "audit_intent"} :
                                     Goto(r, pc) /\ UNCHANGED deliveries
              \/ ManualReclaim(r) /\ Goto(r, "manual_claim")
  <2>1. CASE ClaimEmail(r)
    <3>1. run[r].key = NULL /\ run[r].pc = "claim_email"
      BY <2>1, <1>r DEF ClaimEmail, At, Reads, FinalizerPCs
    <3> QED BY <2>1, <3>1 DEF ClaimEmail, ClaimsDelivery, claimEmailDeliveryEnabled, Keys
  <2>2. CASE ManualReclaim(r)
    BY <2>2 DEF ManualReclaim, At, reclaimManualEmailDeliveryEnabled, ClaimsDelivery
  <2>3. CASE ManualClaim(r)
    BY <2>3 DEF ManualClaim, At, claimManualEmailDeliveryEnabled, ClaimsDelivery
  <2> QED BY <1>18, <2>1, <2>2, <2>3
<1>19. ASSUME MarkFinalized(r) \/ Catch(r) \/ StatementThrows(r) \/ Release(r) \/ Crash(r)
       PROVE  \/ /\ MarkFinalized(r) \/ Catch(r) \/ StatementThrows(r)
                 /\ Goto(r, "catch") /\ run[r].pc # "catch"
              \/ Catch(r) /\ Goto(r, "release")
              \/ Return(r)
  BY <1>19 DEF MarkFinalized, Catch, StatementThrows, Release, Crash, At, FinalizerPCs
<1> QED BY <1>1, <1>2, <1>3, <1>4, <1>5, <1>6, <1>7, <1>8, <1>9, <1>10, <1>11, <1>12, <1>13,
           <1>14, <1>15, <1>16, <1>17, <1>18, <1>19 DEF Step

\* An operator's request starts with nothing.
LEMMA Starter ==
    ASSUME TypeOK, NEW r \in Runs, NEW q \in Requests, NEW e \in Emails, StartResend(r, q, e)
    PROVE  Reads(r)' /\ Completes(r)' /\ Sends(r)'
<1>1. run'[r] = [IdleRun EXCEPT !.pc = "manual_reclaim", !.key = q, !.to = e]
  BY DEF StartResend, TypeOK
<1>2. run'[r].pc = "manual_reclaim" /\ run'[r].key = q /\ q # NULL /\ document'.finalized_at
  BY <1>1, NullIsNoRequest DEF IdleRun, StartResend, rowVars
<1> QED BY <1>2 DEF Reads, Completes, Sends, PastReload, PastIntent, AuditPCs, FinalizerPCs,
                    ResendPCs, SendPCs

-----------------------------------------------------------------------------
(* The lock and the finalized document.                                    *)

\* The owner keeps the document until the fate of its receipt is recorded.
LEMMA LockedStep ==
    ASSUME TypeOK, TypeOK', Receipts, [Next]_vars
    PROVE  Locked'
<1> SUFFICES ASSUME deliveries'[NULL].status = "PENDING", deliveries'[NULL].dispatched
             PROVE  /\ deliveries'[NULL].token # NULL
                    /\ Owner(deliveries[NULL].token)'
                    /\ email_started' /\ donor_email' # NULL
  BY DEF Locked
<1>t. /\ deliveries \in [Keys -> DeliveryRow] /\ run \in [Runs -> RunState] /\ NULL \in Keys
      /\ \A r \in Runs : run[r].key \in Keys
      /\ deliveries[NULL] \in DeliveryRow
  BY DEF TypeOK, RunState, Keys
<1>1. \/ /\ deliveries[NULL].status = "PENDING" /\ deliveries[NULL].dispatched
         /\ deliveries'[NULL].token = deliveries[NULL].token
      \/ /\ \E r \in Runs : MarkDelivery(r) /\ run[r].key = NULL /\ Holds(r)
                            /\ deliveries'[NULL].token = r
  <2>1. ASSUME NEW r \in Runs, ClaimsDelivery(r) PROVE <1>1!1
    BY <2>1, <1>t DEF ClaimsDelivery, Claimed, NoDelivery
  <2>2. ASSUME NEW r \in Runs, MarkDelivery(r) PROVE <1>1!1 \/ <1>1!2
    <3>1. \/ deliveries'[NULL] = deliveries[NULL]
          \/ /\ run[r].key = NULL /\ Holds(r)
             /\ deliveries'[NULL] = markEmailDeliveryDispatchStarted(deliveries[NULL])
      BY <2>2, <1>t DEF MarkDelivery, markEmailDeliveryDispatchStartedEnabled, Holds
    <3> QED BY <2>2, <3>1, <1>t DEF markEmailDeliveryDispatchStarted, DeliveryRow, Holds
  <2>3. ASSUME NEW r \in Runs, Record(r) PROVE <1>1!1
    <3>1. \/ deliveries'[NULL] = deliveries[NULL]
          \/ deliveries'[NULL] = finalizeEmailDeliveryClaim(deliveries[NULL], run[r].outcome)
      BY <2>3, <1>t DEF Record
    <3>2. finalizeEmailDeliveryClaim(deliveries[NULL], run[r].outcome).status # "PENDING"
      BY <1>t DEF finalizeEmailDeliveryClaim, DeliveryRow
    <3> QED BY <3>1, <3>2
  <2>4. ASSUME NEW k \in Keys, DeliveryLeaseExpires(k) PROVE <1>1!1
    BY <2>4, <1>t DEF DeliveryLeaseExpires, DeliveryRow
  <2>5. CASE UNCHANGED deliveries
    BY <2>5
  <2> QED BY <2>1, <2>2, <2>3, <2>4, <2>5, DeliverySteps
<1>2. CASE <1>1!1
  <2>1. PICK x \in Runs : x = deliveries[NULL].token
    BY <1>2, <1>t DEF Receipts, Locked, DeliveryRow, Runs
  <2>2. Owner(x) /\ email_started /\ donor_email # NULL
    BY <1>2, <2>1 DEF Receipts, Locked
  <2>3. run[x].pc \notin {"mark_finalized", "release"}
    BY <1>2, <2>1 DEF Receipts, Reads, Sends, Holds, FinalizerPCs
  <2> QED BY <1>2, <2>1, <2>2, <2>3, OwnerStays, NullIsNoId DEF Runs
<1>3. CASE <1>1!2
  <2>1. PICK r \in Runs : /\ MarkDelivery(r) /\ run[r].key = NULL /\ Holds(r)
                          /\ deliveries'[NULL].token = r
    BY <1>3
  <2>2. Owner(r) /\ email_started /\ UNCHANGED rowVars
    BY <2>1 DEF MarkDelivery, At, Receipts, Sends
  <2>3. donor_email # NULL
    BY <2>1, <2>2 DEF MarkDelivery, At, Receipts, Reads, PastReload, SendPCs
  <2> QED BY <2>1, <2>2, <2>3, NullIsNoId DEF Runs, rowVars, Owner, Holds
<1> QED BY <1>1, <1>2, <1>3

\* What finalizing promises is not taken back.
LEMMA FinalizedStep ==
    ASSUME TypeOK, TypeOK', Receipts, [Next]_vars
    PROVE  FinalizedIsComplete'
<1> SUFFICES ASSUME document'.finalized_at PROVE FinalizedIsComplete'
  BY DEF FinalizedIsComplete
<1> USE DEF rowVars, mailVars
<1>t. document \in DteRow
  BY DEF TypeOK
<1>1. ASSUME NEW r \in Runs, FinClaim(r) \/ Step(r) \/ Crash(r)
      PROVE  FinalizedIsComplete'
  <2>1. CASE document.finalized_at
    BY <1>1, <2>1, OwnerStep DEF Receipts, FinalizedIsComplete
  <2>2. CASE ~document.finalized_at
    <3>1. MarkFinalized(r)
      BY <1>1, <2>2, <1>t, Frames DEF Receipts, FinClaim, MarkDocument, Release, DteRow,
         claimDocumentPostAcceptFinalization, releaseDocumentPostAcceptFinalization
    <3>2. run[r].pc = "mark_finalized" /\ run[r].key = NULL
      BY <3>1 DEF MarkFinalized, At, Receipts, Reads, FinalizerPCs
    <3>3. /\ intent \in {"NONE", "COMPLETED"}
          /\ {"DTE_ACCEPTED", "DTE_ACCEPTED_FINALIZED"} \subseteq audits
          /\ intent = "COMPLETED" => "DONATION_INTENT_COMPLETED" \in audits
      BY <3>2 DEF Receipts, Completes, PastIntent, AuditPCs
    <3> QED BY <3>1, <3>3 DEF MarkFinalized, FinalizedIsComplete
  <2> QED BY <2>1, <2>2
<1>2. ASSUME NEW r \in Runs, NEW q \in Requests, NEW e \in Emails, StartResend(r, q, e)
      PROVE  UNCHANGED <<document, audits, intent>>
  BY <1>2 DEF StartResend
<1>3. ASSUME NEW e \in Emails, updateDocumentDonorEmail(e)
      PROVE  UNCHANGED <<document, audits, intent>>
  BY <1>3 DEF updateDocumentDonorEmail
<1>4. ASSUME NEW k \in Keys, DeliveryLeaseExpires(k) PROVE UNCHANGED <<document, audits, intent>>
  BY <1>4 DEF DeliveryLeaseExpires
<1>5. CASE FinLeaseExpires \/ UNCHANGED vars
  BY <1>5 DEF FinLeaseExpires, vars, Receipts, FinalizedIsComplete
<1>6. CASE switchIntentToN1co
  BY <1>6 DEF switchIntentToN1co, Receipts, FinalizedIsComplete
<1> QED BY <1>1, <1>2, <1>3, <1>4, <1>5, <1>6 DEF Next, Receipts, FinalizedIsComplete

-----------------------------------------------------------------------------
(* The theorems.                                                           *)

\* Every step keeps the invariant.
LEMMA ReceiptsStep == TypeOK /\ TypeOK' /\ Receipts /\ [Next]_vars => Receipts'
<1> SUFFICES ASSUME TypeOK, TypeOK', Receipts, [Next]_vars PROVE Receipts'
  OBVIOUS
<1>1. ASSUME NEW x \in Runs PROVE Reads(x)' /\ Completes(x)' /\ Sends(x)'
  <2>1. ASSUME NEW r \in Runs, FinClaim(r) \/ Step(r) \/ Crash(r), r # x
        PROVE  run'[x] = run[x]
    BY <2>1, Frames DEF Receipts
  <2>2. ASSUME NEW r \in Runs, NEW q \in Requests, NEW e \in Emails, StartResend(r, q, e), r # x
        PROVE  run'[x] = run[x]
    BY <2>2 DEF StartResend, TypeOK
  <2>3. ASSUME \/ \E e \in Emails : updateDocumentDonorEmail(e)
               \/ \E k \in Keys : DeliveryLeaseExpires(k)
               \/ switchIntentToN1co \/ FinLeaseExpires \/ UNCHANGED vars
        PROVE  run'[x] = run[x]
    BY <2>3 DEF updateDocumentDonorEmail, DeliveryLeaseExpires, switchIntentToN1co,
       FinLeaseExpires, vars
  <2> QED BY <2>1, <2>2, <2>3, Mover, Starter, Bystander DEF Next
<1>2. (\A k \in Keys : Mailed(k)') /\ OneUnresolved'
  BY RowsStep
<1>3. Locked' /\ FinalizedIsComplete'
  BY LockedStep, FinalizedStep
<1> QED BY <1>1, <1>2, <1>3 DEF Receipts

\* The invariant holds in every state, for any number of overlapping
\* finalizers and resends.
THEOREM InvariantHolds == Spec => [](TypeOK /\ Receipts)
<1>1. Init => TypeOK /\ Receipts
  <2> SUFFICES ASSUME Init PROVE TypeOK /\ Receipts
    OBVIOUS
  <2>1. TypeOK
    BY InitTypes
  <2>2. \A r \in Runs : run[r] = IdleRun /\ run[r].pc = "idle"
    BY DEF Init, IdleRun
  <2>3. \A r \in Runs : Reads(r) /\ Completes(r) /\ Sends(r)
    BY <2>2 DEF Reads, Completes, Sends, PastReload, PastIntent, AuditPCs, FinalizerPCs,
                ResendPCs, SendPCs
  <2>4. \A k \in Keys : outbox[k] = 0 /\ deliveries[k].status = "NONE"
    BY DEF Init, NoDelivery
  <2>5. ~document.finalized_at
    BY DEF Init, createDteDocument
  <2> QED BY <2>1, <2>3, <2>4, <2>5 DEF Receipts, Mailed, OneUnresolved, Locked, Unresolved,
                                        FinalizedIsComplete, Keys
<1>2. TypeOK /\ Receipts /\ [Next]_vars => (TypeOK /\ Receipts)'
  BY TypeStep, ReceiptsStep
<1> QED BY <1>1, <1>2, PTL DEF Spec

\* The provider accepts at most one mail per claim of email_deliveries, and
\* nothing is sent, and the document stays locked, while the fate of one is open.
THEOREM OneReceipt == Spec => []AtMostOneReceipt
<1>1. TypeOK /\ Receipts => AtMostOneReceipt
  <2> SUFFICES ASSUME TypeOK, Receipts PROVE AtMostOneReceipt
    OBVIOUS
  <2>1. \A k \in Keys : outbox[k] <= 1
    BY DEF Receipts, Mailed
  <2>2. UncertainReceiptIsLocked
    BY DEF Receipts, Locked, Owner, UncertainReceiptIsLocked
  <2>3. NoSendWhileUncertain
    <3> SUFFICES ASSUME NEW r \in Runs, At(r, "send"), NEW k \in Keys \ {run[r].key},
                        Unresolved(deliveries[k])
                 PROVE  FALSE
      BY DEF NoSendWhileUncertain
    <3>1. run[r].key \in Keys
      BY DEF TypeOK, RunState
    <3>2. Unresolved(deliveries[run[r].key])
      BY DEF Receipts, Sends, Holds, At, Unresolved
    <3> QED BY <3>1, <3>2 DEF Receipts, OneUnresolved
  <2> QED BY <2>1, <2>2, <2>3 DEF AtMostOneReceipt
<1> QED BY <1>1, InvariantHolds, PTL

\* The automatic receipt leaves for the address the document has.
THEOREM Recipient == Spec => []RecipientIsCurrent
<1>1. TypeOK /\ Receipts => RecipientIsCurrent
  <2> SUFFICES ASSUME TypeOK, Receipts, NEW r \in Runs, At(r, "send"), run[r].key = NULL
               PROVE  run[r].to = donor_email
    BY DEF RecipientIsCurrent
  <2>1. Owner(r)
    BY DEF Receipts, Sends, Holds, Locked, At
  <2> QED BY <2>1 DEF Receipts, Reads, At, PastReload, SendPCs
<1> QED BY <1>1, InvariantHolds, PTL

\* A finalized document has its intent completed and its acceptance audited.
THEOREM Finalized == Spec => []FinalizedIsComplete
<1>1. TypeOK /\ Receipts => FinalizedIsComplete
  BY DEF Receipts
<1> QED BY <1>1, InvariantHolds, PTL

=============================================================================
