----------------------- MODULE FiscalOperationsProofs -----------------------
(***************************************************************************)
(* Proofs about FiscalOperations, for any set of documents and any number  *)
(* of overlapping handler runs.                                            *)
(***************************************************************************)
EXTENDS FiscalOperations, TLAPS

-----------------------------------------------------------------------------
(* Type correctness.                                                       *)

\* Every statement of dteDocuments.ts writes a row of dte_documents.
LEMMA RowTypes ==
    ASSUME NEW row \in DteRow, NEW id \in Ids, NEW accepted \in BOOLEAN
    PROVE  /\ createDteDocument \in DteRow
           /\ WithoutOperation(row) \in DteRow
           /\ updateDocumentSigned(row) \in DteRow
           /\ claimDocumentTransmission(row, id) \in DteRow
           /\ completeDocumentTransmission(row, accepted) \in DteRow
           /\ markDocumentFailed(row) \in DteRow
           /\ releaseDocumentFiscalOperation(row) \in DteRow
           /\ markDocumentTransmissionDeferred(row) \in DteRow
           /\ claimDocumentInvalidation(row, id) \in DteRow
           /\ createAndAttachDocumentInvalidationEvent(row, id) \in DteRow
           /\ completeDocumentInvalidation(row, accepted) \in DteRow
           /\ claimDocumentPostAcceptFinalization(row, id) \in DteRow
           /\ releaseDocumentPostAcceptFinalization(row) \in DteRow
           /\ markDocumentPostAcceptFinalized(row) \in DteRow
<1>1. createDteDocument \in DteRow /\ WithoutOperation(row) \in DteRow
  BY DEF DteRow, DteStatus, createDteDocument, WithoutOperation
<1>2. /\ updateDocumentSigned(row) \in DteRow
      /\ claimDocumentTransmission(row, id) \in DteRow
      /\ completeDocumentTransmission(row, accepted) \in DteRow
  BY DEF DteRow, DteStatus, WithoutOperation, updateDocumentSigned, claimDocumentTransmission,
         completeDocumentTransmission
<1>3. /\ markDocumentFailed(row) \in DteRow
      /\ releaseDocumentFiscalOperation(row) \in DteRow
      /\ markDocumentTransmissionDeferred(row) \in DteRow
  BY DEF DteRow, DteStatus, WithoutOperation, markDocumentFailed, releaseDocumentFiscalOperation,
         markDocumentTransmissionDeferred
<1>4. /\ claimDocumentInvalidation(row, id) \in DteRow
      /\ createAndAttachDocumentInvalidationEvent(row, id) \in DteRow
      /\ completeDocumentInvalidation(row, accepted) \in DteRow
  BY DEF DteRow, DteStatus, WithoutOperation, claimDocumentInvalidation,
         createAndAttachDocumentInvalidationEvent, completeDocumentInvalidation
<1>5. /\ claimDocumentPostAcceptFinalization(row, id) \in DteRow
      /\ releaseDocumentPostAcceptFinalization(row) \in DteRow
      /\ markDocumentPostAcceptFinalized(row) \in DteRow
  BY DEF DteRow, claimDocumentPostAcceptFinalization, releaseDocumentPostAcceptFinalization,
         markDocumentPostAcceptFinalized
<1> QED BY <1>1, <1>2, <1>3, <1>4, <1>5

\* A handler's locals keep their type when it moves on, returns or begins.
LEMMA RunTypes ==
    ASSUME run \in [Runs -> RunState], NEW r \in Runs
    PROVE  /\ Return(r) => run' \in [Runs -> RunState]
           /\ \A pc \in PCs : Goto(r, pc) => run' \in [Runs -> RunState]
<1>1. IdleRun \in RunState
  BY DEF RunState, IdleRun, PCs, Kinds, DteStatus
<1>2. Return(r) => run' \in [Runs -> RunState]
  BY <1>1 DEF Return
<1>3. ASSUME NEW pc \in PCs, Goto(r, pc) PROVE run' \in [Runs -> RunState]
  <2>1. [run[r] EXCEPT !.pc = pc] \in RunState
    BY DEF RunState
  <2> QED BY <1>3, <2>1 DEF Goto
<1> QED BY <1>2, <1>3

\* Writing a well-typed row keeps the table well-typed.
LEMMA SetRowType ==
    ASSUME dte_documents \in [Docs -> DteRow], NEW r, NEW row,
           run[r].doc \in Docs => row \in DteRow, SetRow(r, row)
    PROVE  dte_documents' \in [Docs -> DteRow]
  BY DEF SetRow

\* The same for a guarded UPDATE.
LEMMA UpdateRowType ==
    ASSUME dte_documents \in [Docs -> DteRow], NEW r, NEW row, NEW enabled \in BOOLEAN,
           run[r].doc \in Docs => row \in DteRow, UpdateRow(r, enabled, row)
    PROVE  dte_documents' \in [Docs -> DteRow]
<1>1. run[r].doc \in Docs => Row(r) \in DteRow
  BY DEF Row
<1> QED BY <1>1, SetRowType DEF UpdateRow

\* Recording an event keeps dte_events well-typed.
LEMMA SetEventType ==
    ASSUME dte_events \in [Runs -> EventRow], NEW e \in Runs, NEW doc \in Docs \cup {NULL},
           NEW status \in {"NONE", "SIGNED", "FAILED", "ACCEPTED", "REJECTED"},
           SetEvent(e, status, doc)
    PROVE  dte_events' \in [Runs -> EventRow]
<1>1. [status |-> status, document_id |-> doc] \in EventRow
  BY DEF EventRow
<1> QED BY <1>1 DEF SetEvent

\* A handler that reads its document and begins has well-typed locals.
LEMMA BeginType ==
    ASSUME TypeOK, NEW r \in Runs, NEW d \in Docs, NEW kind \in Kinds, NEW pc \in PCs,
           Begin(r, d, kind, pc)
    PROVE  TypeOK'
<1>1. dte_documents[d] \in DteRow
  BY DEF TypeOK
<1>2. [pc |-> pc, kind |-> kind, doc |-> d, status |-> dte_documents[d].status,
       deferred |-> dte_documents[d].deferred_at, verdict |-> "NONE"] \in RunState
  BY <1>1 DEF RunState, DteRow
<1> QED BY <1>2 DEF TypeOK, Begin, mhVars

\* Every step of every handler keeps the types.
LEMMA TypeStep == TypeOK /\ [Next]_vars => TypeOK'
<1> SUFFICES ASSUME TypeOK, [Next]_vars PROVE TypeOK'
  OBVIOUS
<1> USE DEF PCs, Kinds
<1>a. ASSUME NEW r \in Runs, NEW d \in Docs, Start(r, d) PROVE TypeOK'
  <2>1. CASE StartProcess(r, d)
    BY <2>1, BeginType DEF StartProcess
  <2>2. CASE StartSweep(r, d)
    BY <2>2, BeginType DEF StartSweep
  <2>3. CASE StartRetry(r, d)
    BY <2>3, BeginType DEF StartRetry
  <2>4. CASE StartInvalidate(r, d)
    BY <2>4, BeginType DEF StartInvalidate
  <2>5. CASE StartFinalize(r, d)
    BY <2>5, BeginType DEF StartFinalize
  <2> QED BY <1>a, <2>1, <2>2, <2>3, <2>4, <2>5 DEF Start
<1>b. ASSUME NEW r \in Runs, Step(r) \/ Crash(r) PROVE TypeOK'
  <2> USE DEF mhVars
  <2>t. /\ dte_documents \in [Docs -> DteRow]
        /\ dte_events \in [Runs -> EventRow]
        /\ run \in [Runs -> RunState]
        /\ posts \in [Docs -> Nat]
        /\ recepcion \in [Docs -> MhTruth]
        /\ anulacion \in [Runs -> MhTruth]
    BY DEF TypeOK
  <2>r. run[r].doc \in Docs => Row(r) \in DteRow
    BY <2>t DEF Row
  <2>s. run[r].doc \in Docs \cup {NULL}
    BY <2>t DEF RunState
  <2>g. \A pc \in PCs : Goto(r, pc) => run' \in [Runs -> RunState]
    BY <2>t, RunTypes
  <2>h. Return(r) => run' \in [Runs -> RunState]
    BY <2>t, RunTypes
  <2>w. ASSUME NEW enabled \in BOOLEAN, NEW row, run[r].doc \in Docs => row \in DteRow,
               UpdateRow(r, enabled, row)
        PROVE  dte_documents' \in [Docs -> DteRow]
    BY <2>t, <2>w, UpdateRowType
  <2>i. ASSUME NEW truth, NEW complete \in PCs, ReadReply(r, truth, complete)
        PROVE  TypeOK'
    <3>1. PICK reply \in MhReply :
             IF parseMhResponse(reply) = "AMBIGUOUS"
               THEN Return(r)
               ELSE run' = [run EXCEPT ![r].pc = complete,
                                       ![r].verdict = parseMhResponse(reply)]
      BY <2>i DEF ReadReply
    <3>2. parseMhResponse(reply) \in {"AMBIGUOUS", "ACCEPTED", "REJECTED"}
      BY DEF parseMhResponse
    <3>3. parseMhResponse(reply) # "AMBIGUOUS" =>
            [run[r] EXCEPT !.pc = complete, !.verdict = parseMhResponse(reply)] \in RunState
      BY <2>t, <3>2 DEF RunState
    <3>4. run' \in [Runs -> RunState]
      BY <2>t, <2>h, <3>1, <3>3
    <3> QED BY <2>i, <2>t, <3>4 DEF ReadReply, TypeOK
  <2>1. CASE Sign(r)
    <3>1. dte_documents' \in [Docs -> DteRow]
      BY <2>1, <2>r, <2>w, RowTypes DEF Sign, updateDocumentSignedEnabled, Runs
    <3>2. run' \in [Runs -> RunState]
      <4>1. [run[r] EXCEPT !.pc = "claim", !.status = "SIGNED"] \in RunState
        <5>1. run[r] \in RunState /\ "claim" \in PCs /\ "SIGNED" \in DteStatus
          BY <2>t DEF DteStatus
        <5> QED BY <5>1 DEF RunState
      <4> QED BY <2>1, <4>1, <2>t, <2>h DEF Sign
    <3> QED BY <2>1, <2>t, <3>1, <3>2 DEF Sign, TypeOK
  <2>2. CASE SignThrows(r)
    <3>1. dte_documents' \in [Docs -> DteRow]
      BY <2>2, <2>r, <2>w, RowTypes DEF SignThrows, updateDocumentSignedEnabled, Runs
    <3> QED BY <2>2, <2>t, <2>g, <2>h, <3>1 DEF SignThrows, TypeOK
  <2>3. CASE Catch(r)
    BY <2>3, <2>t, <2>g, <2>h DEF Catch, TypeOK
  <2>4. CASE MarkFailed(r)
    <3>1. dte_documents' \in [Docs -> DteRow]
      BY <2>4, <2>r, <2>w, RowTypes DEF MarkFailed, markDocumentFailedEnabled, isTerminalDteStatus, Runs
    <3> QED BY <2>4, <2>t, <2>g, <2>h, <3>1 DEF MarkFailed, TypeOK
  <2>5. CASE Claim(r)
    <3>1. dte_documents' \in [Docs -> DteRow]
      BY <2>5, <2>r, <2>w, RowTypes DEF Claim, claimDocumentTransmissionEnabled, Runs
    <3> QED BY <2>5, <2>t, <2>g, <2>h, <3>1 DEF Claim, TypeOK
  <2>6. CASE TokenFails(r)
    BY <2>6, <2>t, <2>g, <2>h DEF TokenFails, TypeOK
  <2>7. CASE PreDispatchFailed(r)
    <3>1. dte_documents' \in [Docs -> DteRow]
      BY <2>7, <2>r, <2>w, RowTypes DEF PreDispatchFailed, markDocumentTransmissionDeferredEnabled, releaseDocumentFiscalOperationEnabled, Runs
    <3> QED BY <2>7, <2>t, <2>g, <2>h, <3>1 DEF PreDispatchFailed, TypeOK
  <2>8. CASE Post(r)
    <3>1. posts' \in [Docs -> Nat]
      <4>1. posts' = [posts EXCEPT ![run[r].doc] = posts[run[r].doc] + 1]
        BY <2>8 DEF Post
      <4>2. \A d \in Docs : posts[d] + 1 \in Nat
        BY <2>t
      <4> QED BY <4>1, <4>2, <2>t
    <3>2. recepcion' \in [Docs -> MhTruth]
      BY <2>8, <2>t DEF Post, MhTruth
    <3>3. run' \in [Runs -> RunState]
      BY <2>8, <2>g DEF Post
    <3> QED BY <2>8, <2>t, <3>1, <3>2, <3>3 DEF Post, TypeOK
  <2>9. CASE Reply(r)
    BY <2>9, <2>i DEF Reply
  <2>10. CASE Complete(r)
    <3>1. dte_documents' \in [Docs -> DteRow]
      BY <2>10, <2>r, <2>w, RowTypes DEF Complete, completeDocumentTransmissionEnabled, Runs
    <3> QED BY <2>10, <2>t, <2>g, <2>h, <3>1 DEF Complete, TypeOK
  <2>11. CASE FinClaim(r)
    <3>1. dte_documents' \in [Docs -> DteRow]
      BY <2>11, <2>r, <2>w, RowTypes DEF FinClaim, claimDocumentPostAcceptFinalizationEnabled, Runs
    <3> QED BY <2>11, <2>t, <2>g, <2>h, <3>1 DEF FinClaim, TypeOK
  <2>12. CASE FinMark(r)
    <3>1. dte_documents' \in [Docs -> DteRow]
      BY <2>12, <2>r, <2>w, RowTypes DEF FinMark, markDocumentPostAcceptFinalizedEnabled, Runs
    <3> QED BY <2>12, <2>t, <2>g, <2>h, <3>1 DEF FinMark, TypeOK
  <2>13. CASE FinRelease(r)
    <3>1. dte_documents' \in [Docs -> DteRow]
      BY <2>13, <2>r, <2>w, RowTypes DEF FinRelease, releaseDocumentPostAcceptFinalizationEnabled, Runs
    <3> QED BY <2>13, <2>t, <2>g, <2>h, <3>1 DEF FinRelease, TypeOK
  <2>14. CASE InvClaim(r)
    <3>1. dte_documents' \in [Docs -> DteRow]
      BY <2>14, <2>r, <2>w, RowTypes DEF InvClaim, claimDocumentInvalidationEnabled, Runs
    <3> QED BY <2>14, <2>t, <2>g, <2>h, <3>1 DEF InvClaim, TypeOK
  <2>15. CASE InvAttach(r)
    <3>1. dte_documents' \in [Docs -> DteRow]
      BY <2>15, <2>t, <2>r, SetRowType, RowTypes DEF InvAttach, Runs
    <3>2. dte_events' \in [Runs -> EventRow]
      BY <2>15, <2>t, <2>s, SetEventType DEF InvAttach
    <3> QED BY <2>15, <2>t, <2>g, <2>h, <3>1, <3>2 DEF InvAttach, TypeOK
  <2>16. CASE InvRelease(r)
    <3>1. dte_documents' \in [Docs -> DteRow]
      BY <2>16, <2>r, <2>w, RowTypes DEF InvRelease, releaseDocumentFiscalOperationEnabled, Runs
    <3> QED BY <2>16, <2>t, <2>g, <2>h, <3>1 DEF InvRelease, TypeOK
  <2>17. CASE InvTokenFails(r)
    BY <2>17, <2>t, <2>g, <2>h DEF InvTokenFails, TypeOK
  <2>18. CASE InvPreDispatchFailed(r)
    <3>1. dte_documents' \in [Docs -> DteRow]
      BY <2>18, <2>t, <2>r, SetRowType, RowTypes DEF InvPreDispatchFailed, Runs
    <3>2. dte_events' \in [Runs -> EventRow]
      BY <2>18, <2>t, <2>s, SetEventType DEF InvPreDispatchFailed
    <3> QED BY <2>18, <2>t, <2>g, <2>h, <3>1, <3>2 DEF InvPreDispatchFailed, TypeOK
  <2>19. CASE InvPost(r)
    <3>1. anulacion' \in [Runs -> MhTruth]
      BY <2>19, <2>t DEF InvPost, MhTruth
    <3> QED BY <2>19, <2>t, <2>g, <3>1 DEF InvPost, TypeOK
  <2>20. CASE InvReply(r)
    BY <2>20, <2>i DEF InvReply
  <2>21. CASE InvComplete(r)
    <3>1. dte_documents' \in [Docs -> DteRow]
      BY <2>21, <2>t, <2>r, SetRowType, RowTypes DEF InvComplete, Runs
    <3>2. dte_events' \in [Runs -> EventRow]
      BY <2>21, <2>t, <2>s, SetEventType DEF InvComplete, RunState, MhReply
    <3> QED BY <2>21, <2>t, <2>g, <2>h, <3>1, <3>2 DEF InvComplete, TypeOK
  <2>22. CASE Crash(r)
    BY <2>22, <2>t, <2>g, <2>h DEF Crash, TypeOK
  <2> QED BY <1>b, <2>1, <2>2, <2>3, <2>4, <2>5, <2>6, <2>7, <2>8, <2>9, <2>10, <2>11, <2>12, <2>13, <2>14, <2>15, <2>16, <2>17, <2>18, <2>19, <2>20, <2>21, <2>22 DEF Step
<1>c. ASSUME NEW r \in Runs, MhAnulacion(r) PROVE TypeOK'
  BY <1>c DEF MhAnulacion, TypeOK, MhTruth
<1>d. ASSUME NEW d \in Docs, MhRecepcion(d) PROVE TypeOK'
  BY <1>d DEF MhRecepcion, TypeOK, MhTruth
<1>e. CASE UNCHANGED vars
  BY <1>e DEF vars, TypeOK
<1> QED BY <1>a, <1>b, <1>c, <1>d, <1>e DEF Next

\* The columns, the handlers' locals and the Ministry's state always have
\* their types: no statement of the handlers writes a value outside the
\* schema.
THEOREM TypeCorrect == Spec => []TypeOK
<1>1. Init => TypeOK
  <2> SUFFICES ASSUME Init PROVE TypeOK
    OBVIOUS
  <2>1. createDteDocument \in DteRow
    BY DEF createDteDocument, DteRow, DteStatus
  <2>2. IdleRun \in RunState
    BY DEF IdleRun, RunState, PCs, Kinds, DteStatus
  <2>3. NoEvent \in EventRow
    BY DEF NoEvent, EventRow
  <2> QED BY <2>1, <2>2, <2>3 DEF Init, TypeOK, MhTruth
<1> QED BY <1>1, TypeStep, PTL DEF Spec

-----------------------------------------------------------------------------
(* The claim protocol.  A step of run r on document c is confined: it      *)
(* leaves everybody else alone, and leaves c alone too when another run    *)
(* holds c's claim.  A confined step keeps the protocol if it keeps what   *)
(* r itself, its row and its event know.                                   *)

\* Nothing another claim holder relies on has changed in document c.
SameOperation(c) ==
    /\ posts'[c] = posts[c]
    /\ recepcion'[c] = recepcion[c]
    /\ dte_documents'[c].status = dte_documents[c].status
    /\ dte_documents'[c].op_claim = dte_documents[c].op_claim
    /\ dte_documents'[c].op_kind = dte_documents[c].op_kind
    /\ dte_documents'[c].op_event = dte_documents[c].op_event

Confined(r, c) ==
    /\ \A q \in Runs \ {r} : /\ run'[q] = run[q]
                             /\ dte_events'[q] = dte_events[q]
                             /\ anulacion'[q] = anulacion[q]
    /\ \A d \in Docs \ {c} : /\ dte_documents'[d] = dte_documents[d]
                             /\ posts'[d] = posts[d]
                             /\ recepcion'[d] = recepcion[d]
    /\ dte_documents[c].op_claim \notin {r, NULL} => SameOperation(c)
    /\ dte_documents[c].status = "INVALIDATED" => dte_documents'[c].status = "INVALIDATED"
    /\ dte_documents'[c].status = "INVALIDATED" =>
         \/ dte_documents[c].status = "INVALIDATED"
         \/ /\ dte_events'[r] = [status |-> "ACCEPTED", document_id |-> c]
            /\ anulacion'[r] = "PROCESADO"
    /\ dte_events[r].status = "ACCEPTED" =>
         dte_events'[r] = dte_events[r] /\ anulacion'[r] = anulacion[r]
    /\ dte_events'[r].status = "ACCEPTED" =>
         \/ dte_events'[r] = dte_events[r]
         \/ dte_documents[c].status # "INVALIDATED" /\ dte_events'[r].document_id = c

\* A confined step keeps the protocol.
LEMMA ConfinedStep ==
    ASSUME TypeOK, ClaimProtocol, NEW r \in Runs, NEW c \in Docs, Confined(r, c),
           RunKnows(r)', RowKnows(c)', EventKnows(r)'
    PROVE  ClaimProtocol'
<1>1. ASSUME NEW q \in Runs PROVE RunKnows(q)'
  <2>1. CASE q = r
    BY <2>1
  <2>2. CASE q # r /\ run[q].pc = "idle"
    BY <2>2 DEF Confined, RunKnows
  <2>3. CASE q # r /\ run[q].pc # "idle"
    <3>1. /\ run'[q] = run[q] /\ dte_events'[q] = dte_events[q] /\ anulacion'[q] = anulacion[q]
          /\ run[q].doc \in Docs /\ RunKnows(q)
      BY <2>3 DEF Confined, ClaimProtocol, RunKnows
    <3>2. CASE run[q].doc # c
      <4>1. /\ dte_documents'[run[q].doc] = dte_documents[run[q].doc]
            /\ posts'[run[q].doc] = posts[run[q].doc]
            /\ recepcion'[run[q].doc] = recepcion[run[q].doc]
        BY <3>1, <3>2 DEF Confined
      <4> QED BY <3>1, <4>1 DEF RunKnows, OwnsTransmission, OwnsInvalidation, Row
    <3>3. CASE run[q].doc = c /\ dte_documents[c].op_claim = q
      <4>1. SameOperation(c)
        BY <2>3, <3>3, NullIsNoId DEF Confined, Runs
      <4> QED BY <3>1, <3>3, <4>1
          DEF RunKnows, OwnsTransmission, OwnsInvalidation, Row, SameOperation
    <3>4. CASE run[q].doc = c /\ dte_documents[c].op_claim # q
      BY <3>1, <3>4 DEF RunKnows, OwnsTransmission, OwnsInvalidation, Row
    <3> QED BY <3>2, <3>3, <3>4
  <2> QED BY <2>1, <2>2, <2>3
<1>2. ASSUME NEW d \in Docs PROVE RowKnows(d)'
  <2>1. CASE d = c
    BY <2>1
  <2>2. CASE d # c
    <3>1. RowKnows(d)
      BY DEF ClaimProtocol
    <3> QED BY <2>2, <3>1 DEF Confined, RowKnows
  <2> QED BY <2>1, <2>2
<1>3. ASSUME NEW e \in Runs PROVE EventKnows(e)'
  <2>1. CASE e = r
    BY <2>1
  <2>2. CASE e # r
    <3>1. dte_events'[e] = dte_events[e] /\ anulacion'[e] = anulacion[e] /\ EventKnows(e)
      BY <2>2 DEF Confined, ClaimProtocol
    <3>2. CASE anulacion[e] \notin {"IN_FLIGHT", "PROCESADO"}
      BY <3>1, <3>2 DEF EventKnows
    <3>3. CASE anulacion[e] \in {"IN_FLIGHT", "PROCESADO"}
      <4>1. dte_events[e].document_id \in Docs
        BY <3>1, <3>3 DEF EventKnows
      <4>2. CASE dte_events[e].document_id # c
        BY <3>1, <4>1, <4>2 DEF EventKnows, Confined, OwnsInvalidation
      <4>3. CASE dte_events[e].document_id = c
        <5>1. \/ dte_events[e].status = "ACCEPTED" /\ dte_documents[c].status = "INVALIDATED"
              \/ dte_events[e].status = "SIGNED" /\ OwnsInvalidation(dte_documents[c], e, e)
          BY <3>1, <3>3, <4>3 DEF EventKnows
        <5>2. OwnsInvalidation(dte_documents[c], e, e) => OwnsInvalidation(dte_documents'[c], e, e)
          BY <2>2, NullIsNoId DEF Confined, Runs, OwnsInvalidation, SameOperation
        <5>3. dte_documents[c].status = "INVALIDATED" => dte_documents'[c].status = "INVALIDATED"
          BY DEF Confined
        <5> QED BY <3>1, <4>1, <4>3, <5>1, <5>2, <5>3 DEF EventKnows
      <4> QED BY <4>2, <4>3
    <3> QED BY <3>2, <3>3
  <2> QED BY <2>1, <2>2
<1>4. InvalidatedHasEvent'
  <2> SUFFICES ASSUME NEW d \in Docs, dte_documents'[d].status = "INVALIDATED"
               PROVE  \E e \in Runs :
                         /\ dte_events'[e] = [status |-> "ACCEPTED", document_id |-> d]
                         /\ anulacion'[e] = "PROCESADO"
    BY DEF InvalidatedHasEvent
  <2>1. CASE dte_documents[d].status = "INVALIDATED"
    <3>1. PICK e \in Runs : /\ dte_events[e] = [status |-> "ACCEPTED", document_id |-> d]
                           /\ anulacion[e] = "PROCESADO"
      BY <2>1 DEF ClaimProtocol, InvalidatedHasEvent
    <3>2. dte_events'[e] = dte_events[e] /\ anulacion'[e] = anulacion[e]
      BY <3>1 DEF Confined
    <3> QED BY <3>1, <3>2
  <2>2. CASE dte_documents[d].status # "INVALIDATED"
    <3>1. d = c
      BY <2>2 DEF Confined
    <3> QED BY <2>2, <3>1 DEF Confined
  <2> QED BY <2>1, <2>2
<1>5. OneAcceptedEvent'
  <2> SUFFICES ASSUME NEW e \in Runs, NEW f \in Runs,
                      dte_events'[e].status = "ACCEPTED", dte_events'[f].status = "ACCEPTED",
                      dte_events'[e].document_id = dte_events'[f].document_id
               PROVE  e = f
    BY DEF OneAcceptedEvent
  <2>1. ASSUME NEW q \in Runs, dte_events[q].status = "ACCEPTED"
        PROVE  dte_documents[dte_events[q].document_id].status = "INVALIDATED"
    BY <2>1 DEF ClaimProtocol, EventKnows
  <2>2. CASE dte_events'[e] = dte_events[e] /\ dte_events'[f] = dte_events[f]
    BY <2>2 DEF ClaimProtocol, OneAcceptedEvent
  <2>3. CASE e # r /\ f = r /\ dte_events'[r] # dte_events[r]
    BY <2>1, <2>3 DEF Confined
  <2>4. CASE e = r /\ f # r /\ dte_events'[r] # dte_events[r]
    BY <2>1, <2>4 DEF Confined
  <2> QED BY <2>2, <2>3, <2>4 DEF Confined
<1> QED BY <1>1, <1>2, <1>3, <1>4, <1>5 DEF ClaimProtocol

\* A step that only moves its own run keeps the protocol if the run still
\* knows what it should.
LEMMA LocalStep ==
    ASSUME TypeOK, ClaimProtocol, NEW r \in Runs, NEW c \in Docs,
           \A q \in Runs \ {r} : run'[q] = run[q],
           UNCHANGED <<dte_documents, dte_events, mhVars>>, RunKnows(r)'
    PROVE  ClaimProtocol'
<1>1. Confined(r, c)
  BY DEF Confined, SameOperation, mhVars
<1>2. RowKnows(c)'
  <2>1. RowKnows(c)
    BY DEF ClaimProtocol
  <2> QED BY <2>1 DEF RowKnows, mhVars
<1>3. EventKnows(r)'
  <2>1. EventKnows(r)
    BY DEF ClaimProtocol
  <2> QED BY <2>1 DEF EventKnows, mhVars
<1> QED BY <1>1, <1>2, <1>3, ConfinedStep

\* A step whose only write is an UPDATE of its own document's row.
LEMMA RowStep ==
    ASSUME TypeOK, ClaimProtocol, NEW r \in Runs, NEW c \in Docs,
           \A q \in Runs \ {r} : run'[q] = run[q],
           \A d \in Docs \ {c} : dte_documents'[d] = dte_documents[d],
           UNCHANGED <<dte_events, mhVars>>,
           anulacion[r] = "NONE",
           dte_documents[c].op_claim \notin {r, NULL} => SameOperation(c),
           dte_documents'[c].status = "INVALIDATED" <=> dte_documents[c].status = "INVALIDATED",
           RunKnows(r)', RowKnows(c)'
    PROVE  ClaimProtocol'
<1>1. Confined(r, c)
  BY DEF Confined, mhVars
<1>2. EventKnows(r)'
  <2>1. EventKnows(r)
    BY DEF ClaimProtocol
  <2> QED BY <2>1 DEF EventKnows, mhVars
<1> QED BY <1>1, <1>2, ConfinedStep

\* A definitive answer is the Ministry's verdict.
LEMMA ReplyIsTrue ==
    ASSUME NEW truth, NEW reply \in MhReply, MhCanReply(truth, reply),
           parseMhResponse(reply) # "AMBIGUOUS"
    PROVE  /\ parseMhResponse(reply) # "NONE"
           /\ truth = IF parseMhResponse(reply) = "ACCEPTED" THEN "PROCESADO" ELSE "RECHAZADO"
  BY DEF MhReply, MhCanReply, parseMhResponse

\* Every step keeps the claim protocol.
LEMMA ProtocolStep == TypeOK /\ TypeOK' /\ ClaimProtocol /\ [Next]_vars => ClaimProtocol'
<1> SUFFICES ASSUME TypeOK, TypeOK', ClaimProtocol, [Next]_vars PROVE ClaimProtocol'
  OBVIOUS
<1> USE DEF mhVars
<1>n. NULL \notin Runs
  BY NullIsNoId DEF Runs
<1>a. ASSUME NEW r \in Runs, NEW d \in Docs, Start(r, d) PROVE ClaimProtocol'
  <2>0. ASSUME NEW kind, NEW pc, Begin(r, d, kind, pc),
               pc \in {"sign", "claim", "fin_claim", "inv_claim"},
               pc \in {"sign", "claim"} => ~isTerminalDteStatus(dte_documents[d].status)
        PROVE  ClaimProtocol'
    <3>1. /\ run'[r].pc = pc /\ run'[r].doc = d /\ run'[r].status = dte_documents[d].status
          /\ \A q \in Runs \ {r} : run'[q] = run[q]
      BY <2>0 DEF Begin, TypeOK
    <3>2. dte_events[r] = NoEvent /\ anulacion[r] = "NONE"
      <4>1. dte_events[r] = NoEvent
        BY <2>0 DEF Begin, Fresh
      <4>2. EventKnows(r)
        BY DEF ClaimProtocol
      <4> QED BY <4>1, <4>2 DEF EventKnows, NoEvent
    <3>3. UNCHANGED <<dte_documents, dte_events, mhVars>>
      BY <2>0 DEF Begin
    <3>4. RunKnows(r)'
      BY <2>0, <3>1, <3>2, <3>3 DEF RunKnows
    <3> QED BY <3>1, <3>3, <3>4, LocalStep
  <2>1. CASE StartProcess(r, d)
    BY <2>0, <2>1 DEF StartProcess, isTerminalDteStatus, TerminalStatus
  <2>2. CASE StartSweep(r, d)
    BY <2>0, <2>2 DEF StartSweep, listDeferredTransmissionDocuments, isTerminalDteStatus, TerminalStatus
  <2>3. CASE StartRetry(r, d)
    BY <2>0, <2>3 DEF StartRetry, isRetryableDocument, isTerminalDteStatus, TerminalStatus
  <2>4. CASE StartInvalidate(r, d)
    BY <2>0, <2>4 DEF StartInvalidate
  <2>5. CASE StartFinalize(r, d)
    BY <2>0, <2>5 DEF StartFinalize
  <2> QED BY <1>a, <2>1, <2>2, <2>3, <2>4, <2>5 DEF Start
<1>b. ASSUME NEW r \in Runs, ~At(r, "idle"), Step(r) \/ Crash(r) PROVE ClaimProtocol'
  <2>c. PICK c \in Docs, row \in DteRow :
           run[r].doc = c /\ dte_documents[c] = row /\ Row(r) = row
    BY <1>b DEF ClaimProtocol, RunKnows, At, TypeOK, Row
  <2>k. RunKnows(r) /\ RowKnows(c) /\ EventKnows(r)
    BY <2>c DEF ClaimProtocol
  <2>g. \A pc : Goto(r, pc) => /\ run'[r].pc = pc /\ run'[r].doc = c
                               /\ run'[r].status = run[r].status
                               /\ run'[r].verdict = run[r].verdict
                               /\ \A q \in Runs \ {r} : run'[q] = run[q]
    BY <2>c DEF Goto, TypeOK, RunState
  <2>h. Return(r) => run'[r].pc = "idle" /\ \A q \in Runs \ {r} : run'[q] = run[q]
    BY DEF Return, TypeOK, IdleRun
  <2>j. \A pc, status : run' = [run EXCEPT ![r].pc = pc, ![r].status = status] =>
            /\ run'[r].pc = pc /\ run'[r].doc = c /\ run'[r].status = status
            /\ \A q \in Runs \ {r} : run'[q] = run[q]
    BY <2>c DEF TypeOK, RunState
  <2>v. \A pc, verdict : run' = [run EXCEPT ![r].pc = pc, ![r].verdict = verdict] =>
            /\ run'[r].pc = pc /\ run'[r].doc = c /\ run'[r].verdict = verdict
            /\ \A q \in Runs \ {r} : run'[q] = run[q]
    BY <2>c DEF TypeOK, RunState
  <2>p. posts[c] \in Nat
    BY <2>c DEF TypeOK
  <2>i. run'[r].pc = "idle" => RunKnows(r)'
    BY DEF RunKnows
  <2>u. \A enabled, new :
          UpdateRow(r, enabled, new) =>
             /\ dte_documents'[c] = IF enabled THEN new ELSE row
             /\ \A d \in Docs \ {c} : dte_documents'[d] = dte_documents[d]
    BY <2>c DEF UpdateRow, SetRow, TypeOK
  <2>1. CASE Catch(r)
    BY <2>1, <2>c, <2>k, <2>g, <2>h, <2>i, LocalStep DEF Catch, RunKnows, At, OwnsTransmission, OwnsInvalidation, Row
  <2>2. CASE TokenFails(r)
    BY <2>2, <2>c, <2>k, <2>g, <2>h, <2>i, LocalStep DEF TokenFails, RunKnows, At, OwnsTransmission, OwnsInvalidation, Row
  <2>3. CASE InvTokenFails(r)
    BY <2>3, <2>c, <2>k, <2>g, <2>h, <2>i, LocalStep DEF InvTokenFails, RunKnows, At, OwnsTransmission, OwnsInvalidation, Row
  <2>4. CASE Crash(r)
    BY <2>4, <2>c, <2>k, <2>g, <2>h, <2>i, LocalStep DEF Crash, RunKnows, At, OwnsTransmission, OwnsInvalidation, Row
  <2>5. CASE MarkFailed(r)
    <3>1. /\ dte_documents'[c] = IF markDocumentFailedEnabled(row, NULL) THEN markDocumentFailed(row) ELSE row
          /\ \A d \in Docs \ {c} : dte_documents'[d] = dte_documents[d]
      BY <2>5, <2>c, <2>u DEF MarkFailed
    <3>2. /\ UNCHANGED <<dte_events, mhVars>>
          /\ \A q \in Runs \ {r} : run'[q] = run[q]
          /\ run'[r].pc = "idle"
      BY <2>5, <2>c, <2>g, <2>h DEF MarkFailed
    <3>3. anulacion[r] = "NONE"
      BY <2>5, <2>k DEF MarkFailed, RunKnows, At
    <3>4. RowKnows(c)'
      BY <2>5, <1>n, <2>c, <2>k, <3>1, <3>2
      DEF MarkFailed, RowKnows, RunKnows, At, OwnsTransmission,
          markDocumentFailedEnabled, markDocumentFailed, WithoutOperation,
          DteRow, isTerminalDteStatus, TerminalStatus
    <3>5. /\ dte_documents[c].op_claim \notin {r, NULL} => SameOperation(c)
          /\ dte_documents'[c].status = "INVALIDATED" <=> dte_documents[c].status = "INVALIDATED"
      BY <2>5, <2>c, <2>k, <3>1, <3>2
      DEF MarkFailed, SameOperation, RunKnows, At, OwnsTransmission,
          markDocumentFailedEnabled, markDocumentFailed, WithoutOperation,
          DteRow, isTerminalDteStatus, TerminalStatus
    <3>6. RunKnows(r)'
      BY <2>5, <2>c, <2>k, <2>i, <2>p, <3>1, <3>2, <3>3
      DEF MarkFailed, RunKnows, RowKnows, At, OwnsTransmission, OwnsInvalidation, Row,
          markDocumentFailedEnabled, markDocumentFailed, WithoutOperation,
          DteRow, isTerminalDteStatus, TerminalStatus
    <3> QED BY <2>c, <3>1, <3>2, <3>3, <3>4, <3>5, <3>6, RowStep
  <2>6. CASE Claim(r)
    <3>1. /\ dte_documents'[c] = IF claimDocumentTransmissionEnabled(row, run[r].status, FALSE)
              THEN claimDocumentTransmission(row, r) ELSE row
          /\ \A d \in Docs \ {c} : dte_documents'[d] = dte_documents[d]
      BY <2>6, <2>c, <2>u DEF Claim, claimDocumentTransmissionEnabled
    <3>2. /\ UNCHANGED <<dte_events, mhVars>>
          /\ \A q \in Runs \ {r} : run'[q] = run[q]
          /\ run'[r].doc = c \/ run'[r].pc = "idle"
          /\ run'[r].pc \in {"idle", "dispatch"}
          /\ run'[r].pc = "dispatch" => claimDocumentTransmissionEnabled(row, run[r].status, FALSE)
      BY <2>6, <2>c, <2>g, <2>h DEF Claim
    <3>3. anulacion[r] = "NONE"
      BY <2>6, <2>k DEF Claim, RunKnows, At
    <3>4. RowKnows(c)'
      BY <2>6, <1>n, <2>c, <2>k, <3>1, <3>2
      DEF Claim, RowKnows, RunKnows, At, OwnsTransmission,
          claimDocumentTransmissionEnabled, claimDocumentTransmission,
          DteRow, isTerminalDteStatus, TerminalStatus
    <3>5. /\ dte_documents[c].op_claim \notin {r, NULL} => SameOperation(c)
          /\ dte_documents'[c].status = "INVALIDATED" <=> dte_documents[c].status = "INVALIDATED"
      BY <2>6, <2>c, <2>k, <3>1, <3>2
      DEF Claim, SameOperation, RunKnows, At, OwnsTransmission,
          claimDocumentTransmissionEnabled, claimDocumentTransmission,
          DteRow, isTerminalDteStatus, TerminalStatus
    <3>6. RunKnows(r)'
      <4>1. CASE run'[r].pc = "idle"
        BY <4>1, <2>i
      <4>2. CASE run'[r].pc = "dispatch"
        <5>1. row.op_claim = NULL /\ ~isTerminalDteStatus(row.status)
          BY <2>6, <2>k, <3>2, <4>2
          DEF Claim, RunKnows, At, claimDocumentTransmissionEnabled
        <5>2. posts'[c] = 0
          BY <2>c, <2>k, <2>p, <3>2, <5>1 DEF RowKnows
        <5>3. dte_documents'[c] = claimDocumentTransmission(row, r)
          BY <3>1, <3>2, <4>2 DEF claimDocumentTransmissionEnabled
        <5>4. /\ dte_documents'[c].status = "SIGNED" /\ dte_documents'[c].op_claim = r
              /\ dte_documents'[c].op_kind = "TRANSMISSION"
          BY <5>3 DEF claimDocumentTransmission, DteRow
        <5> QED BY <3>2, <3>3, <4>2, <5>2, <5>4 DEF RunKnows, OwnsTransmission, Row
      <4> QED BY <3>2, <4>1, <4>2
    <3> QED BY <2>c, <3>1, <3>2, <3>3, <3>4, <3>5, <3>6, RowStep
  <2>7. CASE Sign(r)
    <3>1. /\ dte_documents'[c] = IF updateDocumentSignedEnabled(row, run[r].status)
              THEN updateDocumentSigned(row) ELSE row
          /\ \A d \in Docs \ {c} : dte_documents'[d] = dte_documents[d]
      BY <2>7, <2>c, <2>u DEF Sign
    <3>2. /\ UNCHANGED <<dte_events, mhVars>>
          /\ \A q \in Runs \ {r} : run'[q] = run[q]
          /\ run'[r].pc = "idle" \/ (run'[r].pc = "claim" /\ run'[r].doc = c /\ run'[r].status = "SIGNED")
      BY <2>7, <2>c, <2>h, <2>j DEF Sign
    <3>3. anulacion[r] = "NONE"
      BY <2>7, <2>k DEF Sign, RunKnows, At
    <3>4. RowKnows(c)'
      BY <2>7, <1>n, <2>c, <2>k, <3>1, <3>2
      DEF Sign, RowKnows, RunKnows, At, OwnsTransmission,
          updateDocumentSignedEnabled, updateDocumentSigned,
          DteRow, isTerminalDteStatus, TerminalStatus
    <3>5. /\ dte_documents[c].op_claim \notin {r, NULL} => SameOperation(c)
          /\ dte_documents'[c].status = "INVALIDATED" <=> dte_documents[c].status = "INVALIDATED"
      BY <2>7, <2>c, <2>k, <3>1, <3>2
      DEF Sign, SameOperation, RunKnows, At, OwnsTransmission,
          updateDocumentSignedEnabled, updateDocumentSigned,
          DteRow, isTerminalDteStatus, TerminalStatus
    <3>6. RunKnows(r)'
      BY <2>7, <2>c, <2>k, <2>i, <2>p, <3>1, <3>2, <3>3
      DEF Sign, RunKnows, RowKnows, At, OwnsTransmission, OwnsInvalidation, Row,
          updateDocumentSignedEnabled, updateDocumentSigned,
          DteRow, isTerminalDteStatus, TerminalStatus
    <3> QED BY <2>c, <3>1, <3>2, <3>3, <3>4, <3>5, <3>6, RowStep
  <2>8. CASE SignThrows(r)
    <3>0. PICK committed \in BOOLEAN :
             UpdateRow(r, committed /\ updateDocumentSignedEnabled(row, run[r].status),
                       updateDocumentSigned(row))
      BY <2>8, <2>c DEF SignThrows
    <3>1. /\ dte_documents'[c] = IF committed /\ updateDocumentSignedEnabled(row, run[r].status)
              THEN updateDocumentSigned(row) ELSE row
          /\ \A d \in Docs \ {c} : dte_documents'[d] = dte_documents[d]
      BY <3>0, <2>u DEF updateDocumentSignedEnabled
    <3>2. /\ UNCHANGED <<dte_events, mhVars>>
          /\ \A q \in Runs \ {r} : run'[q] = run[q]
          /\ run'[r].pc \in {"idle", "catch"} /\ (run'[r].pc # "idle" => run'[r].doc = c)
      BY <2>8, <2>c, <2>g, <2>h DEF SignThrows
    <3>3. anulacion[r] = "NONE"
      BY <2>8, <2>k DEF SignThrows, RunKnows, At
    <3>4. RowKnows(c)'
      BY <2>8, <1>n, <2>c, <2>k, <3>1, <3>2
      DEF SignThrows, RowKnows, RunKnows, At, OwnsTransmission,
          updateDocumentSignedEnabled, updateDocumentSigned,
          DteRow, isTerminalDteStatus, TerminalStatus
    <3>5. /\ dte_documents[c].op_claim \notin {r, NULL} => SameOperation(c)
          /\ dte_documents'[c].status = "INVALIDATED" <=> dte_documents[c].status = "INVALIDATED"
      BY <2>8, <2>c, <2>k, <3>1, <3>2
      DEF SignThrows, SameOperation, RunKnows, At, OwnsTransmission,
          updateDocumentSignedEnabled, updateDocumentSigned,
          DteRow, isTerminalDteStatus, TerminalStatus
    <3>6. RunKnows(r)'
      BY <2>8, <2>c, <2>k, <2>i, <2>p, <3>1, <3>2, <3>3
      DEF SignThrows, RunKnows, RowKnows, At, OwnsTransmission, OwnsInvalidation, Row,
          updateDocumentSignedEnabled, updateDocumentSigned,
          DteRow, isTerminalDteStatus, TerminalStatus
    <3> QED BY <2>c, <3>1, <3>2, <3>3, <3>4, <3>5, <3>6, RowStep
  <2>9. CASE PreDispatchFailed(r)
    <3>1. /\ dte_documents'[c] = IF run[r].kind = "process"
              THEN IF markDocumentTransmissionDeferredEnabled(row, r)
                     THEN markDocumentTransmissionDeferred(row) ELSE row
              ELSE IF releaseDocumentFiscalOperationEnabled(row, r)
                     THEN releaseDocumentFiscalOperation(row) ELSE row
          /\ \A d \in Docs \ {c} : dte_documents'[d] = dte_documents[d]
      BY <2>9, <2>c, <2>u DEF PreDispatchFailed
    <3>2. /\ UNCHANGED <<dte_events, mhVars>>
          /\ \A q \in Runs \ {r} : run'[q] = run[q]
          /\ run'[r].pc = "idle"
      BY <2>9, <2>c, <2>g, <2>h DEF PreDispatchFailed
    <3>3. anulacion[r] = "NONE"
      BY <2>9, <2>k DEF PreDispatchFailed, RunKnows, At
    <3>4. RowKnows(c)'
      BY <2>9, <1>n, <2>c, <2>k, <3>1, <3>2
      DEF PreDispatchFailed, RowKnows, RunKnows, At, OwnsTransmission,
          markDocumentTransmissionDeferredEnabled, markDocumentTransmissionDeferred, WithoutOperation,
          releaseDocumentFiscalOperationEnabled, releaseDocumentFiscalOperation,
          DteRow, isTerminalDteStatus, TerminalStatus
    <3>5. /\ dte_documents[c].op_claim \notin {r, NULL} => SameOperation(c)
          /\ dte_documents'[c].status = "INVALIDATED" <=> dte_documents[c].status = "INVALIDATED"
      BY <2>9, <2>c, <2>k, <3>1, <3>2
      DEF PreDispatchFailed, SameOperation, RunKnows, At, OwnsTransmission,
          markDocumentTransmissionDeferredEnabled, markDocumentTransmissionDeferred, WithoutOperation,
          releaseDocumentFiscalOperationEnabled, releaseDocumentFiscalOperation,
          DteRow, isTerminalDteStatus, TerminalStatus
    <3>6. RunKnows(r)'
      BY <2>9, <2>c, <2>k, <2>i, <2>p, <3>1, <3>2, <3>3
      DEF PreDispatchFailed, RunKnows, RowKnows, At, OwnsTransmission, OwnsInvalidation, Row,
          markDocumentTransmissionDeferredEnabled, markDocumentTransmissionDeferred, WithoutOperation,
          releaseDocumentFiscalOperationEnabled, releaseDocumentFiscalOperation,
          DteRow, isTerminalDteStatus, TerminalStatus
    <3> QED BY <2>c, <3>1, <3>2, <3>3, <3>4, <3>5, <3>6, RowStep
  <2>10. CASE Complete(r)
    <3>1. /\ dte_documents'[c] = IF completeDocumentTransmissionEnabled(row, r)
              THEN completeDocumentTransmission(row, run[r].verdict = "ACCEPTED") ELSE row
          /\ \A d \in Docs \ {c} : dte_documents'[d] = dte_documents[d]
      BY <2>10, <2>c, <2>u DEF Complete
    <3>2. /\ UNCHANGED <<dte_events, mhVars>>
          /\ \A q \in Runs \ {r} : run'[q] = run[q]
          /\ run'[r].pc \in {"idle", "fin_claim"} /\ (run'[r].pc # "idle" => run'[r].doc = c)
      BY <2>10, <2>c, <2>g, <2>h DEF Complete
    <3>3. anulacion[r] = "NONE"
      BY <2>10, <2>k DEF Complete, RunKnows, At
    <3>4. RowKnows(c)'
      <4>1. CASE ~completeDocumentTransmissionEnabled(row, r)
        BY <2>c, <2>k, <3>1, <3>2, <4>1 DEF RowKnows
      <4>2. CASE completeDocumentTransmissionEnabled(row, r) /\ run[r].verdict = "ACCEPTED"
        <5>1. dte_documents'[c] = completeDocumentTransmission(row, TRUE)
          BY <3>1, <4>2
        <5>2. recepcion[c] = "PROCESADO" /\ posts[c] = 1
          BY <2>10, <2>c, <2>k, <4>2 DEF Complete, RunKnows, At
        <5> QED BY <3>2, <5>1, <5>2
            DEF RowKnows, completeDocumentTransmission, WithoutOperation, DteRow,
                isTerminalDteStatus, TerminalStatus
      <4>3. CASE completeDocumentTransmissionEnabled(row, r) /\ run[r].verdict # "ACCEPTED"
        <5>1. dte_documents'[c] = completeDocumentTransmission(row, FALSE)
          BY <3>1, <4>3
        <5>2. recepcion[c] = "RECHAZADO" /\ posts[c] = 1
          BY <2>10, <2>c, <2>k, <4>3 DEF Complete, RunKnows, At
        <5> QED BY <3>2, <5>1, <5>2
            DEF RowKnows, completeDocumentTransmission, WithoutOperation, DteRow,
                isTerminalDteStatus, TerminalStatus
      <4> QED BY <4>1, <4>2, <4>3
    <3>5. /\ dte_documents[c].op_claim \notin {r, NULL} => SameOperation(c)
          /\ dte_documents'[c].status = "INVALIDATED" <=> dte_documents[c].status = "INVALIDATED"
      BY <2>10, <2>c, <2>k, <3>1, <3>2
      DEF Complete, SameOperation, RunKnows, At, OwnsTransmission,
          completeDocumentTransmissionEnabled, completeDocumentTransmission, WithoutOperation,
          DteRow, isTerminalDteStatus, TerminalStatus
    <3>6. RunKnows(r)'
      BY <2>10, <2>c, <2>k, <2>i, <2>p, <3>1, <3>2, <3>3
      DEF Complete, RunKnows, RowKnows, At, OwnsTransmission, OwnsInvalidation, Row,
          completeDocumentTransmissionEnabled, completeDocumentTransmission, WithoutOperation,
          DteRow, isTerminalDteStatus, TerminalStatus
    <3> QED BY <2>c, <3>1, <3>2, <3>3, <3>4, <3>5, <3>6, RowStep
  <2>11. CASE FinClaim(r)
    <3>0. PICK takeover \in BOOLEAN :
             /\ UpdateRow(r, claimDocumentPostAcceptFinalizationEnabled(row, takeover),
                          claimDocumentPostAcceptFinalization(row, r))
             /\ Goto(r, "fin_work") \/ Return(r)
      BY <2>11, <2>c DEF FinClaim
    <3>1. /\ dte_documents'[c] = IF claimDocumentPostAcceptFinalizationEnabled(row, takeover)
              THEN claimDocumentPostAcceptFinalization(row, r) ELSE row
          /\ \A d \in Docs \ {c} : dte_documents'[d] = dte_documents[d]
      BY <3>0, <2>u
    <3>2. /\ UNCHANGED <<dte_events, mhVars>>
          /\ \A q \in Runs \ {r} : run'[q] = run[q]
          /\ run'[r].pc \in {"idle", "fin_work"} /\ (run'[r].pc # "idle" => run'[r].doc = c)
      BY <2>11, <3>0, <2>g, <2>h DEF FinClaim
    <3>3. anulacion[r] = "NONE"
      BY <2>11, <2>k DEF FinClaim, RunKnows, At
    <3>4. RowKnows(c)'
      BY <2>11, <1>n, <2>c, <2>k, <3>1, <3>2
      DEF FinClaim, RowKnows, RunKnows, At, OwnsTransmission,
          claimDocumentPostAcceptFinalizationEnabled, claimDocumentPostAcceptFinalization,
          DteRow, isTerminalDteStatus, TerminalStatus
    <3>5. /\ dte_documents[c].op_claim \notin {r, NULL} => SameOperation(c)
          /\ dte_documents'[c].status = "INVALIDATED" <=> dte_documents[c].status = "INVALIDATED"
      BY <2>11, <2>c, <2>k, <3>1, <3>2
      DEF FinClaim, SameOperation, RunKnows, At, OwnsTransmission,
          claimDocumentPostAcceptFinalizationEnabled, claimDocumentPostAcceptFinalization,
          DteRow, isTerminalDteStatus, TerminalStatus
    <3>6. RunKnows(r)'
      BY <2>11, <2>c, <2>k, <2>i, <2>p, <3>1, <3>2, <3>3
      DEF FinClaim, RunKnows, RowKnows, At, OwnsTransmission, OwnsInvalidation, Row,
          claimDocumentPostAcceptFinalizationEnabled, claimDocumentPostAcceptFinalization,
          DteRow, isTerminalDteStatus, TerminalStatus
    <3> QED BY <2>c, <3>1, <3>2, <3>3, <3>4, <3>5, <3>6, RowStep
  <2>12. CASE FinMark(r)
    <3>1. /\ dte_documents'[c] = IF markDocumentPostAcceptFinalizedEnabled(row, r)
              THEN markDocumentPostAcceptFinalized(row) ELSE row
          /\ \A d \in Docs \ {c} : dte_documents'[d] = dte_documents[d]
      BY <2>12, <2>c, <2>u DEF FinMark
    <3>2. /\ UNCHANGED <<dte_events, mhVars>>
          /\ \A q \in Runs \ {r} : run'[q] = run[q]
          /\ run'[r].pc = "idle"
      BY <2>12, <2>c, <2>g, <2>h DEF FinMark
    <3>3. anulacion[r] = "NONE"
      BY <2>12, <2>k DEF FinMark, RunKnows, At
    <3>4. RowKnows(c)'
      BY <2>12, <1>n, <2>c, <2>k, <3>1, <3>2
      DEF FinMark, RowKnows, RunKnows, At, OwnsTransmission,
          markDocumentPostAcceptFinalizedEnabled, markDocumentPostAcceptFinalized,
          DteRow, isTerminalDteStatus, TerminalStatus
    <3>5. /\ dte_documents[c].op_claim \notin {r, NULL} => SameOperation(c)
          /\ dte_documents'[c].status = "INVALIDATED" <=> dte_documents[c].status = "INVALIDATED"
      BY <2>12, <2>c, <2>k, <3>1, <3>2
      DEF FinMark, SameOperation, RunKnows, At, OwnsTransmission,
          markDocumentPostAcceptFinalizedEnabled, markDocumentPostAcceptFinalized,
          DteRow, isTerminalDteStatus, TerminalStatus
    <3>6. RunKnows(r)'
      BY <2>12, <2>c, <2>k, <2>i, <2>p, <3>1, <3>2, <3>3
      DEF FinMark, RunKnows, RowKnows, At, OwnsTransmission, OwnsInvalidation, Row,
          markDocumentPostAcceptFinalizedEnabled, markDocumentPostAcceptFinalized,
          DteRow, isTerminalDteStatus, TerminalStatus
    <3> QED BY <2>c, <3>1, <3>2, <3>3, <3>4, <3>5, <3>6, RowStep
  <2>13. CASE FinRelease(r)
    <3>1. /\ dte_documents'[c] = IF releaseDocumentPostAcceptFinalizationEnabled(row, r)
              THEN releaseDocumentPostAcceptFinalization(row) ELSE row
          /\ \A d \in Docs \ {c} : dte_documents'[d] = dte_documents[d]
      BY <2>13, <2>c, <2>u DEF FinRelease
    <3>2. /\ UNCHANGED <<dte_events, mhVars>>
          /\ \A q \in Runs \ {r} : run'[q] = run[q]
          /\ run'[r].pc = "idle"
      BY <2>13, <2>c, <2>g, <2>h DEF FinRelease
    <3>3. anulacion[r] = "NONE"
      BY <2>13, <2>k DEF FinRelease, RunKnows, At
    <3>4. RowKnows(c)'
      BY <2>13, <1>n, <2>c, <2>k, <3>1, <3>2
      DEF FinRelease, RowKnows, RunKnows, At, OwnsTransmission,
          releaseDocumentPostAcceptFinalizationEnabled, releaseDocumentPostAcceptFinalization,
          DteRow, isTerminalDteStatus, TerminalStatus
    <3>5. /\ dte_documents[c].op_claim \notin {r, NULL} => SameOperation(c)
          /\ dte_documents'[c].status = "INVALIDATED" <=> dte_documents[c].status = "INVALIDATED"
      BY <2>13, <2>c, <2>k, <3>1, <3>2
      DEF FinRelease, SameOperation, RunKnows, At, OwnsTransmission,
          releaseDocumentPostAcceptFinalizationEnabled, releaseDocumentPostAcceptFinalization,
          DteRow, isTerminalDteStatus, TerminalStatus
    <3>6. RunKnows(r)'
      BY <2>13, <2>c, <2>k, <2>i, <2>p, <3>1, <3>2, <3>3
      DEF FinRelease, RunKnows, RowKnows, At, OwnsTransmission, OwnsInvalidation, Row,
          releaseDocumentPostAcceptFinalizationEnabled, releaseDocumentPostAcceptFinalization,
          DteRow, isTerminalDteStatus, TerminalStatus
    <3> QED BY <2>c, <3>1, <3>2, <3>3, <3>4, <3>5, <3>6, RowStep
  <2>14. CASE InvClaim(r)
    <3>1. /\ dte_documents'[c] = IF claimDocumentInvalidationEnabled(row)
              THEN claimDocumentInvalidation(row, r) ELSE row
          /\ \A d \in Docs \ {c} : dte_documents'[d] = dte_documents[d]
      BY <2>14, <2>c, <2>u DEF InvClaim
    <3>2. /\ UNCHANGED <<dte_events, mhVars>>
          /\ \A q \in Runs \ {r} : run'[q] = run[q]
          /\ run'[r].doc = c \/ run'[r].pc = "idle"
          /\ run'[r].pc \in {"idle", "inv_attach"}
          /\ run'[r].pc = "inv_attach" => claimDocumentInvalidationEnabled(row)
      BY <2>14, <2>c, <2>g, <2>h DEF InvClaim
    <3>3. anulacion[r] = "NONE"
      BY <2>14, <2>k DEF InvClaim, RunKnows, At
    <3>4. RowKnows(c)'
      BY <2>14, <1>n, <2>c, <2>k, <3>1, <3>2
      DEF InvClaim, RowKnows, RunKnows, At, OwnsTransmission,
          claimDocumentInvalidationEnabled, claimDocumentInvalidation,
          DteRow, isTerminalDteStatus, TerminalStatus
    <3>5. /\ dte_documents[c].op_claim \notin {r, NULL} => SameOperation(c)
          /\ dte_documents'[c].status = "INVALIDATED" <=> dte_documents[c].status = "INVALIDATED"
      BY <2>14, <2>c, <2>k, <3>1, <3>2
      DEF InvClaim, SameOperation, RunKnows, At, OwnsTransmission,
          claimDocumentInvalidationEnabled, claimDocumentInvalidation,
          DteRow, isTerminalDteStatus, TerminalStatus
    <3>6. RunKnows(r)'
      <4>1. CASE run'[r].pc = "idle"
        BY <4>1, <2>i
      <4>2. CASE run'[r].pc = "inv_attach"
        <5>1. claimDocumentInvalidationEnabled(row)
          BY <3>2, <4>2
        <5>2. dte_documents'[c] = claimDocumentInvalidation(row, r)
          BY <3>1, <5>1
        <5>3. OwnsInvalidation(dte_documents'[c], r, NULL)
          BY <5>1, <5>2
          DEF OwnsInvalidation, claimDocumentInvalidation, claimDocumentInvalidationEnabled, DteRow
        <5>4. dte_events'[r] = NoEvent
          BY <2>14, <2>k, <3>2 DEF InvClaim, RunKnows, At
        <5> QED BY <3>2, <3>3, <4>2, <5>3, <5>4 DEF RunKnows, Row
      <4> QED BY <3>2, <4>1, <4>2
    <3> QED BY <2>c, <3>1, <3>2, <3>3, <3>4, <3>5, <3>6, RowStep
  <2>15. CASE InvRelease(r)
    <3>1. /\ dte_documents'[c] = IF releaseDocumentFiscalOperationEnabled(row, r)
              THEN releaseDocumentFiscalOperation(row) ELSE row
          /\ \A d \in Docs \ {c} : dte_documents'[d] = dte_documents[d]
      BY <2>15, <2>c, <2>u DEF InvRelease
    <3>2. /\ UNCHANGED <<dte_events, mhVars>>
          /\ \A q \in Runs \ {r} : run'[q] = run[q]
          /\ run'[r].pc = "idle"
      BY <2>15, <2>c, <2>g, <2>h DEF InvRelease
    <3>3. anulacion[r] = "NONE"
      BY <2>15, <2>k DEF InvRelease, RunKnows, At
    <3>4. RowKnows(c)'
      BY <2>15, <1>n, <2>c, <2>k, <3>1, <3>2
      DEF InvRelease, RowKnows, RunKnows, At, OwnsTransmission,
          releaseDocumentFiscalOperationEnabled, releaseDocumentFiscalOperation, WithoutOperation,
          DteRow, isTerminalDteStatus, TerminalStatus
    <3>5. /\ dte_documents[c].op_claim \notin {r, NULL} => SameOperation(c)
          /\ dte_documents'[c].status = "INVALIDATED" <=> dte_documents[c].status = "INVALIDATED"
      BY <2>15, <2>c, <2>k, <3>1, <3>2
      DEF InvRelease, SameOperation, RunKnows, At, OwnsTransmission,
          releaseDocumentFiscalOperationEnabled, releaseDocumentFiscalOperation, WithoutOperation,
          DteRow, isTerminalDteStatus, TerminalStatus
    <3>6. RunKnows(r)'
      BY <2>15, <2>c, <2>k, <2>i, <2>p, <3>1, <3>2, <3>3
      DEF InvRelease, RunKnows, RowKnows, At, OwnsTransmission, OwnsInvalidation, Row,
          releaseDocumentFiscalOperationEnabled, releaseDocumentFiscalOperation, WithoutOperation,
          DteRow, isTerminalDteStatus, TerminalStatus
    <3> QED BY <2>c, <3>1, <3>2, <3>3, <3>4, <3>5, <3>6, RowStep
  <2>16. CASE Reply(r)
    <3>0. anulacion[r] = "NONE" /\ OwnsTransmission(r) /\ posts[c] = 1
      BY <2>16, <2>c, <2>k DEF Reply, RunKnows, At
    <3>1. PICK reply \in MhReply :
             /\ MhCanReply(recepcion[c], reply)
             /\ IF parseMhResponse(reply) = "AMBIGUOUS"
                  THEN Return(r)
                  ELSE run' = [run EXCEPT ![r].pc = "complete",
                                          ![r].verdict = parseMhResponse(reply)]
      BY <2>16, <2>c DEF Reply, ReadReply
    <3>2. UNCHANGED <<dte_documents, dte_events, mhVars>>
      BY <2>16 DEF Reply, ReadReply
    <3>3. CASE parseMhResponse(reply) = "AMBIGUOUS"
      BY <3>1, <3>2, <3>3, <2>c, <2>h, <2>i, LocalStep
    <3>4. CASE parseMhResponse(reply) # "AMBIGUOUS"
      <4>1. /\ run'[r].pc = "complete" /\ run'[r].doc = c
            /\ run'[r].verdict = parseMhResponse(reply)
            /\ \A q \in Runs \ {r} : run'[q] = run[q]
        BY <3>1, <3>4, <2>v
      <4>2. RunKnows(r)'
        BY <2>c, <3>0, <3>2, <3>4, <4>1, <3>1, ReplyIsTrue
        DEF RunKnows, OwnsTransmission, Row
      <4> QED BY <2>c, <3>2, <4>1, <4>2, LocalStep
    <3> QED BY <3>3, <3>4
  <2>17. CASE InvReply(r)
    <3>0. /\ OwnsInvalidation(row, r, r)
          /\ dte_events[r] = [status |-> "SIGNED", document_id |-> c]
      BY <2>17, <2>c, <2>k DEF InvReply, RunKnows, At
    <3>1. PICK reply \in MhReply :
             /\ MhCanReply(anulacion[r], reply)
             /\ IF parseMhResponse(reply) = "AMBIGUOUS"
                  THEN Return(r)
                  ELSE run' = [run EXCEPT ![r].pc = "inv_complete",
                                          ![r].verdict = parseMhResponse(reply)]
      BY <2>17 DEF InvReply, ReadReply
    <3>2. UNCHANGED <<dte_documents, dte_events, mhVars>>
      BY <2>17 DEF InvReply, ReadReply
    <3>3. CASE parseMhResponse(reply) = "AMBIGUOUS"
      BY <3>1, <3>2, <3>3, <2>c, <2>h, <2>i, LocalStep
    <3>4. CASE parseMhResponse(reply) # "AMBIGUOUS"
      <4>1. /\ run'[r].pc = "inv_complete" /\ run'[r].doc = c
            /\ run'[r].verdict = parseMhResponse(reply)
            /\ \A q \in Runs \ {r} : run'[q] = run[q]
        BY <3>1, <3>4, <2>v
      <4>2. RunKnows(r)'
        BY <2>c, <3>0, <3>2, <3>4, <4>1, <3>1, ReplyIsTrue
        DEF RunKnows, Row
      <4> QED BY <2>c, <3>2, <4>1, <4>2, LocalStep
    <3> QED BY <3>3, <3>4
  <2>18. CASE Post(r)
    <3>0. OwnsTransmission(r) /\ posts[c] = 0 /\ anulacion[r] = "NONE"
      BY <2>18, <2>c, <2>k DEF Post, RunKnows, At
    <3>1. /\ posts'[c] = 1 /\ recepcion'[c] = "IN_FLIGHT"
          /\ \A d \in Docs \ {c} : posts'[d] = posts[d] /\ recepcion'[d] = recepcion[d]
      BY <2>18, <2>c, <2>k, <3>0 DEF Post, RowKnows, TypeOK
    <3>2. UNCHANGED <<dte_documents, dte_events, anulacion>>
      BY <2>18 DEF Post
    <3>3. /\ run'[r].pc = "reply" /\ run'[r].doc = c
          /\ \A q \in Runs \ {r} : run'[q] = run[q]
      BY <2>18, <2>g DEF Post
    <3>4. RowKnows(c)'
      BY <1>n, <2>c, <2>k, <3>0, <3>1, <3>2
      DEF RowKnows, OwnsTransmission, isTerminalDteStatus, TerminalStatus
    <3>5. Confined(r, c)
      BY <2>c, <3>0, <3>1, <3>2, <3>3 DEF Confined, OwnsTransmission
    <3>6. RunKnows(r)'
      BY <2>c, <3>0, <3>1, <3>2, <3>3 DEF RunKnows, OwnsTransmission, Row
    <3>7. EventKnows(r)'
      BY <2>k, <3>2 DEF EventKnows
    <3> QED BY <2>c, <3>4, <3>5, <3>6, <3>7, ConfinedStep
  <2>19. CASE InvPost(r)
    <3>0. /\ OwnsInvalidation(row, r, r) /\ anulacion[r] = "NONE"
          /\ dte_events[r] = [status |-> "SIGNED", document_id |-> c]
      BY <2>19, <2>c, <2>k DEF InvPost, RunKnows, At
    <3>1. anulacion'[r] = "IN_FLIGHT" /\ \A q \in Runs \ {r} : anulacion'[q] = anulacion[q]
      BY <2>19 DEF InvPost, TypeOK
    <3>2. UNCHANGED <<dte_documents, dte_events, posts, recepcion>>
      BY <2>19 DEF InvPost
    <3>3. /\ run'[r].pc = "inv_reply" /\ run'[r].doc = c
          /\ \A q \in Runs \ {r} : run'[q] = run[q]
      BY <2>19, <2>g DEF InvPost
    <3>4. RowKnows(c)'
      BY <2>k, <3>2 DEF RowKnows
    <3>5. Confined(r, c)
      BY <2>c, <3>0, <3>1, <3>2, <3>3 DEF Confined, SameOperation
    <3>6. RunKnows(r)'
      BY <2>c, <3>0, <3>1, <3>2, <3>3 DEF RunKnows, Row
    <3>7. EventKnows(r)'
      BY <2>c, <2>k, <3>0, <3>1, <3>2 DEF EventKnows
    <3> QED BY <2>c, <3>4, <3>5, <3>6, <3>7, ConfinedStep
  <2>20. CASE InvAttach(r)
    <3>0. /\ OwnsInvalidation(row, r, NULL) /\ anulacion[r] = "NONE"
          /\ dte_events[r] = NoEvent
      BY <2>20, <2>c, <2>k DEF InvAttach, RunKnows, At
    <3>1. PICK committed, returned \in BOOLEAN :
             /\ returned => committed
             /\ IF committed
                  THEN /\ SetRow(r, createAndAttachDocumentInvalidationEvent(row, r))
                       /\ SetEvent(r, "SIGNED", c)
                  ELSE UNCHANGED <<dte_documents, dte_events>>
             /\ Goto(r, IF returned THEN "inv_dispatch" ELSE "inv_release")
      BY <2>20, <2>c, <3>0 DEF InvAttach, createAndAttachDocumentInvalidationEventEnabled
    <3>2. UNCHANGED mhVars
      BY <2>20 DEF InvAttach
    <3>3. /\ run'[r].pc = IF returned THEN "inv_dispatch" ELSE "inv_release"
          /\ run'[r].doc = c /\ \A q \in Runs \ {r} : run'[q] = run[q]
      BY <3>1, <2>g
    <3>4. /\ dte_documents'[c].status = "ACCEPTED" /\ dte_documents'[c].op_claim = r
          /\ dte_documents'[c].op_kind = "INVALIDATION"
          /\ dte_documents'[c].sello = row.sello
          /\ committed => dte_documents'[c].op_event = r
          /\ \A d \in Docs \ {c} : dte_documents'[d] = dte_documents[d]
      BY <2>c, <3>0, <3>1
      DEF SetRow, createAndAttachDocumentInvalidationEvent, OwnsInvalidation, DteRow, TypeOK
    <3>5. /\ dte_events'[r] = IF committed THEN [status |-> "SIGNED", document_id |-> c] ELSE NoEvent
          /\ \A q \in Runs \ {r} : dte_events'[q] = dte_events[q]
      BY <3>0, <3>1 DEF SetEvent, TypeOK
    <3>6. RowKnows(c)'
      BY <2>c, <2>k, <3>0, <3>2, <3>4
      DEF RowKnows, OwnsInvalidation, isTerminalDteStatus, TerminalStatus
    <3>7. RunKnows(r)'
      BY <2>c, <3>0, <3>1, <3>2, <3>3, <3>4, <3>5 DEF RunKnows, Row, OwnsInvalidation
    <3>8. EventKnows(r)'
      BY <2>c, <3>0, <3>2, <3>5 DEF EventKnows, NoEvent
    <3>9. Confined(r, c)
      BY <2>c, <3>0, <3>2, <3>3, <3>4, <3>5 DEF Confined, OwnsInvalidation, NoEvent
    <3> QED BY <2>c, <3>6, <3>7, <3>8, <3>9, ConfinedStep
  <2>21. CASE InvPreDispatchFailed(r)
    <3>0. /\ OwnsInvalidation(row, r, r) /\ anulacion[r] = "NONE"
          /\ dte_events[r] = [status |-> "SIGNED", document_id |-> c]
      BY <2>21, <2>c, <2>k DEF InvPreDispatchFailed, RunKnows, At
    <3>1. /\ SetRow(r, WithoutOperation(row)) /\ SetEvent(r, "FAILED", c)
          /\ Return(r) /\ UNCHANGED mhVars
      BY <2>21, <2>c, <3>0
      DEF InvPreDispatchFailed, releaseDocumentInvalidationBeforeDispatchEnabled
    <3>2. /\ dte_documents'[c].status = "ACCEPTED" /\ dte_documents'[c].op_claim = NULL
          /\ dte_documents'[c].sello = row.sello
          /\ \A d \in Docs \ {c} : dte_documents'[d] = dte_documents[d]
      BY <2>c, <3>0, <3>1 DEF SetRow, WithoutOperation, OwnsInvalidation, DteRow, TypeOK
    <3>3. /\ dte_events'[r] = [status |-> "FAILED", document_id |-> c]
          /\ \A q \in Runs \ {r} : dte_events'[q] = dte_events[q]
      BY <3>1 DEF SetEvent, TypeOK
    <3>4. RowKnows(c)'
      BY <2>c, <2>k, <3>0, <3>1, <3>2
      DEF RowKnows, OwnsInvalidation, isTerminalDteStatus, TerminalStatus
    <3>5. RunKnows(r)'
      BY <3>1, <2>h, <2>i
    <3>6. EventKnows(r)'
      BY <2>c, <3>0, <3>1, <3>3 DEF EventKnows
    <3>7. Confined(r, c)
      BY <2>c, <2>h, <3>0, <3>1, <3>2, <3>3 DEF Confined, OwnsInvalidation
    <3> QED BY <2>c, <3>4, <3>5, <3>6, <3>7, ConfinedStep
  <2>22. CASE InvComplete(r)
    <3>0. /\ OwnsInvalidation(row, r, r)
          /\ dte_events[r] = [status |-> "SIGNED", document_id |-> c]
          /\ run[r].verdict \in {"ACCEPTED", "REJECTED"}
          /\ anulacion[r] = IF run[r].verdict = "ACCEPTED" THEN "PROCESADO" ELSE "RECHAZADO"
      BY <2>22, <2>c, <2>k DEF InvComplete, RunKnows, At, TypeOK, RunState
    <3>1. /\ SetRow(r, completeDocumentInvalidation(row, run[r].verdict = "ACCEPTED"))
          /\ SetEvent(r, run[r].verdict, c)
          /\ Return(r) /\ UNCHANGED mhVars
      BY <2>22, <2>c, <3>0 DEF InvComplete, completeDocumentInvalidationEnabled
    <3>2. /\ dte_documents'[c].status =
               IF run[r].verdict = "ACCEPTED" THEN "INVALIDATED" ELSE "ACCEPTED"
          /\ dte_documents'[c].op_claim = NULL
          /\ dte_documents'[c].sello = row.sello
          /\ \A d \in Docs \ {c} : dte_documents'[d] = dte_documents[d]
      BY <2>c, <3>0, <3>1
      DEF SetRow, completeDocumentInvalidation, WithoutOperation, OwnsInvalidation, DteRow, TypeOK
    <3>3. /\ dte_events'[r] = [status |-> run[r].verdict, document_id |-> c]
          /\ \A q \in Runs \ {r} : dte_events'[q] = dte_events[q]
      BY <3>1 DEF SetEvent, TypeOK
    <3>4. RowKnows(c)'
      BY <2>c, <2>k, <3>0, <3>1, <3>2
      DEF RowKnows, OwnsInvalidation, isTerminalDteStatus, TerminalStatus
    <3>5. RunKnows(r)'
      BY <3>1, <2>h, <2>i
    <3>6. EventKnows(r)'
      BY <2>c, <3>0, <3>1, <3>2, <3>3 DEF EventKnows
    <3>7. Confined(r, c)
      BY <2>c, <2>h, <3>0, <3>1, <3>2, <3>3 DEF Confined, OwnsInvalidation
    <3> QED BY <2>c, <3>4, <3>5, <3>6, <3>7, ConfinedStep
  <2> QED BY <1>b, <2>1, <2>2, <2>3, <2>4, <2>5, <2>6, <2>7, <2>8, <2>9, <2>10, <2>11, <2>12, <2>13, <2>14, <2>15, <2>16, <2>17, <2>18, <2>19, <2>20, <2>21, <2>22 DEF Step
<1>c. ASSUME NEW r \in Runs, Step(r) \/ Crash(r) PROVE ~At(r, "idle")
  BY <1>c DEF Step, Crash, At, Sign, SignThrows, Catch, MarkFailed, Claim, TokenFails,
              PreDispatchFailed, Post, Reply, Complete, FinClaim, FinMark, FinRelease,
              InvClaim, InvAttach, InvRelease, InvTokenFails, InvPreDispatchFailed,
              InvPost, InvReply, InvComplete
<1>d. ASSUME NEW r \in Runs, MhAnulacion(r) PROVE ClaimProtocol'
  <2>1. /\ anulacion[r] = "IN_FLIGHT" /\ anulacion'[r] \in {"PROCESADO", "RECHAZADO"}
        /\ \A q \in Runs \ {r} : anulacion'[q] = anulacion[q]
        /\ UNCHANGED <<dte_documents, dte_events, run, posts, recepcion>>
    BY <1>d DEF MhAnulacion, TypeOK
  <2>2. ASSUME NEW q \in Runs PROVE RunKnows(q)'
    <3>1. RunKnows(q)
      BY DEF ClaimProtocol
    <3> QED BY <2>1, <3>1 DEF RunKnows, OwnsTransmission, Row
  <2>3. ASSUME NEW d \in Docs PROVE RowKnows(d)'
    <3>1. RowKnows(d)
      BY DEF ClaimProtocol
    <3> QED BY <2>1, <3>1 DEF RowKnows
  <2>4. ASSUME NEW e \in Runs PROVE EventKnows(e)'
    <3>1. EventKnows(e)
      BY DEF ClaimProtocol
    <3> QED BY <2>1, <3>1 DEF EventKnows
  <2>5. InvalidatedHasEvent' /\ OneAcceptedEvent'
    BY <2>1 DEF ClaimProtocol, InvalidatedHasEvent, OneAcceptedEvent
  <2> QED BY <2>2, <2>3, <2>4, <2>5 DEF ClaimProtocol
<1>e. ASSUME NEW c \in Docs, MhRecepcion(c) PROVE ClaimProtocol'
  <2>1. /\ recepcion[c] = "IN_FLIGHT" /\ recepcion'[c] \in {"PROCESADO", "RECHAZADO"}
        /\ \A d \in Docs \ {c} : recepcion'[d] = recepcion[d]
        /\ UNCHANGED <<dte_documents, dte_events, run, posts, anulacion>>
    BY <1>e DEF MhRecepcion, TypeOK
  <2>2. ASSUME NEW q \in Runs PROVE RunKnows(q)'
    <3>1. RunKnows(q)
      BY DEF ClaimProtocol
    <3> QED BY <2>1, <3>1 DEF RunKnows, OwnsTransmission, Row
  <2>3. ASSUME NEW d \in Docs PROVE RowKnows(d)'
    <3>1. RowKnows(d)
      BY DEF ClaimProtocol
    <3> QED BY <2>1, <3>1 DEF RowKnows
  <2>4. (\A e \in Runs : EventKnows(e))' /\ InvalidatedHasEvent' /\ OneAcceptedEvent'
    BY <2>1 DEF ClaimProtocol, EventKnows, InvalidatedHasEvent, OneAcceptedEvent
  <2> QED BY <2>2, <2>3, <2>4 DEF ClaimProtocol
<1>f. CASE UNCHANGED vars
  BY <1>f DEF vars, ClaimProtocol, RunKnows, RowKnows, EventKnows, InvalidatedHasEvent,
              OneAcceptedEvent, OwnsTransmission, Row
<1> QED BY <1>a, <1>b, <1>c, <1>d, <1>e, <1>f DEF Next

\* The claim protocol is an invariant of every interleaving of queue
\* deliveries, cron sweeps, manual retries, annulments and crashes.
THEOREM ProtocolKept == Spec => []ClaimProtocol
<1>1. Init => ClaimProtocol
  BY DEF Init, ClaimProtocol, RunKnows, RowKnows, EventKnows, InvalidatedHasEvent,
         OneAcceptedEvent, IdleRun, NoEvent, createDteDocument, isTerminalDteStatus,
         TerminalStatus
<1> QED BY <1>1, ProtocolStep, TypeCorrect, PTL DEF Spec

\* No codigoGeneracion is ever POSTed twice to the Ministry, whichever of
\* processDteDocument, the sweep and the manual retry compete for it.
THEOREM NeverPostedTwice == Spec => []AtMostOnePost
<1>1. ClaimProtocol => AtMostOnePost
  BY DEF ClaimProtocol, RowKnows, AtMostOnePost
<1> QED BY <1>1, ProtocolKept, PTL

\* The ledger never contradicts the Ministry's verdicts.
THEOREM LedgerIsTrue == Spec => []LedgerAgreesWithMh
<1>1. ClaimProtocol => LedgerAgreesWithMh
  BY DEF ClaimProtocol, RowKnows, InvalidatedHasEvent, LedgerAgreesWithMh
<1> QED BY <1>1, ProtocolKept, PTL

\* A document whose POST has left the Worker is settled or stays claimed.
THEOREM UncertainIsFrozen == Spec => []UncertainStaysClaimed
<1>1. ClaimProtocol => UncertainStaysClaimed
  BY DEF ClaimProtocol, RowKnows, UncertainStaysClaimed, isTerminalDteStatus, TerminalStatus
<1> QED BY <1>1, ProtocolKept, PTL

\* An annulment the Ministry has or may have granted keeps its document: no
\* two annulments of one document are outstanding or granted together.
THEOREM OneAnnulment == Spec => [](AnnulmentStaysClaimed /\ AtMostOneAnulacion)
<1>1. ClaimProtocol => AnnulmentStaysClaimed
  BY DEF ClaimProtocol, EventKnows, AnnulmentStaysClaimed
<1>2. ClaimProtocol => AtMostOneAnulacion
  <2> SUFFICES ASSUME ClaimProtocol, NEW e \in Runs, NEW f \in Runs,
                      anulacion[e] \in {"IN_FLIGHT", "PROCESADO"},
                      anulacion[f] \in {"IN_FLIGHT", "PROCESADO"},
                      dte_events[e].document_id = dte_events[f].document_id
               PROVE  e = f
    BY DEF AtMostOneAnulacion
  <2> QED
    BY DEF ClaimProtocol, EventKnows, OneAcceptedEvent, OwnsInvalidation
<1> QED BY <1>1, <1>2, ProtocolKept, PTL

\* The verdict and the seal of document d survive a step.
KeepsVerdict(d) ==
    isTerminalDteStatus(dte_documents[d].status) =>
       /\ \/ dte_documents'[d].status = dte_documents[d].status
          \/ dte_documents[d].status = "ACCEPTED" /\ dte_documents'[d].status = "INVALIDATED"
       /\ dte_documents'[d].sello = dte_documents[d].sello

\* What the statements of finalization and annulment leave in a row.
LEMMA KeptColumns ==
    ASSUME NEW row \in DteRow, NEW id, NEW accepted
    PROVE  /\ markDocumentPostAcceptFinalized(row).status = row.status
           /\ markDocumentPostAcceptFinalized(row).sello = row.sello
           /\ claimDocumentInvalidation(row, id).status = row.status
           /\ claimDocumentInvalidation(row, id).sello = row.sello
           /\ WithoutOperation(row).status = row.status
           /\ WithoutOperation(row).sello = row.sello
           /\ completeDocumentInvalidation(row, accepted).sello = row.sello
           /\ completeDocumentInvalidation(row, accepted).status \in {"INVALIDATED", "ACCEPTED"}
  BY DEF DteRow, markDocumentPostAcceptFinalized, claimDocumentInvalidation, WithoutOperation,
         completeDocumentInvalidation

\* No step of any handler overwrites a verdict.
LEMMA VerdictStep ==
    ASSUME TypeOK, ClaimProtocol, [Next]_vars, NEW d \in Docs
    PROVE  KeepsVerdict(d)
<1>u. dte_documents' = dte_documents => KeepsVerdict(d)
  BY DEF KeepsVerdict
<1>a. ASSUME NEW r \in Runs, NEW e \in Docs, Start(r, e) PROVE KeepsVerdict(d)
  BY <1>a, <1>u DEF Start, StartProcess, StartSweep, StartRetry, StartInvalidate,
                    StartFinalize, Begin
<1>b. ASSUME NEW r \in Runs, Step(r) \/ Crash(r) PROVE KeepsVerdict(d)
  <2>k. RunKnows(r)
    BY DEF ClaimProtocol
  <2>t. dte_documents[d] \in DteRow /\ dte_documents \in [Docs -> DteRow]
    BY DEF TypeOK
  <2>o. run[r].doc # d => \A row : SetRow(r, row) => KeepsVerdict(d)
    BY <2>t DEF SetRow, KeepsVerdict
  <2>s. run[r].doc = d => Row(r) = dte_documents[d] /\ \A row : SetRow(r, row) => dte_documents'[d] = row
    BY <2>t DEF SetRow, Row
  <2> USE DEF KeepsVerdict, isTerminalDteStatus, TerminalStatus
  <2>1. CASE Sign(r)
    BY <2>1, <2>k, <2>t, <2>o, <2>s, <1>u
    DEF Sign, UpdateRow, RunKnows, At, DteRow, updateDocumentSignedEnabled, updateDocumentSigned
  <2>2. CASE SignThrows(r)
    BY <2>2, <2>k, <2>t, <2>o, <2>s, <1>u
    DEF SignThrows, UpdateRow, RunKnows, At, DteRow, updateDocumentSignedEnabled, updateDocumentSigned
  <2>3. CASE MarkFailed(r)
    BY <2>3, <2>k, <2>t, <2>o, <2>s, <1>u
    DEF MarkFailed, UpdateRow, RunKnows, At, DteRow, markDocumentFailedEnabled
  <2>4. CASE Claim(r)
    BY <2>4, <2>k, <2>t, <2>o, <2>s, <1>u
    DEF Claim, UpdateRow, RunKnows, At, DteRow, claimDocumentTransmissionEnabled
  <2>5. CASE PreDispatchFailed(r)
    BY <2>5, <2>k, <2>t, <2>o, <2>s, <1>u
    DEF PreDispatchFailed, UpdateRow, RunKnows, At, DteRow, OwnsTransmission, Row
  <2>6. CASE Complete(r)
    BY <2>6, <2>k, <2>t, <2>o, <2>s, <1>u
    DEF Complete, UpdateRow, RunKnows, At, DteRow, OwnsTransmission, Row
  <2>7. CASE FinClaim(r)
    BY <2>7, <2>k, <2>t, <2>o, <2>s, <1>u
    DEF FinClaim, UpdateRow, RunKnows, At, DteRow, claimDocumentPostAcceptFinalization
  <2>8. CASE FinMark(r)
    BY <2>8, <2>k, <2>t, <2>o, <2>s, <1>u, KeptColumns
    DEF FinMark, UpdateRow, RunKnows, At
  <2>9. CASE FinRelease(r)
    BY <2>9, <2>k, <2>t, <2>o, <2>s, <1>u
    DEF FinRelease, UpdateRow, RunKnows, At, DteRow, releaseDocumentPostAcceptFinalization
  <2>10. CASE InvClaim(r)
    BY <2>10, <2>k, <2>t, <2>o, <2>s, <1>u, KeptColumns
    DEF InvClaim, UpdateRow, RunKnows, At
  <2>11. CASE InvAttach(r)
    BY <2>11, <2>k, <2>t, <2>o, <2>s, <1>u
    DEF InvAttach, UpdateRow, RunKnows, At, DteRow, createAndAttachDocumentInvalidationEvent
  <2>12. CASE InvRelease(r)
    BY <2>12, <2>k, <2>t, <2>o, <2>s, <1>u, KeptColumns
    DEF InvRelease, UpdateRow, RunKnows, At, releaseDocumentFiscalOperation
  <2>13. CASE InvPreDispatchFailed(r)
    BY <2>13, <2>k, <2>t, <2>o, <2>s, <1>u, KeptColumns
    DEF InvPreDispatchFailed, UpdateRow, RunKnows, At
  <2>14. CASE InvComplete(r)
    BY <2>14, <2>k, <2>t, <2>o, <2>s, <1>u, KeptColumns
    DEF InvComplete, UpdateRow, RunKnows, At, OwnsInvalidation, Row
  <2>15. CASE Catch(r) \/ TokenFails(r) \/ Post(r) \/ Reply(r) \/ InvTokenFails(r)
             \/ InvPost(r) \/ InvReply(r) \/ Crash(r)
    BY <2>15, <1>u DEF Catch, TokenFails, Post, Reply, InvTokenFails, InvPost, InvReply,
                       Crash, ReadReply
  <2> QED BY <1>b, <2>1, <2>2, <2>3, <2>4, <2>5, <2>6, <2>7, <2>8, <2>9, <2>10, <2>11, <2>12, <2>13, <2>14, <2>15 DEF Step
<1>c. ASSUME NEW r \in Runs, MhAnulacion(r) PROVE KeepsVerdict(d)
  BY <1>c, <1>u DEF MhAnulacion
<1>d. ASSUME NEW e \in Docs, MhRecepcion(e) PROVE KeepsVerdict(d)
  BY <1>d, <1>u DEF MhRecepcion
<1>e. CASE UNCHANGED vars
  BY <1>e, <1>u DEF vars
<1> QED BY <1>a, <1>b, <1>c, <1>d, <1>e DEF Next

\* A recorded verdict and its seal are never overwritten: the catch block's
\* markDocumentFailed, a late retry or a second delivery cannot degrade them.
THEOREM VerdictsAreFinal == Spec => VerdictIsFinal
<1>1. TypeOK /\ ClaimProtocol /\ [Next]_vars =>
        [\A d \in Docs :
           LET old == dte_documents[d]
               new == dte_documents'[d]
           IN  isTerminalDteStatus(old.status) =>
                 /\ \/ new.status = old.status
                    \/ old.status = "ACCEPTED" /\ new.status = "INVALIDATED"
                 /\ new.sello = old.sello]_vars
  BY VerdictStep DEF KeepsVerdict
<1> QED BY <1>1, TypeCorrect, ProtocolKept, PTL DEF Spec, VerdictIsFinal

-----------------------------------------------------------------------------
(* The handlers implement LegalSubmission: seen through the ledger, each   *)
(* of their steps is a step of the promise or leaves it as it was.         *)

\* What a step of a handler that sends nothing to the Ministry may do to the
\* ledger and to the annulments already granted.
WritesLocally(r) ==
    /\ UNCHANGED mhVars
    /\ \A d \in Docs : d # run[r].doc => dte_documents'[d] = dte_documents[d]
    /\ \A d \in Docs : dte_documents'[d].status = "INVALIDATED" =>
                         dte_documents[d].status \in {"INVALIDATED", "ACCEPTED"}
    /\ \A e \in Runs : anulacion[e] = "PROCESADO" =>
                         dte_events'[e].document_id = dte_events[e].document_id

\* Every step of a handler but the two POSTs is such a step.
LEMMA HandlerWritesLocally ==
    ASSUME TypeOK, ClaimProtocol, NEW r \in Runs, Step(r) \/ Crash(r), ~Post(r), ~InvPost(r)
    PROVE  WritesLocally(r)
<1> DEFINE c == run[r].doc
<1>k. RunKnows(r)
  BY DEF ClaimProtocol
<1>t. dte_documents \in [Docs -> DteRow] /\ dte_events \in [Runs -> EventRow]
  BY DEF TypeOK
<1>d. c \in Docs /\ Row(r) \in DteRow
  <2>1. run[r].pc # "idle"
    BY DEF Step, Crash, Sign, SignThrows, Catch, MarkFailed, Claim, TokenFails, PreDispatchFailed,
           Post, Reply, Complete, FinClaim, FinMark, FinRelease, InvClaim, InvAttach, InvRelease,
           InvTokenFails, InvPreDispatchFailed, InvPost, InvReply, InvComplete, At
  <2> QED BY <2>1, <1>k, <1>t DEF RunKnows, Row
<1>s. ASSUME NEW row, SetRow(r, row)
      PROVE  /\ dte_documents'[c] = row
             /\ \A d \in Docs : d # c => dte_documents'[d] = dte_documents[d]
  BY <1>s, <1>t, <1>d DEF SetRow
<1>u. ASSUME NEW enabled \in BOOLEAN, NEW row, UpdateRow(r, enabled, row),
             UNCHANGED <<dte_events, mhVars>>,
             row.status # "INVALIDATED" \/ row.status = Row(r).status
      PROVE  WritesLocally(r)
  <2>1. /\ dte_documents'[c] = IF enabled THEN row ELSE Row(r)
        /\ \A d \in Docs : d # c => dte_documents'[d] = dte_documents[d]
    BY <1>s, <1>u DEF UpdateRow
  <2> QED BY <1>u, <1>d, <2>1 DEF WritesLocally, Row
<1>e. ASSUME NEW row, NEW status, SetRow(r, row), SetEvent(r, status, c), UNCHANGED mhVars,
             anulacion[r] = "PROCESADO" => dte_events[r].document_id = c,
             Row(r).status = "ACCEPTED"
      PROVE  WritesLocally(r)
  <2>1. \A e \in Runs : anulacion[e] = "PROCESADO" =>
                          dte_events'[e].document_id = dte_events[e].document_id
    BY <1>e, <1>t DEF SetEvent
  <2>2. /\ dte_documents'[c] = row
        /\ \A d \in Docs : d # c => dte_documents'[d] = dte_documents[d]
    BY <1>s, <1>e
  <2> QED BY <1>e, <1>d, <2>1, <2>2 DEF WritesLocally, Row
<1>n. UNCHANGED <<dte_documents, dte_events, mhVars>> => WritesLocally(r)
  BY DEF WritesLocally
<1>1. CASE Sign(r)
  BY <1>1, <1>d, <1>u DEF Sign, DteRow, updateDocumentSigned, updateDocumentSignedEnabled
<1>2. CASE SignThrows(r)
  BY <1>2, <1>d, <1>u DEF SignThrows, DteRow, updateDocumentSigned, updateDocumentSignedEnabled
<1>3. CASE MarkFailed(r)
  BY <1>3, <1>d, <1>u DEF MarkFailed, DteRow, markDocumentFailed, markDocumentFailedEnabled,
                          WithoutOperation
<1>4. CASE Claim(r)
  BY <1>4, <1>d, <1>u DEF Claim, DteRow, claimDocumentTransmission, claimDocumentTransmissionEnabled
<1>5. CASE PreDispatchFailed(r)
  BY <1>5, <1>d, <1>u DEF PreDispatchFailed, DteRow, markDocumentTransmissionDeferred,
                          markDocumentTransmissionDeferredEnabled, WithoutOperation,
                          releaseDocumentFiscalOperation, releaseDocumentFiscalOperationEnabled
<1>6. CASE Complete(r)
  BY <1>6, <1>d, <1>u DEF Complete, DteRow, completeDocumentTransmission, WithoutOperation,
                          completeDocumentTransmissionEnabled
<1>7. CASE FinClaim(r)
  BY <1>7, <1>d, <1>u DEF FinClaim, DteRow, claimDocumentPostAcceptFinalization,
                          claimDocumentPostAcceptFinalizationEnabled
<1>8. CASE FinMark(r)
  BY <1>8, <1>d, <1>u DEF FinMark, DteRow, markDocumentPostAcceptFinalized,
                          markDocumentPostAcceptFinalizedEnabled
<1>9. CASE FinRelease(r)
  BY <1>9, <1>d, <1>u DEF FinRelease, DteRow, releaseDocumentPostAcceptFinalization,
                          releaseDocumentPostAcceptFinalizationEnabled
<1>10. CASE InvClaim(r)
  BY <1>10, <1>d, <1>u DEF InvClaim, DteRow, claimDocumentInvalidation,
                           claimDocumentInvalidationEnabled
<1>11. CASE InvAttach(r)
  BY <1>11, <1>k, <1>e, <1>n
  DEF InvAttach, At, RunKnows, OwnsInvalidation, createAndAttachDocumentInvalidationEventEnabled
<1>12. CASE InvRelease(r)
  BY <1>12, <1>d, <1>u DEF InvRelease, DteRow, WithoutOperation, releaseDocumentFiscalOperation,
                           releaseDocumentFiscalOperationEnabled
<1>13. CASE InvPreDispatchFailed(r)
  BY <1>13, <1>k, <1>e, <1>n
  DEF InvPreDispatchFailed, At, RunKnows, OwnsInvalidation,
      releaseDocumentInvalidationBeforeDispatchEnabled
<1>14. CASE InvComplete(r)
  BY <1>14, <1>k, <1>e, <1>n
  DEF InvComplete, At, RunKnows, OwnsInvalidation, completeDocumentInvalidationEnabled
<1>15. CASE Catch(r) \/ TokenFails(r) \/ Reply(r) \/ InvTokenFails(r) \/ InvReply(r) \/ Crash(r)
  BY <1>15, <1>n DEF Catch, TokenFails, Reply, InvTokenFails, InvReply, Crash, ReadReply
<1> QED BY <1>1, <1>2, <1>3, <1>4, <1>5, <1>6, <1>7, <1>8, <1>9, <1>10, <1>11, <1>12, <1>13,
           <1>14, <1>15 DEF Step

\* The row as the promise sees it.
LedgerOf(row) ==
    CASE row.status = "ACCEPTED"    -> "PROCESADO"
      [] row.status = "REJECTED"    -> "RECHAZADO"
      [] row.status = "INVALIDATED" -> "ANULADO"
      [] OTHER                      -> "OPEN"

AnnulledDocs == {d \in Docs : \E e \in Runs : /\ dte_events[e].document_id = d
                                             /\ anulacion[e] = "PROCESADO"}

\* A handler that writes locally records a verdict the Ministry has given, or
\* an annulment it has granted, or nothing the promise is about.
LEMMA LocalStepIsLegal ==
    ASSUME TypeOK, ClaimProtocol, ClaimProtocol', [Next]_vars, NEW r \in Runs, WritesLocally(r)
    PROVE  [Legal!Next]_(Legal!legalVars)
<1>0. PICK c : c = run[r].doc
  OBVIOUS
<1>1. UNCHANGED <<posts, recepcion, anulacion>> /\ AnnulledDocs' = AnnulledDocs
  <2>1. UNCHANGED <<posts, recepcion, anulacion>>
    BY DEF WritesLocally, mhVars
  <2> QED BY <2>1 DEF WritesLocally, AnnulledDocs
<1>2. \A d \in Docs : d # c => LedgerOf(dte_documents'[d]) = LedgerOf(dte_documents[d])
  BY <1>0 DEF WritesLocally
<1>3. CASE c \notin Docs \/ LedgerOf(dte_documents'[c]) = LedgerOf(dte_documents[c])
  <2>1. [d \in Docs |-> LedgerOf(dte_documents'[d])] = [d \in Docs |-> LedgerOf(dte_documents[d])]
    BY <1>2, <1>3
  <2> QED BY <1>1, <2>1 DEF Legal!legalVars, AnnulledDocs, LedgerOf
<1>4. CASE c \in Docs /\ LedgerOf(dte_documents'[c]) # LedgerOf(dte_documents[c])
  <2>1. KeepsVerdict(c) /\ RowKnows(c)'
    BY <1>4, VerdictStep DEF ClaimProtocol
  <2>2. CASE dte_documents'[c].status = "INVALIDATED"
    <3>1. dte_documents[c].status = "ACCEPTED"
      BY <1>4, <2>2 DEF WritesLocally, LedgerOf
    <3>2. c \in AnnulledDocs
      <4>1. PICK e \in Runs : /\ dte_events'[e] = [status |-> "ACCEPTED", document_id |-> c]
                             /\ anulacion'[e] = "PROCESADO"
        BY <1>4, <2>2 DEF ClaimProtocol, InvalidatedHasEvent
      <4>2. c \in AnnulledDocs'
        BY <1>4, <4>1 DEF AnnulledDocs
      <4> QED BY <1>1, <4>2
    <3>3. [d \in Docs |-> LedgerOf(dte_documents'[d])]
            = [[d \in Docs |-> LedgerOf(dte_documents[d])] EXCEPT ![c] = "ANULADO"]
      <4>1. LedgerOf(dte_documents'[c]) = "ANULADO"
        BY <2>2 DEF LedgerOf
      <4> QED BY <1>2, <1>4, <4>1
    <3>4. Legal!RecordAnnulment(c)
      BY <1>1, <1>4, <3>1, <3>2, <3>3 DEF Legal!RecordAnnulment, LedgerOf, AnnulledDocs
    <3> QED BY <1>4, <3>4 DEF Legal!Next
  <2>3. CASE dte_documents'[c].status # "INVALIDATED"
    <3>1. /\ LedgerOf(dte_documents[c]) = "OPEN"
          /\ LedgerOf(dte_documents'[c]) = recepcion[c]
          /\ recepcion[c] \in {"PROCESADO", "RECHAZADO"}
      BY <1>1, <1>4, <2>1, <2>3 DEF KeepsVerdict, RowKnows, LedgerOf, isTerminalDteStatus,
                                    TerminalStatus
    <3>3. [d \in Docs |-> LedgerOf(dte_documents'[d])]
            = [[d \in Docs |-> LedgerOf(dte_documents[d])] EXCEPT ![c] = recepcion[c]]
      BY <1>2, <1>4, <3>1
    <3>4. Legal!Record(c)
      BY <1>1, <1>4, <3>1, <3>3 DEF Legal!Record, LedgerOf, AnnulledDocs
    <3> QED BY <1>4, <3>4 DEF Legal!Next
  <2> QED BY <2>2, <2>3
<1> QED BY <1>3, <1>4

\* Every step of every handler, and of the Ministry, keeps the promise.
LEMMA EveryStepIsLegal ==
    ASSUME TypeOK, ClaimProtocol, ClaimProtocol', [Next]_vars
    PROVE  [Legal!Next]_(Legal!legalVars)
<1>1. CASE UNCHANGED vars
  BY <1>1 DEF vars, Legal!legalVars
<1>2. ASSUME NEW r \in Runs, NEW d \in Docs, Start(r, d)
      PROVE  [Legal!Next]_(Legal!legalVars)
  BY <1>2 DEF Start, StartProcess, StartSweep, StartRetry, StartInvalidate, StartFinalize, Begin,
              mhVars, Legal!legalVars
<1>3. ASSUME NEW r \in Runs, Post(r) PROVE [Legal!Next]_(Legal!legalVars)
  <2>0. PICK c : c = run[r].doc
    OBVIOUS
  <2>1. /\ c \in Docs /\ posts[c] = 0 /\ recepcion[c] = "NONE"
        /\ posts' = [posts EXCEPT ![c] = 1]
        /\ recepcion' = [recepcion EXCEPT ![c] = "IN_FLIGHT"]
        /\ UNCHANGED <<dte_documents, dte_events, anulacion>>
    <3>1. RunKnows(r) /\ run[r].pc = "dispatch"
      BY <1>3 DEF Post, At, ClaimProtocol
    <3>2. c \in Docs /\ posts[c] = 0
      BY <2>0, <3>1 DEF RunKnows
    <3>3. recepcion[c] = "NONE"
      BY <3>2 DEF ClaimProtocol, RowKnows
    <3> QED BY <1>3, <2>0, <3>2, <3>3 DEF Post, TypeOK
  <2>2. {d \in Docs : posts'[d] > 0} = {d \in Docs : posts[d] > 0} \cup {c}
    BY <2>1 DEF TypeOK
  <2>3. [d \in Docs |-> IF recepcion'[d] = "IN_FLIGHT" THEN "NONE" ELSE recepcion'[d]]
          = [d \in Docs |-> IF recepcion[d] = "IN_FLIGHT" THEN "NONE" ELSE recepcion[d]]
    BY <2>1 DEF TypeOK
  <2>4. Legal!Submit(c)
    BY <2>1, <2>2, <2>3 DEF Legal!Submit
  <2> QED BY <2>1, <2>4 DEF Legal!Next
<1>4. ASSUME NEW r \in Runs, InvPost(r) PROVE [Legal!Next]_(Legal!legalVars)
  <2>1. /\ anulacion[r] = "NONE" /\ anulacion' = [anulacion EXCEPT ![r] = "IN_FLIGHT"]
        /\ UNCHANGED <<dte_documents, dte_events, posts, recepcion>>
    BY <1>4 DEF InvPost, At, ClaimProtocol, RunKnows
  <2>2. AnnulledDocs' = AnnulledDocs
    BY <2>1 DEF AnnulledDocs, TypeOK
  <2> QED BY <2>1, <2>2 DEF Legal!legalVars, AnnulledDocs
<1>5. ASSUME NEW r \in Runs, Step(r) \/ Crash(r), ~Post(r), ~InvPost(r)
      PROVE  [Legal!Next]_(Legal!legalVars)
  BY <1>5, HandlerWritesLocally, LocalStepIsLegal
<1>6. ASSUME NEW r \in Runs, MhAnulacion(r) PROVE [Legal!Next]_(Legal!legalVars)
  <2>0. PICK c : c = dte_events[r].document_id
    OBVIOUS
  <2>1. PICK verdict \in {"PROCESADO", "RECHAZADO"} :
           /\ anulacion[r] = "IN_FLIGHT" /\ anulacion' = [anulacion EXCEPT ![r] = verdict]
           /\ UNCHANGED <<dte_documents, dte_events, run, posts, recepcion>>
    BY <1>6 DEF MhAnulacion
  <2>2. CASE verdict = "RECHAZADO"
    <3>1. AnnulledDocs' = AnnulledDocs
      BY <2>1, <2>2 DEF AnnulledDocs, TypeOK
    <3> QED BY <2>1, <3>1 DEF Legal!legalVars, AnnulledDocs
  <2>3. CASE verdict = "PROCESADO"
    <3>1. EventKnows(r) /\ EventKnows(r)'
      BY DEF ClaimProtocol
    <3>2. /\ c \in Docs /\ dte_documents[c].status = "ACCEPTED"
          /\ OwnsInvalidation(dte_documents[c], r, r)
      BY <2>0, <2>1, <3>1 DEF EventKnows, OwnsInvalidation
    <3>3. c \notin AnnulledDocs
      <4> SUFFICES ASSUME NEW e \in Runs, dte_events[e].document_id = c, anulacion[e] = "PROCESADO"
                   PROVE  FALSE
        BY DEF AnnulledDocs
      <4>1. EventKnows(e)
        BY DEF ClaimProtocol
      <4> QED BY <2>1, <3>2, <4>1 DEF EventKnows, OwnsInvalidation
    <3>4. AnnulledDocs' = AnnulledDocs \cup {c}
      BY <2>0, <2>1, <2>3, <3>2 DEF AnnulledDocs, TypeOK
    <3>5. Legal!Annul(c)
      BY <2>1, <3>2, <3>3, <3>4 DEF Legal!Annul, AnnulledDocs
    <3> QED BY <3>2, <3>5 DEF Legal!Next
  <2> QED BY <2>1, <2>2, <2>3
<1>7. ASSUME NEW c \in Docs, MhRecepcion(c) PROVE [Legal!Next]_(Legal!legalVars)
  <2>1. PICK verdict \in {"PROCESADO", "RECHAZADO"} :
           /\ recepcion[c] = "IN_FLIGHT" /\ recepcion' = [recepcion EXCEPT ![c] = verdict]
           /\ UNCHANGED <<dte_documents, dte_events, run, posts, anulacion>>
    BY <1>7 DEF MhRecepcion
  <2>2. c \in {d \in Docs : posts[d] > 0}
    BY <2>1 DEF ClaimProtocol, RowKnows, TypeOK
  <2>3. [d \in Docs |-> IF recepcion'[d] = "IN_FLIGHT" THEN "NONE" ELSE recepcion'[d]]
          = [[d \in Docs |-> IF recepcion[d] = "IN_FLIGHT" THEN "NONE" ELSE recepcion[d]]
                EXCEPT ![c] = verdict]
    BY <2>1 DEF TypeOK
  <2>4. Legal!Decide(c, verdict)
    BY <2>1, <2>2, <2>3 DEF Legal!Decide
  <2> QED BY <2>4 DEF Legal!Next
<1> QED BY <1>1, <1>2, <1>3, <1>4, <1>5, <1>6, <1>7 DEF Next

\* The handlers keep the promise of LegalSubmission: each document is
\* submitted at most once, the ledger takes the Ministry's verdict and takes it
\* once, and only a granted annulment changes it later.
THEOREM HandlersAreLegal == Spec => LegalSpec
<1>1. Init => Legal!Init
  BY DEF Init, Legal!Init, createDteDocument
<1>2. TypeOK /\ ClaimProtocol /\ ClaimProtocol' /\ [Next]_vars => [Legal!Next]_(Legal!legalVars)
  BY EveryStepIsLegal
<1> QED BY <1>1, <1>2, TypeCorrect, ProtocolKept, PTL DEF Spec, LegalSpec, Legal!Spec

=============================================================================
