---------------------- MODULE FiscalCorrectionsProofs ----------------------
(***************************************************************************)
(* Proofs about FiscalCorrections, for any number of documents,            *)
(* corrections, processing claims and handlers in flight, whichever of the *)
(* other handlers run and whether deliveries overlap or not.               *)
(***************************************************************************)
EXTENDS FiscalCorrections, TLAPS

-----------------------------------------------------------------------------
(* The inductive invariant: the tables.                                    *)

\* A payment's codigo is on its CDE, that of a correction on its document.
Placed(k, d) ==
    /\ k \in Docs => k = d /\ "PAYMENT" \in Kinds
    /\ k \in Corrections => /\ fiscal_corrections[k].kind = "DTE_DOCUMENT"
                            /\ fiscal_corrections[k].document = d

Places ==
    /\ \A d \in Docs :
          /\ Placed(codigo_generacion[d], d)
          /\ codigo_generacion[d] = NULL => dte_documents[d].status = "REJECTED"
          /\ dte_documents[d].op_claim \in Corrections =>
                /\ fiscal_corrections[dte_documents[d].op_claim].kind # "NONE"
                /\ fiscal_corrections[dte_documents[d].op_claim].document = d
    /\ \A c \in Corrections :
          LET x == fiscal_corrections[c] IN
          /\ x.kind = "NONE" <=> x.status = "NONE"
          /\ x.kind # "NONE" => /\ x.document \in Docs
                                /\ x.source.codigo # c
                                /\ Placed(x.source.codigo, x.document)

\* What a correction replaces has been rejected.
Sources ==
    \A c \in Corrections : fiscal_corrections[c].source.codigo \in NewCodes =>
       recepcion[fiscal_corrections[c].source.codigo] = "RECHAZADO"

\* A codigo is sent once, and what has left its row was rejected.
Posts ==
    \A k \in NewCodes :
       /\ posts[k] <= 1
       /\ posts[k] = 0 <=> recepcion[k] = "NONE"
       /\ posts[k] > 0 =>
             /\ k \in Corrections => fiscal_corrections[k].kind = "DTE_DOCUMENT"
             /\ codigo_generacion[DocumentOf(k)] # k => recepcion[k] = "RECHAZADO"

Terminal(d) == isTerminalDteStatus(dte_documents[d].status)

\* The row tells the truth about what was sent, and keeps the claim until the
\* verdict; that of a correction does so with the dispatch marker.
Truthful(d) ==
    LET row == dte_documents[d]
        k   == codigo_generacion[d]
    IN
    k \in NewCodes =>
       /\ row.status = "REJECTED" => recepcion[k] = "RECHAZADO"
       /\ row.status \in {"ACCEPTED", "INVALIDATED"} => recepcion[k] = "PROCESADO"
       /\ row.status = "INVALIDATED" => k \in annulled
       /\ posts[k] > 0 /\ ~Terminal(d) =>
             /\ row.status = "SIGNED"
             /\ row.op_claim # NULL
             /\ row.op_claim \in Corrections => fiscal_corrections[row.op_claim].dispatched

\* A rejected row under the claim of a correction is the one it replaces.
Replaced(d) ==
    LET row == dte_documents[d]
        c   == row.op_claim
    IN
    row.status = "REJECTED" /\ c \in Corrections =>
       /\ fiscal_corrections[c].kind = "DTE_DOCUMENT"
       /\ fiscal_corrections[c].document = d
       /\ fiscal_corrections[c].source.codigo = codigo_generacion[d]
       /\ posts[c] = 0

Rows == \A d \in Docs : Truthful(d) /\ Replaced(d)

\* The messages on their way.
Sent ==
    \A t \in Tokens : messages[t].at # "none" =>
       /\ messages[t].correction \in Corrections
       /\ fiscal_corrections[messages[t].correction].kind # "NONE"

-----------------------------------------------------------------------------
(* The inductive invariant: what a handler knows.                          *)

\* The handlers of a correction.
CorrectionPCs == ConsumerPCs \cup {"send", "recover"}

\* A delivery under the dispatch marker that it has set.
Undispatched(r) == run[r].pc \in {"error", "clear"} /\ run[r].error = "PRE_DISPATCH"

SendPCs == {"dispatch", "undo", "reply", "complete"}

Dispatches(r) == run[r].pc \in SendPCs \/ Undispatched(r)

TxPCs == {"tx_dispatch", "tx_reply", "tx_complete"}

InvPCs == {"inv_post", "inv_complete"}

\* The handlers that rely on a row they do not read again.
OwnerPCs == SendPCs \cup TxPCs \cup InvPCs

\* The row is signed, under this claim and under the codigo the handler sends.
Owns(r, claim) ==
    /\ dte_documents[run[r].document].status = "SIGNED"
    /\ dte_documents[run[r].document].op_claim = claim
    /\ codigo_generacion[run[r].document] = run[r].codigo
    /\ run[r].codigo \in NewCodes

Annuls(r) ==
    /\ dte_documents[run[r].document].status = "ACCEPTED"
    /\ dte_documents[run[r].document].op_claim = r
    /\ codigo_generacion[run[r].document] = run[r].codigo
    /\ run[r].pc = "inv_complete" /\ run[r].verdict = "ACCEPTED" => run[r].codigo \in annulled

\* What it has read of MH's answer is true.
HasVerdict(r) ==
    \/ run[r].verdict = "ACCEPTED" /\ recepcion[run[r].codigo] = "PROCESADO"
    \/ run[r].verdict = "REJECTED" /\ recepcion[run[r].codigo] = "RECHAZADO"

\* Whose work a handler does.
Works(r) ==
    /\ run[r].pc # "idle" => run[r].document \in Docs
    /\ run[r].pc \in CorrectionPCs =>
          /\ run[r].correction \in Corrections
          /\ fiscal_corrections[run[r].correction].kind # "NONE"
          /\ fiscal_corrections[run[r].correction].document = run[r].document

Knows(r) ==
    LET c  == run[r].correction
        d  == run[r].document
        pc == run[r].pc
    IN
    /\ Dispatches(r) => fiscal_corrections[c].dispatched
    /\ pc \in SendPCs => Owns(r, c)
    /\ pc \in TxPCs => Owns(r, r)
    /\ pc \in InvPCs => Annuls(r)
    /\ pc \in {"dispatch", "undo", "tx_dispatch"} => posts[run[r].codigo] = 0
    /\ pc \in {"reply", "tx_reply"} => posts[run[r].codigo] > 0
    /\ pc \in {"complete", "tx_complete"} => HasVerdict(r)
    /\ Undispatched(r) /\ dte_documents[d].op_claim = c /\ codigo_generacion[d] \in NewCodes =>
          posts[codigo_generacion[d]] = 0
    /\ pc \in {"sign", "sign_held", "claim_doc", "tx_claim"} =>
          ~isTerminalDteStatus(run[r].expected)
    /\ pc = "release" => run[r].error # "PRE_DISPATCH"
    /\ pc = "clear" => run[r].error = "PRE_DISPATCH"

\* Deliveries of a correction overlap, but one of them sends.
OneDispatches ==
    \A r, o \in Runs :
       Dispatches(r) /\ Dispatches(o) /\ run[r].correction = run[o].correction => r = o

RunsKnow == \A r \in Runs : Works(r) /\ Knows(r)

IInv ==
    /\ TypeOK
    /\ Places /\ Sources /\ Posts /\ Rows /\ Sent
    /\ RunsKnow
    /\ OneDispatches

-----------------------------------------------------------------------------
(* Facts about the names and the rows.                                     *)

LEMMA Names ==
    /\ Corrections \subseteq Ids /\ Runs \subseteq Ids /\ Runs \cap Corrections = {}
    /\ NULL \notin Ids /\ NULL \notin Docs /\ NULL \notin Tokens
    /\ Docs \cap Ids = {} /\ NULL \notin NewCodes
    /\ Corrections \subseteq NewCodes /\ NewCodes \subseteq Codes
  BY CorrectionsAreIds, RunsAreIds, NullIsNoName, NullIsNoId DEF NewCodes, Codes

LEMMA Typed ==
    ASSUME TypeOK
    PROVE  /\ \A c \in Corrections : fiscal_corrections[c] \in CorrectionRow
           /\ \A d \in Docs : /\ dte_documents[d] \in DteRow
                              /\ codigo_generacion[d] \in Codes
                              /\ wompi_events[d] \in W!WompiRow
           /\ \A t \in Tokens : messages[t] \in Message
           /\ \A r \in Runs : run[r] \in RunState
           /\ \A k \in NewCodes : posts[k] \in Nat /\ recepcion[k] \in MhTruth
  BY DEF TypeOK

-----------------------------------------------------------------------------
(* How a step moves its handler.                                           *)

\* Only the handler r moves.
Moves(r) ==
    /\ run' \in [Runs -> RunState]
    /\ \A o \in Runs \ {r} : run'[o] = run[o]

MessagesOK == messages \in [Tokens -> Message] /\ Sent

\* The corrections keep their targets.
SameTargets ==
    /\ fiscal_corrections' \in [Corrections -> CorrectionRow]
    /\ \A c \in Corrections :
          /\ fiscal_corrections'[c].kind = fiscal_corrections[c].kind
          /\ fiscal_corrections'[c].document = fiscal_corrections[c].document
          /\ fiscal_corrections'[c].source = fiscal_corrections[c].source
          /\ fiscal_corrections'[c].status = "NONE" <=> fiscal_corrections[c].status = "NONE"

SameMarks ==
    \A c \in Corrections :
       fiscal_corrections'[c].dispatched = fiscal_corrections[c].dispatched

SameDocuments == UNCHANGED <<docVars, mhVars>>

EventsOK ==
    /\ wompi_events \in [Docs -> W!WompiRow]
    /\ document_sequences \in Nat

\* Where a handler knows nothing but its work.
PlainPCs ==
    CorrectionPCs \ (SendPCs \cup {"error", "clear", "release", "sign", "sign_held", "claim_doc"})

IssuePCs == {"iss_check", "iss_park", "iss_create", "iss_release"}

\* It ends, or goes on with the same work and relies on nothing.
GoesOn(r) ==
    \/ run'[r] = IdleRun
    \/ /\ run'[r].correction = run[r].correction
       /\ run'[r].document = run[r].document
       /\ run[r].pc # "idle"
       /\ \/ /\ run[r].pc \in CorrectionPCs
             /\ \/ run'[r].pc \in PlainPCs
                \/ run'[r].pc \in {"error", "release"} /\ run'[r].error # "PRE_DISPATCH"
          \/ run'[r].pc \in IssuePCs

PCs == {"idle"} \cup ConsumerPCs \cup OtherPCs

LEMMA GotoMoves ==
    ASSUME TypeOK, NEW r \in Runs, NEW pc \in PCs, Goto(r, pc)
    PROVE  Moves(r) /\ run'[r] = [run[r] EXCEPT !.pc = pc]
  BY DEF TypeOK, Goto, Moves, RunState, PCs

LEMMA IdleIsRun == IdleRun \in RunState
  BY DEF IdleRun, RunState, Codes, DteStatus

LEMMA ReturnMoves ==
    ASSUME TypeOK, NEW r \in Runs, Return(r)
    PROVE  Moves(r) /\ run'[r] = IdleRun
  BY IdleIsRun DEF TypeOK, Return, Moves

LEMMA GotoPlain ==
    ASSUME IInv, NEW r \in Runs, NEW pc \in PlainPCs, Goto(r, pc), run[r].pc \in CorrectionPCs
    PROVE  Moves(r) /\ GoesOn(r)
<1>1. pc \in PCs /\ run[r].pc # "idle"
  BY DEF PCs, PlainPCs, CorrectionPCs, OtherPCs, ConsumerPCs, RebuildPCs, DispatchPCs, SettlePCs
<1>2. Moves(r) /\ run'[r] = [run[r] EXCEPT !.pc = pc] /\ run[r] \in RunState
  BY <1>1, GotoMoves DEF IInv, TypeOK
<1> QED BY <1>1, <1>2 DEF GoesOn, RunState

LEMMA ReturnPlain ==
    ASSUME IInv, NEW r \in Runs, Return(r)
    PROVE  Moves(r) /\ GoesOn(r)
  BY ReturnMoves DEF GoesOn, IInv

LEMMA RaiseErrorMoves ==
    ASSUME IInv, NEW r \in Runs, NEW error \in {"NONE", "PRE_DISPATCH", "BUSY", "OTHER"},
           RaiseError(r, error), run[r].pc \in CorrectionPCs
    PROVE  /\ Moves(r)
           /\ run'[r] = [run[r] EXCEPT !.pc = "error", !.error = error]
           /\ error # "PRE_DISPATCH" => GoesOn(r)
<1>1. "error" \in PCs /\ run[r].pc # "idle" /\ run[r] \in RunState
  BY DEF PCs, CorrectionPCs, OtherPCs, ConsumerPCs, RebuildPCs, DispatchPCs, SettlePCs, IInv, TypeOK
<1>2. [run[r] EXCEPT !.pc = "error", !.error = error] \in RunState
  BY <1>1 DEF RunState, PCs
<1>3. Moves(r) /\ run'[r] = [run[r] EXCEPT !.pc = "error", !.error = error]
  BY <1>2 DEF RaiseError, IInv, TypeOK, Moves
<1> QED BY <1>1, <1>3 DEF GoesOn, RunState

LEMMA ReleaseMoves ==
    ASSUME IInv, NEW r \in Runs, NEW error \in {"NONE", "BUSY", "OTHER"},
           Release(r, error), run[r].pc \in CorrectionPCs
    PROVE  Moves(r) /\ GoesOn(r)
<1>1. "release" \in PCs /\ run[r].pc # "idle" /\ run[r] \in RunState
  BY DEF PCs, CorrectionPCs, OtherPCs, ConsumerPCs, RebuildPCs, DispatchPCs, SettlePCs,
     SendPCs, IInv, TypeOK
<1>2. [run[r] EXCEPT !.pc = "release", !.error = error] \in RunState
  BY <1>1 DEF RunState, PCs
<1>3. Moves(r) /\ run'[r] = [run[r] EXCEPT !.pc = "release", !.error = error]
  BY <1>2 DEF Release, IInv, TypeOK, Moves
<1> QED BY <1>1, <1>3 DEF GoesOn, RunState

LEMMA FailInvalidMoves ==
    ASSUME IInv, NEW r \in Runs, FailInvalid(r), run[r].pc \in CorrectionPCs
    PROVE  Moves(r) /\ GoesOn(r)
<1>1. "fail" \in PCs /\ "fail" \in PlainPCs /\ run[r].pc # "idle" /\ run[r] \in RunState
  BY DEF PCs, PlainPCs, CorrectionPCs, OtherPCs, ConsumerPCs, RebuildPCs, DispatchPCs, SettlePCs,
     SendPCs, IInv, TypeOK
<1>2. Moves(r) /\ run'[r] = [run[r] EXCEPT !.pc = "fail", !.seen = run[r].token]
  BY <1>1 DEF FailInvalid, IInv, TypeOK, Moves, RunState, PCs
<1> QED BY <1>1, <1>2 DEF GoesOn, RunState

LEMMA SameMessages ==
    ASSUME IInv, SameTargets, UNCHANGED messages
    PROVE  MessagesOK'
  BY DEF IInv, TypeOK, SameTargets, MessagesOK, Sent

LEMMA NoMessageIsMessage == NoMessage \in Message
  BY LimitsAreTyped DEF NoMessage, Message

LEMMA AckMoves ==
    ASSUME IInv, NEW r \in Runs, SameTargets, Ack(r)
    PROVE  Moves(r) /\ GoesOn(r) /\ MessagesOK'
<1>1. Moves(r) /\ GoesOn(r)
  BY ReturnPlain DEF Ack
<1>2. /\ messages' = [messages EXCEPT ![run[r].token] = NoMessage]
      /\ messages \in [Tokens -> Message] /\ Sent
  BY DEF Ack, IInv, TypeOK
<1>3. \A t \in Tokens : messages'[t] = NoMessage \/ messages'[t] = messages[t]
  BY <1>2
<1>4. MessagesOK'
  BY <1>2, <1>3, NoMessageIsMessage DEF MessagesOK, Sent, SameTargets, NoMessage
<1> QED BY <1>1, <1>4

LEMMA RedeliverMoves ==
    ASSUME IInv, NEW r \in Runs, SameTargets, Redeliver(r)
    PROVE  Moves(r) /\ GoesOn(r) /\ MessagesOK'
<1>1. Moves(r) /\ GoesOn(r)
  BY ReturnPlain DEF Redeliver
<1>2. messages \in [Tokens -> Message] /\ Sent
  BY DEF IInv, TypeOK
<1>3. PICK n : /\ messages' = [messages EXCEPT ![run[r].token] = n]
               /\ run[r].token \in Tokens =>
                     \/ n = NoMessage
                     \/ n \in Message /\ messages[run[r].token].at # "none"
                          /\ n.correction = messages[run[r].token].correction
                     \/ n = messages[run[r].token]
  <2> DEFINE m == messages[run[r].token]
             n == CASE m.at = "none"                           -> m
                    [] m.at # "none" /\ m.tries < MaxRetries   -> [m EXCEPT !.tries = @ + 1]
                    [] m.at = "queue" /\ m.tries >= MaxRetries ->
                         [m EXCEPT !.at = "dlq", !.tries = 0]
                    [] m.at = "dlq" /\ m.tries >= MaxRetries   -> NoMessage
  <2>1. messages' = [messages EXCEPT ![run[r].token] = n]
    BY DEF Redeliver
  <2>2. ASSUME run[r].token \in Tokens
        PROVE  \/ n = NoMessage
               \/ n \in Message /\ m.at # "none" /\ n.correction = m.correction
               \/ n = m
    <3>1. m \in Message
      BY <1>2, <2>2
    <3>2. /\ m.at \in {"none", "queue", "dlq"} /\ m.tries \in 0..MaxRetries /\ MaxRetries \in Nat
      BY <3>1, LimitsAreTyped DEF Message
    <3>3. CASE m.at = "none"
      BY <3>3
    <3>4. CASE m.at # "none" /\ m.tries < MaxRetries
      <4>1. n = [m EXCEPT !.tries = @ + 1]
        BY <3>4, <3>2
      <4> QED BY <4>1, <3>1, <3>2, <3>4 DEF Message
    <3>5. CASE m.at = "queue" /\ m.tries >= MaxRetries
      <4>1. n = [m EXCEPT !.at = "dlq", !.tries = 0]
        BY <3>5, <3>2
      <4>2. 0 \in 0..MaxRetries
        BY <3>2
      <4> QED BY <4>1, <4>2, <3>1, <3>5 DEF Message
    <3>6. CASE m.at = "dlq" /\ m.tries >= MaxRetries
      BY <3>6, <3>2
    <3>7. m.at = "none" \/ m.tries < MaxRetries \/ m.tries >= MaxRetries
      BY <3>2
    <3> QED BY Zenon, <3>2, <3>3, <3>4, <3>5, <3>6, <3>7
  <2> QED BY Zenon, <2>1, <2>2
<1>4. ASSUME NEW t \in Tokens
      PROVE  /\ messages'[t] \in Message
             /\ messages'[t].at # "none" =>
                   messages[t].at # "none" /\ messages'[t].correction = messages[t].correction
  <2>1. messages[t] \in Message /\ NoMessage.at = "none"
    BY <1>2 DEF NoMessage
  <2>2. CASE t = run[r].token
    BY <1>2, <1>3, <2>1, <2>2, NoMessageIsMessage
  <2>3. CASE t # run[r].token
    BY <1>2, <1>3, <2>1, <2>3
  <2> QED BY <2>2, <2>3
<1>5. MessagesOK'
  <2>1. messages' \in [Tokens -> Message]
    BY <1>2, <1>3, <1>4
  <2> QED BY <1>2, <1>4, <2>1 DEF MessagesOK, Sent, SameTargets
<1> QED BY <1>1, <1>5

-----------------------------------------------------------------------------
(* What stays true.                                                        *)

LEMMA PlainIsApart ==
    /\ PlainPCs \cap (SendPCs \cup OwnerPCs \cup IssuePCs) = {}
    /\ IssuePCs \cap (SendPCs \cup OwnerPCs \cup CorrectionPCs) = {}
    /\ \A pc \in PlainPCs \cup IssuePCs :
          pc \notin {"idle", "error", "clear", "release", "sign", "sign_held", "claim_doc", "tx_claim"}
    /\ PlainPCs \subseteq CorrectionPCs
    /\ {"error", "clear", "release"} \subseteq CorrectionPCs /\ SendPCs \subseteq CorrectionPCs
    /\ "idle" \notin CorrectionPCs
  BY DEF PlainPCs, CorrectionPCs, SendPCs, OwnerPCs, IssuePCs, TxPCs, InvPCs, ConsumerPCs, RebuildPCs,
     DispatchPCs, SettlePCs

LEMMA WorksStays ==
    ASSUME IInv, SameTargets, NEW o \in Runs, run'[o] = run[o] \/ GoesOn(o)
    PROVE  Works(o)'
<1>1. Works(o)
  BY DEF IInv, RunsKnow
<1>2. CASE run'[o] = run[o]
  BY <1>1, <1>2 DEF Works, SameTargets
<1>3. CASE run'[o] = IdleRun
  BY <1>3, PlainIsApart DEF Works, IdleRun
<1>4. CASE GoesOn(o) /\ run'[o] # IdleRun
  BY <1>1, <1>4, PlainIsApart DEF GoesOn, Works, SameTargets
<1> QED BY <1>2, <1>3, <1>4

\* A handler that relies on nothing.
LEMMA GoesOnKnows ==
    ASSUME NEW o \in Runs, GoesOn(o)
    PROVE  Knows(o)' /\ ~Dispatches(o)'
<1>1. /\ run'[o].pc \notin OwnerPCs \cup SendPCs \cup {"sign", "sign_held", "claim_doc", "tx_claim"}
      /\ run'[o].pc = "release" => run'[o].error # "PRE_DISPATCH"
      /\ run'[o].pc # "clear"
      /\ ~Undispatched(o)'
  BY PlainIsApart DEF GoesOn, IdleRun, Undispatched, OwnerPCs, SendPCs, TxPCs, InvPCs
<1> QED BY <1>1 DEF Knows, Dispatches, OwnerPCs, SendPCs, TxPCs, InvPCs

\* A handler whose row keeps its status and its claim, and one that does not own
\* its row.
Unshaken(o) ==
    LET d == run[o].document IN
    \/ /\ dte_documents'[d].status = dte_documents[d].status
       /\ dte_documents'[d].op_claim = dte_documents[d].op_claim
       /\ codigo_generacion'[d] = codigo_generacion[d]
    \/ /\ run[o].pc \notin OwnerPCs
       /\ Undispatched(o) /\ dte_documents'[d].op_claim = run[o].correction
            /\ codigo_generacion'[d] \in NewCodes
          => posts[codigo_generacion'[d]] = 0

LEMMA KnowsStays ==
    ASSUME IInv, NEW o \in Runs, run'[o] = run[o], UNCHANGED mhVars,
           Dispatches(o) => fiscal_corrections'[run[o].correction].dispatched,
           Unshaken(o)
    PROVE  Knows(o)'
<1>1. Knows(o)
  BY DEF IInv, RunsKnow
<1>2. /\ Dispatches(o)' = Dispatches(o) /\ Undispatched(o)' = Undispatched(o)
      /\ HasVerdict(o)' = HasVerdict(o)
  BY DEF Dispatches, Undispatched, HasVerdict, mhVars
<1>3. CASE /\ dte_documents'[run[o].document].status = dte_documents[run[o].document].status
           /\ dte_documents'[run[o].document].op_claim = dte_documents[run[o].document].op_claim
           /\ codigo_generacion'[run[o].document] = codigo_generacion[run[o].document]
  <2>1. \A claim : Owns(o, claim)' = Owns(o, claim)
    BY <1>3 DEF Owns
  <2>2. Annuls(o)' = Annuls(o)
    BY <1>3 DEF Annuls, mhVars
  <2> QED BY <1>1, <1>2, <1>3, <2>1, <2>2 DEF Knows, mhVars
<1>4. CASE /\ run[o].pc \notin OwnerPCs
           /\ Undispatched(o) /\ dte_documents'[run[o].document].op_claim = run[o].correction
                /\ codigo_generacion'[run[o].document] \in NewCodes
              => posts[codigo_generacion'[run[o].document]] = 0
  <2>1. run[o].pc \notin SendPCs \cup TxPCs \cup InvPCs \cup {"dispatch", "undo", "tx_dispatch",
                        "reply", "tx_reply", "complete", "tx_complete"}
    BY <1>4 DEF OwnerPCs, SendPCs, TxPCs
  <2> QED BY <1>1, <1>2, <1>4, <2>1 DEF Knows, mhVars
<1> QED BY <1>3, <1>4 DEF Unshaken

LEMMA TargetsStay ==
    ASSUME IInv, SameTargets, UNCHANGED <<dte_documents, codigo_generacion, recepcion>>
    PROVE  Places' /\ Sources'
<1>1. \A k, d : Placed(k, d)' = Placed(k, d)
  BY DEF Placed, SameTargets
<1>2. Places'
  BY <1>1 DEF IInv, Places, SameTargets
<1>3. Sources'
  BY DEF IInv, Sources, SameTargets
<1> QED BY <1>2, <1>3

LEMMA OneDispatchesStays ==
    ASSUME IInv, NEW r \in Runs, Moves(r),
           Dispatches(r)' => Dispatches(r) /\ run'[r].correction = run[r].correction
    PROVE  OneDispatches'
<1>1. ASSUME NEW o \in Runs
      PROVE  Dispatches(o)' => Dispatches(o) /\ run'[o].correction = run[o].correction
  <2>1. CASE o = r
    BY <2>1
  <2>2. CASE o # r
    BY <2>2 DEF Moves, Dispatches, Undispatched
  <2> QED BY <2>1, <2>2
<1> QED BY <1>1 DEF IInv, OneDispatches

\* A step that touches neither the documents nor MH.
LEMMA QuietStep ==
    ASSUME IInv, NEW r \in Runs, Moves(r), SameTargets, SameMarks, SameDocuments, MessagesOK', EventsOK',
           \/ GoesOn(r)
           \/ run'[r] = run[r]
           \/ Works(r)' /\ Knows(r)' /\ (Dispatches(r)' => Dispatches(r) /\ run'[r].correction = run[r].correction)
    PROVE  IInv'
<1>1. TypeOK'
  BY DEF IInv, TypeOK, Moves, SameTargets, SameDocuments, docVars, mhVars, MessagesOK, EventsOK
<1>2. Places' /\ Sources'
  BY TargetsStay DEF SameDocuments, docVars, mhVars
<1>3. Posts'
  <2>1. \A k \in Corrections : DocumentOf(k)' = DocumentOf(k)
    BY DEF DocumentOf, SameTargets
  <2>2. \A k \in NewCodes : DocumentOf(k)' = DocumentOf(k)
    BY <2>1 DEF NewCodes, DocumentOf
  <2> QED BY <2>2 DEF IInv, Posts, SameTargets, SameDocuments, docVars, mhVars
<1>4. Rows'
  <2>1. ASSUME NEW d \in Docs PROVE Truthful(d)' /\ Replaced(d)'
    <3>1. Truthful(d) /\ Replaced(d) /\ Terminal(d)' = Terminal(d)
      BY DEF IInv, Rows, Terminal, SameDocuments, docVars
    <3> QED BY <3>1 DEF Truthful, Replaced, SameTargets, SameMarks, SameDocuments, docVars, mhVars
  <2> QED BY <2>1 DEF Rows
<1>5. RunsKnow'
  <2>1. ASSUME NEW o \in Runs, run'[o] = run[o] PROVE Works(o)' /\ Knows(o)'
    <3>1. Works(o)'
      BY <2>1, WorksStays
    <3>2. Dispatches(o) => fiscal_corrections'[run[o].correction].dispatched
      BY PlainIsApart DEF IInv, RunsKnow, Knows, Works, Dispatches, Undispatched, SameMarks
    <3>3. Knows(o)'
      BY <2>1, <3>2, KnowsStays DEF SameDocuments, docVars, Unshaken
    <3> QED BY <3>1, <3>3
  <2>2. Works(r)' /\ Knows(r)'
    BY <2>1, WorksStays, GoesOnKnows
  <2> QED BY <2>1, <2>2 DEF RunsKnow, Moves
<1>6. OneDispatches'
  <2>1. Dispatches(r)' => Dispatches(r) /\ run'[r].correction = run[r].correction
    BY GoesOnKnows DEF Dispatches, Undispatched
  <2> QED BY <2>1, OneDispatchesStays
<1> QED BY <1>1, <1>2, <1>3, <1>4, <1>5, <1>6 DEF IInv, MessagesOK

-----------------------------------------------------------------------------
(* The statements on a correction.                                         *)

\* Its target and its dispatch marker are left alone.
Keeps(x, y) ==
    /\ y \in CorrectionRow
    /\ y.kind = x.kind /\ y.document = x.document /\ y.source = x.source
    /\ y.dispatched = x.dispatched
    /\ y.status = "NONE" <=> x.status = "NONE"

LEMMA Statements ==
    ASSUME NEW x \in CorrectionRow, x.status # "NONE"
    PROVE  /\ Keeps(x, x)
           /\ \A status \in TERMINAL_FISCAL_CORRECTION_STATUSES : Keeps(x, Finalized(x, status))
           /\ Keeps(x, claimFiscalCorrectionProcessing(x))
           /\ Keeps(x, Renewed(x))
           /\ \A n \in Nat : Keeps(x, [Renewed(x) EXCEPT !.number = n])
           /\ \A t \in Tokens : Keeps(x, recoverFiscalCorrectionProcessingClaim(x, t))
           /\ Keeps(x, [x EXCEPT !.stale = TRUE])
           /\ Keeps(x, [x EXCEPT !.dispatched = @])
<1>1. Keeps(x, x) /\ Keeps(x, [x EXCEPT !.stale = TRUE]) /\ Keeps(x, [x EXCEPT !.dispatched = @])
  BY DEF Keeps, CorrectionRow
<1>2. \A status \in TERMINAL_FISCAL_CORRECTION_STATUSES : Keeps(x, Finalized(x, status))
  BY DEF Keeps, CorrectionRow, Finalized, TERMINAL_FISCAL_CORRECTION_STATUSES
<1>3. Keeps(x, claimFiscalCorrectionProcessing(x))
  BY DEF Keeps, CorrectionRow, claimFiscalCorrectionProcessing, OpenStatus
<1>4. Keeps(x, Renewed(x)) /\ \A n \in Nat : Keeps(x, [Renewed(x) EXCEPT !.number = n])
  BY DEF Keeps, CorrectionRow, Renewed
<1>5. \A t \in Tokens : Keeps(x, recoverFiscalCorrectionProcessingClaim(x, t))
  BY DEF Keeps, CorrectionRow, recoverFiscalCorrectionProcessingClaim, OpenStatus
<1> QED BY <1>1, <1>2, <1>3, <1>4, <1>5

LEMMA OfCorrection ==
    ASSUME IInv, NEW r \in Runs, run[r].pc \in CorrectionPCs
    PROVE  /\ run[r].correction \in Corrections
           /\ run[r].document \in Docs
           /\ Correction(r) \in CorrectionRow
           /\ Correction(r).kind # "NONE" /\ Correction(r).status # "NONE"
           /\ Correction(r).document = run[r].document
           /\ Document(r) \in DteRow /\ Codigo(r) \in Codes /\ Event(r) \in W!WompiRow
           /\ run[r] \in RunState
<1>1. Works(r) /\ run[r].pc # "idle"
  BY PlainIsApart DEF IInv, RunsKnow
<1>2. TypeOK
  BY DEF IInv
<1>3. run[r].correction \in Corrections /\ run[r].document \in Docs
  BY <1>1 DEF Works
<1>4. Correction(r).kind # "NONE" => Correction(r).status # "NONE"
  BY <1>3 DEF IInv, Places, Correction
<1> QED BY <1>1, <1>2, <1>3, <1>4, Typed DEF Works, Correction, Document, Codigo, Event

LEMMA Untouched ==
    ASSUME IInv, UNCHANGED fiscal_corrections
    PROVE  SameTargets /\ SameMarks
  BY DEF IInv, TypeOK, SameTargets, SameMarks

LEMMA OneWritten ==
    ASSUME IInv, NEW c \in Corrections, NEW y, Keeps(fiscal_corrections[c], y),
           fiscal_corrections' = [fiscal_corrections EXCEPT ![c] = y]
    PROVE  SameTargets /\ SameMarks
  BY DEF IInv, TypeOK, SameTargets, SameMarks, Keeps

LEMMA Written ==
    ASSUME IInv, NEW r \in Runs, run[r].pc \in CorrectionPCs, NEW y, Keeps(Correction(r), y),
           SetCorrection(r, y)
    PROVE  SameTargets /\ SameMarks
  BY OfCorrection, OneWritten DEF SetCorrection, Correction

\* The end of a delivery, and how it goes on.
LEMMA Ends ==
    ASSUME IInv, NEW r \in Runs, run[r].pc \in CorrectionPCs, SameTargets,
           \/ Ack(r)
           \/ Redeliver(r)
           \/ Throw(r)
           \/ \E pc \in PlainPCs : Proceed(r, pc) \/ (Goto(r, pc) /\ UNCHANGED messages)
           \/ \E error \in {"NONE", "BUSY", "OTHER"} : RaiseError(r, error) /\ UNCHANGED messages
           \/ FailInvalid(r) /\ UNCHANGED messages
           \/ \E error \in {"NONE", "BUSY", "OTHER"} : Release(r, error) /\ UNCHANGED messages
           \/ Return(r) /\ UNCHANGED messages
    PROVE  Moves(r) /\ GoesOn(r) /\ MessagesOK'
<1>1. CASE Ack(r)
  BY <1>1, AckMoves
<1>2. CASE Redeliver(r)
  BY <1>2, RedeliverMoves
<1>3. "handler" \in PlainPCs
  BY DEF PlainPCs, CorrectionPCs, ConsumerPCs, SendPCs
<1>4. CASE Throw(r)
  BY <1>3, <1>4, GotoPlain, SameMessages DEF Throw
<1>5. CASE \E pc \in PlainPCs : Proceed(r, pc) \/ (Goto(r, pc) /\ UNCHANGED messages)
  BY <1>5, GotoPlain, SameMessages DEF Proceed
<1>6. CASE \E error \in {"NONE", "BUSY", "OTHER"} : RaiseError(r, error) /\ UNCHANGED messages
  BY Zenon, <1>6, RaiseErrorMoves, SameMessages
<1>7. CASE FailInvalid(r) /\ UNCHANGED messages
  BY <1>7, FailInvalidMoves, SameMessages
<1>8. CASE \E error \in {"NONE", "BUSY", "OTHER"} : Release(r, error) /\ UNCHANGED messages
  BY <1>8, ReleaseMoves, SameMessages
<1>9. CASE Return(r) /\ UNCHANGED messages
  BY <1>9, ReturnPlain, SameMessages
<1> QED BY <1>1, <1>2, <1>4, <1>5, <1>6, <1>7, <1>8, <1>9

SameEvents == UNCHANGED otherVars

LEMMA EventsStay == IInv /\ SameEvents => EventsOK'
  BY DEF IInv, TypeOK, SameEvents, otherVars, EventsOK

\* A delivery that writes nothing but its correction.
Settles(r) ==
    /\ run[r].pc \in CorrectionPCs
    /\ SameDocuments /\ EventsOK'
    /\ UNCHANGED fiscal_corrections
         \/ \E y : Keeps(Correction(r), y) /\ SetCorrection(r, y)
    /\ \/ Ack(r)
       \/ Redeliver(r)
       \/ Throw(r)
       \/ \E pc \in PlainPCs : Proceed(r, pc) \/ (Goto(r, pc) /\ UNCHANGED messages)
       \/ \E error \in {"NONE", "BUSY", "OTHER"} : RaiseError(r, error) /\ UNCHANGED messages
       \/ FailInvalid(r) /\ UNCHANGED messages
       \/ \E error \in {"NONE", "BUSY", "OTHER"} : Release(r, error) /\ UNCHANGED messages
       \/ Return(r) /\ UNCHANGED messages

LEMMA SettlesStep ==
    ASSUME IInv, NEW r \in Runs, Settles(r)
    PROVE  IInv'
<1>1. SameTargets /\ SameMarks
  BY Untouched, Written DEF Settles
<1>2. Moves(r) /\ GoesOn(r) /\ MessagesOK'
  BY <1>1, Ends DEF Settles
<1> QED BY <1>1, <1>2, QuietStep DEF Settles

LEMMA Quietly ==
    ASSUME IInv, UNCHANGED <<tableVars, mhVars>>
    PROVE  SameDocuments /\ EventsOK' /\ UNCHANGED fiscal_corrections
  BY EventsStay DEF tableVars, SameDocuments, SameEvents

LEMMA AtCorrection ==
    ASSUME NEW r, NEW pc \in CorrectionPCs, At(r, pc)
    PROVE  run[r].pc \in CorrectionPCs
  BY DEF At

LEMMA Plain ==
    /\ {"handler", "load", "claim", "reload", "reconcile", "review", "fail", "read", "reserve",
        "renew", "prepare", "transmit", "finish", "retire", "claim_event", "unsigned", "mark", "fin",
        "event", "hold", "create", "catch", "send"} \subseteq PlainPCs
    /\ {"release", "dead_load", "recover", "error", "clear", "dispatch", "undo", "reply", "complete", "sign",
        "sign_held", "claim_doc"} \cup PlainPCs \subseteq CorrectionPCs
  BY DEF PlainPCs, CorrectionPCs, ConsumerPCs, RebuildPCs, DispatchPCs, SettlePCs, SendPCs

LEMMA DeadLoadStep ==
    ASSUME IInv, NEW r \in Runs, DeadLoad(r) \/ Handler(r)
    PROVE  IInv'
<1>1. run[r].pc \in CorrectionPCs
  BY Plain DEF DeadLoad, Handler, At
<1>2. SameDocuments /\ EventsOK' /\ UNCHANGED fiscal_corrections
  BY Quietly DEF DeadLoad, Handler
<1>3. Ack(r) \/ Redeliver(r) \/ Proceed(r, "load")
  BY DEF DeadLoad, Handler
<1> QED BY <1>1, <1>2, <1>3, Plain, SettlesStep DEF Settles

LEMMA LoadStep ==
    ASSUME IInv, NEW r \in Runs, Load(r) \/ Reload(r)
    PROVE  IInv'
<1>1. run[r].pc \in CorrectionPCs
  BY Plain DEF Load, Reload, At
<1>2. SameDocuments /\ EventsOK' /\ UNCHANGED fiscal_corrections
  BY Quietly DEF Load, Reload
<1>3. Throw(r) \/ Ack(r) \/ \E pc \in PlainPCs : Proceed(r, pc)
  <2>1. Correction(r) \in CorrectionRow /\ Correction(r).status # "NONE"
    BY <1>1, OfCorrection
  <2>2. Correction(r).status \in {"QUEUED", "PROCESSING"} \/ IsTerminal(Correction(r))
    BY <2>1 DEF CorrectionRow, OpenStatus, IsTerminal
  <2>3. \/ Correction(r).token # run[r].token
        \/ Correction(r).token = run[r].token /\ IsTerminal(Correction(r))
        \/ Correction(r).token = run[r].token /\ Correction(r).status = "QUEUED"
        \/ Owned(Correction(r), run[r].token) /\ Correction(r).dispatched
        \/ Owned(Correction(r), run[r].token) /\ ~Correction(r).dispatched
    BY <2>2 DEF Owned
  <2>4. \/ Throw(r) \/ Ack(r) \/ Proceed(r, "claim") \/ Proceed(r, "reconcile")
        \/ Proceed(r, IF OfPayment(r) THEN "event" ELSE "read")
    <3>1. CASE Load(r)
      BY <2>3, <3>1 DEF Load, AfterLoad
    <3>2. CASE Reload(r)
      BY <2>3, <3>2 DEF Reload, AfterLoad
    <3> QED BY <3>1, <3>2
  <2> QED BY <2>4, Plain
<1> QED BY <1>1, <1>2, <1>3, SettlesStep DEF Settles

LEMMA Settling ==
    ASSUME UNCHANGED <<docVars, otherVars, mhVars>>, IInv
    PROVE  SameDocuments /\ EventsOK'
  BY EventsStay DEF SameDocuments, SameEvents

LEMMA ClaimProcessingStep ==
    ASSUME IInv, NEW r \in Runs, ClaimProcessing(r) \/ Review(r) \/ RenewLease(r)
    PROVE  IInv'
<1>1. run[r].pc \in CorrectionPCs
  BY Plain DEF ClaimProcessing, Review, RenewLease, At
<1>2. SameDocuments /\ EventsOK'
  BY Settling DEF ClaimProcessing, Review, RenewLease
<1>3. PICK y : Keeps(Correction(r), y) /\ SetCorrection(r, y)
  <2>1. Correction(r) \in CorrectionRow /\ Correction(r).status # "NONE"
    BY <1>1, OfCorrection
  <2>2. "REVIEW_REQUIRED" \in TERMINAL_FISCAL_CORRECTION_STATUSES
    BY DEF TERMINAL_FISCAL_CORRECTION_STATUSES
  <2>3. /\ Keeps(Correction(r), Correction(r))
        /\ Keeps(Correction(r), claimFiscalCorrectionProcessing(Correction(r)))
        /\ Keeps(Correction(r), Finalized(Correction(r), "REVIEW_REQUIRED"))
        /\ Keeps(Correction(r), Renewed(Correction(r)))
    BY <2>1, <2>2, Statements
  <2> QED BY <2>3 DEF ClaimProcessing, Review, RenewLease
<1>4. Throw(r) \/ Ack(r) \/ \E pc \in PlainPCs : Proceed(r, pc)
  BY Plain DEF ClaimProcessing, Review, RenewLease
<1> QED BY <1>1, <1>2, <1>3, <1>4, SettlesStep DEF Settles

LEMMA ReconcileStep ==
    ASSUME IInv, NEW r \in Runs, Reconcile(r) \/ Finish(r)
    PROVE  IInv'
<1>1. run[r].pc \in CorrectionPCs
  BY Plain DEF Reconcile, Finish, At
<1>2. SameDocuments /\ EventsOK'
  BY Settling DEF Reconcile, Finish
<1>3. CASE Document(r).status \in {"ACCEPTED", "REJECTED"}
  <2>1. /\ Keeps(Correction(r), Correction(r))
        /\ Keeps(Correction(r), Finalized(Correction(r), Document(r).status))
    BY <1>1, <1>3, OfCorrection, Statements DEF TERMINAL_FISCAL_CORRECTION_STATUSES
  <2>2. /\ \E y : Keeps(Correction(r), y) /\ SetCorrection(r, y)
        /\ Ack(r) \/ Proceed(r, "review") \/ (RaiseError(r, "OTHER") /\ UNCHANGED messages)
    BY <1>3, <2>1 DEF Reconcile, Finish, SettleVerdict
  <2> QED BY <1>1, <1>2, <2>2, Plain, SettlesStep DEF Settles
<1>4. CASE Document(r).status \notin {"ACCEPTED", "REJECTED"}
  <2>1. UNCHANGED fiscal_corrections /\ (Proceed(r, "review") \/ Throw(r))
    BY <1>4 DEF Reconcile, Finish
  <2> QED BY <1>1, <1>2, <2>1, Plain, SettlesStep DEF Settles
<1> QED BY <1>3, <1>4

LEMMA ReadStep ==
    ASSUME IInv, NEW r \in Runs, ReadDocument(r) \/ ReadPayment(r) \/ Catch(r)
    PROVE  IInv'
<1>1. run[r].pc \in CorrectionPCs
  BY Plain DEF ReadDocument, ReadPayment, Catch, At
<1>2. SameDocuments /\ EventsOK' /\ UNCHANGED fiscal_corrections
  BY Quietly DEF ReadDocument, ReadPayment, Catch
<1>3. UNCHANGED messages
  BY DEF ReadDocument, ReadPayment, Catch
<1>4. RaiseError(r, "OTHER") \/ FailInvalid(r) \/ \E pc \in PlainPCs : Goto(r, pc)
  <2>1. CASE ReadDocument(r)
    <3>1. \/ RaiseError(r, "OTHER") \/ FailInvalid(r)
          \/ Goto(r, "retire") \/ Goto(r, "transmit") \/ Goto(r, "reserve")
      BY <2>1 DEF ReadDocument
    <3> QED BY <3>1, Plain
  <2>2. CASE ReadPayment(r)
    <3>1. \/ FailInvalid(r) \/ Goto(r, "handler") \/ Goto(r, "claim_event")
          \/ Goto(r, IF isTerminalDteStatus(Document(r).status) THEN "transmit" ELSE "hold")
      <4>1. Event(r).document \in BOOLEAN
        BY <1>1, OfCorrection DEF W!WompiRow
      <4> QED BY <2>2, <4>1 DEF ReadPayment
    <3> QED BY <3>1, Plain
  <2>3. CASE Catch(r)
    <3>1. RaiseError(r, "OTHER") \/ Goto(r, "finish")
      BY <2>3 DEF Catch
    <3> QED BY <3>1, Plain
  <2> QED BY <2>1, <2>2, <2>3
<1> QED BY <1>1, <1>2, <1>3, <1>4, SettlesStep DEF Settles

-----------------------------------------------------------------------------
(* The payment's event.                                                    *)

LEMMA EventStatements ==
    ASSUME NEW event \in W!WompiRow
    PROVE  /\ \A claim \in Ids : W!claimWompiEventIssuance(event, claim) \in W!WompiRow
           /\ W!releaseWompiEventIssuance(event) \in W!WompiRow
           /\ W!createClaimedWompiDteDocument(event) \in W!WompiRow
           /\ \A n \in Nat : [event EXCEPT !.number = n] \in W!WompiRow
           /\ \A error \in {"OTHER", "RECEPTOR"} : /\ FailedEvent(event, error) \in W!WompiRow
                                                   /\ W!recordWompiIssuanceFailure(event, error) \in W!WompiRow
           /\ W!markWompiEventProcessed(event) \in W!WompiRow
           /\ W!markWompiIssuanceProcessing(event) \in W!WompiRow
           /\ \A c \in Corrections \cup {OwnAttempt} :
                 /\ W!QueueAttempt(event, c) \in W!WompiRow
                 /\ W!claimWompiIssuanceRetry(event, c) \in W!WompiRow
                 /\ W!QueueAttempt([event EXCEPT !.stalled = TRUE], c) \in W!WompiRow
<1>1. /\ \A claim \in Ids : W!claimWompiEventIssuance(event, claim) \in W!WompiRow
      /\ W!releaseWompiEventIssuance(event) \in W!WompiRow
  BY DEF W!WompiRow, W!claimWompiEventIssuance, W!releaseWompiEventIssuance
<1>2. /\ W!createClaimedWompiDteDocument(event) \in W!WompiRow
      /\ \A n \in Nat : [event EXCEPT !.number = n] \in W!WompiRow
  BY DEF W!WompiRow, W!createClaimedWompiDteDocument
<1>3. \A error \in {"OTHER", "RECEPTOR"} : FailedEvent(event, error) \in W!WompiRow
  BY DEF W!WompiRow, W!Errors, FailedEvent
<1>4. \A error \in {"OTHER", "RECEPTOR"} : W!recordWompiIssuanceFailure(event, error) \in W!WompiRow
  BY DEF W!WompiRow, W!Errors, W!recordWompiIssuanceFailure
<1>5. /\ W!markWompiEventProcessed(event) \in W!WompiRow
      /\ W!markWompiIssuanceProcessing(event) \in W!WompiRow
  BY DEF W!WompiRow, W!Errors, W!markWompiEventProcessed, W!markWompiIssuanceProcessing
<1>6. ASSUME NEW c \in Corrections \cup {OwnAttempt}
      PROVE  W!QueueAttempt(event, c) \in W!WompiRow /\ W!claimWompiIssuanceRetry(event, c) \in W!WompiRow
  BY DEF W!WompiRow, W!Errors, W!QueueAttempt, W!claimWompiIssuanceRetry
<1>7. ASSUME NEW c \in Corrections \cup {OwnAttempt}
      PROVE  W!QueueAttempt([event EXCEPT !.stalled = TRUE], c) \in W!WompiRow
  <2>1. [event EXCEPT !.stalled = TRUE] \in W!WompiRow
    BY DEF W!WompiRow
  <2> QED BY <2>1 DEF W!WompiRow, W!Errors, W!QueueAttempt
<1> QED BY <1>1, <1>2, <1>3, <1>4, <1>5, <1>6, <1>7

LEMMA OneEvent ==
    ASSUME IInv, NEW d, NEW event, d \in Docs => event \in W!WompiRow,
           wompi_events' = [wompi_events EXCEPT ![d] = event],
           document_sequences' \in {document_sequences, document_sequences + 1}
    PROVE  EventsOK'
<1>1. wompi_events' \in [Docs -> W!WompiRow]
  <2>1. CASE d \in Docs
    BY <2>1 DEF IInv, TypeOK
  <2>2. CASE d \notin Docs
    <3>1. wompi_events' = wompi_events
      BY <2>2 DEF IInv, TypeOK
    <3> QED BY <3>1 DEF IInv, TypeOK
  <2> QED BY <2>1, <2>2
<1>2. document_sequences' \in Nat
  BY DEF IInv, TypeOK
<1> QED BY <1>1, <1>2 DEF EventsOK

LEMMA ReserveStep ==
    ASSUME IInv, NEW r \in Runs, Reserve(r)
    PROVE  IInv'
<1>1. run[r].pc \in CorrectionPCs
  BY Plain DEF Reserve, At
<1>2. SameDocuments /\ EventsOK'
  BY DEF Reserve, SameDocuments, EventsOK, IInv, TypeOK
<1>3. \E y : Keeps(Correction(r), y) /\ SetCorrection(r, y)
  <2>1. /\ Correction(r) \in CorrectionRow /\ Correction(r).status # "NONE"
        /\ document_sequences \in Nat
    BY <1>1, OfCorrection DEF IInv, TypeOK
  <2>2. /\ Keeps(Correction(r), [Renewed(Correction(r)) EXCEPT !.number = document_sequences])
        /\ Keeps(Correction(r), Renewed(Correction(r)))
        /\ Keeps(Correction(r), Correction(r))
    BY <2>1, Statements
  <2> QED BY <2>2 DEF Reserve
<1>4. Proceed(r, "renew") \/ Throw(r)
  BY DEF Reserve
<1> QED BY <1>1, <1>2, <1>3, <1>4, Plain, SettlesStep DEF Settles

LEMMA ClaimEventStep ==
    ASSUME IInv, NEW r \in Runs, ClaimEvent(r) \/ ReleaseEvent(r)
    PROVE  IInv'
<1>1. run[r].pc \in CorrectionPCs
  BY Plain DEF ClaimEvent, ReleaseEvent, At
<1>2. SameDocuments /\ UNCHANGED <<fiscal_corrections, messages>>
  BY DEF ClaimEvent, ReleaseEvent, SameDocuments
<1>3. EventsOK'
  <2>1. Event(r) \in W!WompiRow /\ run[r].correction \in Ids
    BY <1>1, OfCorrection, Names
  <2>2. /\ W!claimWompiEventIssuance(Event(r), run[r].correction) \in W!WompiRow
        /\ W!releaseWompiEventIssuance(Event(r)) \in W!WompiRow
    BY <2>1, EventStatements
  <2>3. \E event \in W!WompiRow : SetEvent(r, event) \/ UNCHANGED wompi_events
    BY <2>1, <2>2 DEF ClaimEvent, ReleaseEvent
  <2>4. UNCHANGED document_sequences
    BY DEF ClaimEvent, ReleaseEvent
  <2> QED BY <2>3, <2>4, OneEvent DEF SetEvent, EventsOK, IInv, TypeOK
<1>4. \/ \E error \in {"NONE", "BUSY", "OTHER"} : RaiseError(r, error)
      \/ \E pc \in PlainPCs : Goto(r, pc)
  <2>1. CASE ClaimEvent(r)
    <3>1. Goto(r, "create") \/ Goto(r, "transmit") \/ Goto(r, "handler")
      BY <2>1 DEF ClaimEvent
    <3> QED BY <3>1, Plain
  <2>2. CASE ReleaseEvent(r) /\ run[r].error = "BUSY"
    <3>1. Goto(r, "handler")
      BY <2>2 DEF ReleaseEvent
    <3> QED BY <3>1, Plain
  <2>3. CASE ReleaseEvent(r) /\ run[r].error # "BUSY"
    <3>1. run[r].error \in {"NONE", "BUSY", "OTHER"}
      BY <1>1, <2>3, OfCorrection DEF IInv, RunsKnow, Knows, ReleaseEvent, At, RunState
    <3>2. Goto(r, "error")
      BY <2>3 DEF ReleaseEvent
    <3>3. RaiseError(r, run[r].error)
      BY <3>2, OfCorrection, <1>1 DEF Goto, RaiseError, IInv, TypeOK, RunState
    <3> QED BY <3>1, <3>3
  <2> QED BY <2>1, <2>2, <2>3
<1> QED BY <1>1, <1>2, <1>3, <1>4, SettlesStep DEF Settles

LEMMA CreateEvents ==
    ASSUME IInv, NEW r \in Runs, Event(r) \in W!WompiRow, NEW claim,
           LET first    == W!reserveWompiDocumentIdentifiersEnabled(Event(r))
               reserved == IF first THEN [Event(r) EXCEPT !.number = document_sequences] ELSE Event(r)
               enabled  == W!createClaimedWompiDteDocumentEnabled(reserved, claim)
           IN  /\ SetEvent(r, IF enabled THEN W!createClaimedWompiDteDocument(reserved) ELSE reserved)
               /\ document_sequences' = IF first THEN document_sequences + 1 ELSE document_sequences
    PROVE  EventsOK'
<1>1. \A event \in W!WompiRow : W!createClaimedWompiDteDocument(event) \in W!WompiRow
  BY EventStatements
<1>2. [Event(r) EXCEPT !.number = document_sequences] \in W!WompiRow
  BY EventStatements DEF IInv, TypeOK
<1>3. \E event \in W!WompiRow : SetEvent(r, event)
  BY <1>1, <1>2
<1> QED BY <1>3, OneEvent DEF SetEvent

LEMMA CreateCorrectedStep ==
    ASSUME IInv, NEW r \in Runs, CreateCorrected(r)
    PROVE  IInv'
<1>1. run[r].pc \in CorrectionPCs
  BY Plain DEF CreateCorrected, At
<1>2. SameDocuments /\ UNCHANGED <<fiscal_corrections, messages>>
  BY DEF CreateCorrected, CreateDocument, SameDocuments
<1>3. EventsOK'
  BY <1>1, OfCorrection, CreateEvents DEF CreateCorrected, CreateDocument
<1>4. Goto(r, "transmit") \/ Release(r, "BUSY")
  BY DEF CreateCorrected, CreateDocument
<1> QED BY <1>1, <1>2, <1>3, <1>4, Plain, SettlesStep DEF Settles

\* The payment's own delivery.
LEMMA OfIssue ==
    ASSUME IInv, NEW r \in Runs, run[r].pc \in IssuePCs
    PROVE  run[r].document \in Docs /\ Event(r) \in W!WompiRow /\ run[r] \in RunState
  BY PlainIsApart DEF IInv, RunsKnow, Works, TypeOK, Event, IssuePCs

LEMMA IssueMoves ==
    ASSUME IInv, NEW r \in Runs, run[r].pc \in IssuePCs, Return(r) \/ \E pc \in IssuePCs : Goto(r, pc)
    PROVE  Moves(r) /\ GoesOn(r)
<1>1. IssuePCs \subseteq PCs /\ run[r].pc # "idle"
  BY DEF IssuePCs, PCs, OtherPCs
<1>2. CASE Return(r)
  BY <1>2, ReturnPlain
<1>3. CASE \E pc \in IssuePCs : Goto(r, pc)
  <2>1. PICK pc \in IssuePCs : Goto(r, pc)
    BY <1>3
  <2>2. Moves(r) /\ run'[r] = [run[r] EXCEPT !.pc = pc]
    BY <1>1, <2>1, GotoMoves DEF IInv
  <2> QED BY <1>1, <2>2, OfIssue DEF GoesOn, RunState
<1> QED BY <1>2, <1>3

LEMMA IssueStep ==
    ASSUME IInv, NEW r \in Runs, IssueCheck(r) \/ IssuePark(r) \/ IssueCreate(r) \/ IssueRelease(r)
    PROVE  IInv'
<1>1. run[r].pc \in IssuePCs
  BY DEF IssueCheck, IssuePark, IssueCreate, IssueRelease, At, IssuePCs
<1>2. SameDocuments /\ UNCHANGED <<fiscal_corrections, messages>>
  BY DEF IssueCheck, IssuePark, IssueCreate, IssueRelease, CreateDocument, SameDocuments
<1>3. EventsOK'
  <2>1. Event(r) \in W!WompiRow /\ r \in Ids
    BY <1>1, OfIssue, Names
  <2>2. CASE IssueCreate(r)
    BY <2>1, <2>2, CreateEvents DEF IssueCreate, CreateDocument
  <2>3. CASE IssueCheck(r)
    <3>1. \E event \in W!WompiRow : SetEvent(r, event)
      BY <2>1, <2>3, EventStatements DEF IssueCheck
    <3> QED BY <2>3, <3>1, OneEvent DEF SetEvent, IssueCheck
  <2>4. CASE IssuePark(r) \/ IssueRelease(r)
    <3>1. \E event \in W!WompiRow : SetEvent(r, event)
      BY <2>1, <2>4, EventStatements DEF IssuePark, IssueRelease
    <3> QED BY <2>4, <3>1, OneEvent DEF SetEvent, IssuePark, IssueRelease
  <2> QED BY <2>2, <2>3, <2>4
<1>4. Return(r) \/ \E pc \in IssuePCs : Goto(r, pc)
  BY DEF IssueCheck, IssuePark, IssueCreate, IssueRelease, CreateDocument, IssuePCs
<1>5. Moves(r) /\ GoesOn(r)
  BY <1>1, <1>4, IssueMoves
<1>6. SameTargets /\ SameMarks
  BY <1>2, Untouched
<1>7. MessagesOK'
  BY <1>2, <1>6, SameMessages
<1> QED BY <1>2, <1>3, <1>5, <1>6, <1>7, QuietStep

-----------------------------------------------------------------------------
(* Steps that write documents, or move no handler.                         *)

\* How a handler comes through a step.
Continues(o) ==
    \/ run'[o] = run[o] /\ Unshaken(o)
    \/ GoesOn(o)
    \/ /\ Works(o)' /\ Knows(o)'
       /\ Dispatches(o)' => Dispatches(o) /\ run'[o].correction = run[o].correction

LEMMA SourcesStay ==
    ASSUME IInv, SameTargets, UNCHANGED recepcion
    PROVE  Sources'
  BY DEF IInv, Sources, SameTargets

LEMMA RowStep ==
    ASSUME IInv, SameTargets, SameMarks, MessagesOK', EventsOK', UNCHANGED mhVars,
           dte_documents' \in [Docs -> DteRow], codigo_generacion' \in [Docs -> Codes],
           Places', Posts', Rows',
           run' \in [Runs -> RunState], \A o \in Runs : Continues(o)
    PROVE  IInv'
<1>1. TypeOK'
  BY DEF IInv, TypeOK, SameTargets, mhVars, MessagesOK, EventsOK
<1>2. Sources'
  BY SourcesStay DEF mhVars
<1>3. ASSUME NEW o \in Runs
      PROVE  /\ Works(o)' /\ Knows(o)'
             /\ Dispatches(o)' => Dispatches(o) /\ run'[o].correction = run[o].correction
  <2>1. CASE run'[o] = run[o] /\ Unshaken(o)
    <3>1. Works(o)'
      BY <2>1, WorksStays
    <3>2. Dispatches(o) => fiscal_corrections'[run[o].correction].dispatched
      BY PlainIsApart DEF IInv, RunsKnow, Knows, Works, Dispatches, Undispatched, SameMarks
    <3>3. Knows(o)'
      BY <2>1, <3>2, KnowsStays
    <3>4. Dispatches(o)' = Dispatches(o) /\ run'[o].correction = run[o].correction
      BY <2>1 DEF Dispatches, Undispatched
    <3> QED BY <3>1, <3>3, <3>4
  <2>2. CASE GoesOn(o)
    BY <2>2, WorksStays, GoesOnKnows
  <2> QED BY <1>3, <2>1, <2>2 DEF Continues
<1>4. RunsKnow' /\ OneDispatches'
  BY <1>3 DEF RunsKnow, IInv, OneDispatches
<1> QED BY <1>1, <1>2, <1>4 DEF IInv, MessagesOK

LEMMA PostsStay ==
    ASSUME IInv, SameTargets, UNCHANGED <<codigo_generacion, mhVars>>
    PROVE  Posts'
<1>1. \A k \in NewCodes : DocumentOf(k)' = DocumentOf(k)
  BY DEF DocumentOf, SameTargets, NewCodes
<1> QED BY <1>1 DEF IInv, Posts, SameTargets, mhVars

LEMMA RowsStay ==
    ASSUME IInv, SameTargets, SameMarks, UNCHANGED mhVars, NEW d \in Docs,
           codigo_generacion'[d] = codigo_generacion[d],
           dte_documents'[d].status = dte_documents[d].status,
           dte_documents'[d].op_claim = dte_documents[d].op_claim
    PROVE  Truthful(d)' /\ Replaced(d)'
<1>1. Truthful(d) /\ Replaced(d) /\ Terminal(d)' = Terminal(d)
  BY DEF IInv, Rows, Terminal
<1>2. Truthful(d)'
  BY <1>1 DEF Truthful, SameMarks, mhVars
<1>3. Replaced(d)'
  BY <1>1 DEF Replaced, SameTargets, mhVars
<1> QED BY <1>2, <1>3

\* Nothing but the corrections and the payments' events.
LEMMA RestStep ==
    ASSUME IInv, UNCHANGED run, SameTargets, SameMarks, SameDocuments, MessagesOK', EventsOK'
    PROVE  IInv'
<1>1. Places' /\ Posts'
  BY TargetsStay, PostsStay DEF SameDocuments, docVars, mhVars
<1>2. Rows'
  BY RowsStay DEF Rows, SameDocuments, docVars
<1>3. \A o \in Runs : Continues(o)
  BY DEF Continues, Unshaken, SameDocuments, docVars
<1>4. run' \in [Runs -> RunState] /\ dte_documents' \in [Docs -> DteRow]
        /\ codigo_generacion' \in [Docs -> Codes] /\ UNCHANGED mhVars
  BY DEF IInv, TypeOK, SameDocuments, docVars
<1> QED BY <1>1, <1>2, <1>3, <1>4, RowStep

LEMMA RecoverVerdictStep ==
    ASSUME IInv, NEW c \in Corrections, RecoverVerdict(c) \/ GoesStale(c)
    PROVE  IInv'
<1>1. SameDocuments /\ EventsOK' /\ UNCHANGED <<run, messages>>
  BY Settling DEF RecoverVerdict, GoesStale
<1>2. SameTargets /\ SameMarks
  <2>1. fiscal_corrections[c] \in CorrectionRow /\ fiscal_corrections[c].status # "NONE"
    BY Typed DEF IInv, RecoverVerdict, RecoverableVerdict, finalizeVerdictEnabled, Owned, GoesStale,
       OpenStatus
  <2>2. CASE RecoverVerdict(c)
    <3>1. dte_documents[fiscal_corrections[c].document].status
            \in TERMINAL_FISCAL_CORRECTION_STATUSES
      BY <2>2 DEF RecoverVerdict, RecoverableVerdict, finalizeVerdictEnabled,
                  TERMINAL_FISCAL_CORRECTION_STATUSES
    <3> QED BY <2>1, <2>2, <3>1, Statements, OneWritten DEF RecoverVerdict
  <2>3. CASE GoesStale(c)
    <3>1. fiscal_corrections' = [fiscal_corrections EXCEPT
                                   ![c] = [fiscal_corrections[c] EXCEPT !.stale = TRUE]]
      BY <2>3 DEF GoesStale, IInv, TypeOK
    <3> QED BY <2>1, <3>1, Statements, OneWritten
  <2> QED BY <2>2, <2>3
<1> QED BY <1>1, <1>2, SameMessages, RestStep

LEMMA RetryIssuanceStep ==
    ASSUME IInv, NEW d \in Docs, RetryIssuance(d) \/ SweepIssuance(d)
    PROVE  IInv'
<1>1. SameDocuments /\ UNCHANGED <<run, messages, fiscal_corrections, document_sequences>>
  BY DEF RetryIssuance, SweepIssuance, SameDocuments
<1>2. EventsOK'
  <2>1. wompi_events[d] \in W!WompiRow
    BY Typed DEF IInv
  <2>2. PICK event \in W!WompiRow : wompi_events' = [wompi_events EXCEPT ![d] = event]
    BY <2>1, EventStatements DEF RetryIssuance, SweepIssuance
  <2> QED BY <1>1, <2>2, OneEvent
<1> QED BY <1>1, <1>2, Untouched, SameMessages, RestStep

-----------------------------------------------------------------------------
(* The handlers' other steps that leave the documents alone.               *)

\* What a handler that owns no row must know.
LEMMA PlainKnows ==
    ASSUME NEW r \in Runs, run'[r].pc \in PlainPCs \cup IssuePCs \cup {"tx_claim"},
           run'[r].pc = "tx_claim" => ~isTerminalDteStatus(run'[r].expected)
    PROVE  Knows(r)' /\ ~Dispatches(r)'
<1>1. "tx_claim" \notin OwnerPCs \cup {"sign", "sign_held", "claim_doc", "release", "error", "clear"}
  BY DEF OwnerPCs, SendPCs, TxPCs, InvPCs
<1>2. run'[r].pc \notin OwnerPCs \cup {"sign", "sign_held", "claim_doc", "release", "error", "clear"}
  BY <1>1, PlainIsApart DEF IssuePCs, OwnerPCs, TxPCs, InvPCs, SendPCs
<1> QED BY <1>2 DEF Knows, Dispatches, Undispatched, OwnerPCs, SendPCs, TxPCs, InvPCs

LEMMA StatementThrowsStep ==
    ASSUME IInv, NEW r \in Runs, StatementThrows(r)
    PROVE  IInv'
<1>1. run[r].pc \in CorrectionPCs
  BY DEF StatementThrows, CorrectionPCs, ConsumerPCs, SettlePCs
<1>2. SameDocuments /\ EventsOK' /\ UNCHANGED <<fiscal_corrections, messages>>
  BY Quietly DEF StatementThrows
<1>3. \/ RaiseError(r, "OTHER") \/ Release(r, "OTHER")
      \/ Goto(r, "unsigned") \/ Goto(r, "catch") \/ Goto(r, "handler")
  BY DEF StatementThrows, FailThrows
<1> QED BY <1>1, <1>2, <1>3, Plain, SettlesStep DEF Settles

LEMMA CrashStep ==
    ASSUME IInv, NEW r \in Runs, Crash(r)
    PROVE  IInv'
<1>1. SameDocuments /\ EventsOK' /\ UNCHANGED fiscal_corrections
  BY Quietly DEF Crash
<1>2. SameTargets /\ SameMarks
  BY <1>1, Untouched
<1>3. Moves(r) /\ GoesOn(r) /\ MessagesOK'
  <2>1. CASE Redeliver(r)
    BY <1>2, <2>1, RedeliverMoves
  <2>2. CASE Return(r) /\ UNCHANGED messages
    BY <1>2, <2>2, ReturnPlain, SameMessages
  <2> QED BY <2>1, <2>2 DEF Crash
<1> QED BY <1>1, <1>2, <1>3, QuietStep

LEMMA SendStep ==
    ASSUME IInv, NEW r \in Runs, Send(r)
    PROVE  IInv'
<1>1. run[r].pc \in CorrectionPCs
  BY Plain DEF Send, At
<1>2. SameDocuments /\ EventsOK' /\ SameTargets /\ SameMarks
  BY Quietly, Untouched DEF Send
<1>3. Moves(r) /\ GoesOn(r)
  BY ReturnPlain DEF Send
<1>4. MessagesOK'
  <2>1. run[r].correction \in Corrections /\ fiscal_corrections[run[r].correction].kind # "NONE"
    BY <1>1, OfCorrection DEF Correction
  <2>2. [at |-> "queue", correction |-> run[r].correction, tries |-> 0] \in Message
    BY <2>1, LimitsAreTyped DEF Message
  <2>3. messages \in [Tokens -> Message] /\ Sent
    BY DEF IInv, TypeOK
  <2> QED BY <1>2, <2>1, <2>2, <2>3 DEF Send, MessagesOK, Sent, SameTargets
<1> QED BY <1>2, <1>3, <1>4, QuietStep

LEMMA RecoverStep ==
    ASSUME IInv, NEW r \in Runs, Recover(r)
    PROVE  IInv'
<1>1. run[r].pc \in CorrectionPCs
  BY Plain DEF Recover, At
<1>2. SameDocuments /\ EventsOK' /\ UNCHANGED messages
  BY Settling DEF Recover
<1>3. CASE UNCHANGED fiscal_corrections /\ Return(r)
  BY <1>1, <1>2, <1>3, SettlesStep DEF Settles
<1>4. CASE \E t \in Tokens :
              /\ SetCorrection(r, recoverFiscalCorrectionProcessingClaim(Correction(r), t))
              /\ run' = [run EXCEPT ![r].pc = "send", ![r].token = t]
  <2>1. PICK t \in Tokens :
              /\ SetCorrection(r, recoverFiscalCorrectionProcessingClaim(Correction(r), t))
              /\ run' = [run EXCEPT ![r].pc = "send", ![r].token = t]
    BY <1>4
  <2>2. SameTargets /\ SameMarks
    BY <1>1, <2>1, OfCorrection, Statements, Written
  <2>3. run[r] \in RunState /\ "send" \in PCs /\ run[r].pc # "idle"
    BY <1>1, OfCorrection, PlainIsApart DEF PCs, OtherPCs
  <2>4. run'[r] = [run[r] EXCEPT !.pc = "send", !.token = t] /\ Moves(r)
    BY <2>1, <2>3 DEF IInv, TypeOK, Moves, RunState, PCs
  <2>5. GoesOn(r)
    BY <1>1, <2>3, <2>4, Plain DEF GoesOn, RunState
  <2> QED BY <1>2, <2>2, <2>4, <2>5, SameMessages, QuietStep
<1> QED BY <1>3, <1>4 DEF Recover

LEMMA ErrorStep ==
    ASSUME IInv, NEW r \in Runs, Error(r)
    PROVE  IInv'
<1> DEFINE handled == IF run[r].error = "PRE_DISPATCH"
                        THEN IF Correction(r).dispatched THEN "clear" ELSE "fail"
                        ELSE IF Correction(r).dispatched THEN "review" ELSE "fail"
           goOn    == /\ run' = [run EXCEPT ![r].pc = handled, ![r].seen = Correction(r).token]
                      /\ UNCHANGED messages
<1>1. run[r].pc \in CorrectionPCs
  BY Plain DEF Error, At
<1>2. SameDocuments /\ EventsOK'
  BY Settling DEF Error
<1>3. \/ /\ Ack(r) /\ Document(r).status \in {"ACCEPTED", "REJECTED"}
         /\ SetCorrection(r, Correction(r))
              \/ SetCorrection(r, Finalized(Correction(r), Document(r).status))
      \/ goOn /\ (SetCorrection(r, Correction(r)) \/ UNCHANGED fiscal_corrections)
  BY DEF Error, SettleVerdict
<1>4. /\ Keeps(Correction(r), Correction(r))
      /\ Document(r).status \in {"ACCEPTED", "REJECTED"} =>
            Keeps(Correction(r), Finalized(Correction(r), Document(r).status))
  BY <1>1, OfCorrection, Statements DEF TERMINAL_FISCAL_CORRECTION_STATUSES
<1>5. CASE /\ Ack(r) /\ Document(r).status \in {"ACCEPTED", "REJECTED"}
           /\ SetCorrection(r, Correction(r))
                \/ SetCorrection(r, Finalized(Correction(r), Document(r).status))
  BY <1>1, <1>2, <1>4, <1>5, SettlesStep DEF Settles
<1>6. CASE goOn /\ (SetCorrection(r, Correction(r)) \/ UNCHANGED fiscal_corrections)
  <2>1. SameTargets /\ SameMarks
    BY <1>1, <1>4, <1>6, Written, Untouched
  <2>2. MessagesOK'
    BY <1>6, <2>1, SameMessages
  <2>3. run[r] \in RunState /\ run[r].pc # "idle" /\ Correction(r) \in CorrectionRow
    BY <1>1, OfCorrection, PlainIsApart
  <2>4. handled \in PCs
    BY DEF PCs, ConsumerPCs, SettlePCs
  <2>5. run'[r] = [run[r] EXCEPT !.pc = handled, !.seen = Correction(r).token] /\ Moves(r)
    <3> HIDE DEF handled
    <3>1. [run[r] EXCEPT !.pc = handled, !.seen = Correction(r).token] \in RunState
      BY <2>3, <2>4 DEF RunState, CorrectionRow, PCs
    <3> QED BY <1>6, <3>1 DEF IInv, TypeOK, Moves
  <2>6. CASE handled \in {"fail", "review"}
    <3>1. GoesOn(r)
      BY <1>1, <2>3, <2>5, <2>6, Plain DEF GoesOn, RunState
    <3> QED BY <1>2, <2>1, <2>2, <2>5, <3>1, QuietStep
  <2>7. CASE handled = "clear"
    <3>1. run[r].pc = "error" /\ run[r].error = "PRE_DISPATCH"
      BY <2>7 DEF Error, At
    <3>2. /\ run'[r].pc = "clear" /\ run'[r].error = "PRE_DISPATCH"
          /\ run'[r].correction = run[r].correction /\ run'[r].document = run[r].document
      BY <2>3, <2>5, <2>7, <3>1 DEF RunState
    <3>3. Works(r)'
      BY <1>1, <2>1, <2>3, <3>2, PlainIsApart DEF IInv, RunsKnow, Works, SameTargets
    <3>4. Undispatched(r) /\ Undispatched(r)' /\ Dispatches(r)
      BY <3>1, <3>2 DEF Undispatched, Dispatches
    <3>5. Knows(r)
      BY DEF IInv, RunsKnow
    <3>6. Knows(r)'
      <4>1. fiscal_corrections'[run'[r].correction].dispatched
        BY <2>1, <3>2, <3>4, <3>5, <1>1, OfCorrection DEF Knows, SameMarks
      <4>2. run'[r].pc \notin SendPCs \cup TxPCs \cup InvPCs
        BY <3>2 DEF SendPCs, TxPCs, InvPCs
      <4>3. run'[r].pc = "clear"
        BY <3>2
      <4>4. dte_documents'[run'[r].document].op_claim = run'[r].correction
              /\ codigo_generacion'[run'[r].document] \in NewCodes =>
                 posts'[codigo_generacion'[run'[r].document]] = 0
        BY <1>2, <3>2, <3>4, <3>5 DEF Knows, SameDocuments, docVars, mhVars
      <4> QED BY <3>2, <4>1, <4>2, <4>3, <4>4 DEF Knows, SendPCs, TxPCs
    <3> QED BY <1>2, <2>1, <2>2, <2>5, <3>2, <3>3, <3>4, <3>6, QuietStep
  <2> QED BY <2>6, <2>7
<1> QED BY <1>3, <1>5, <1>6

\* A handler that is new has been given its work.
LEMMA BeginMoves ==
    ASSUME IInv, NEW r \in Runs, NEW state \in RunState, Begin(r, state)
    PROVE  Moves(r) /\ run'[r] = state /\ run[r] = IdleRun
  BY DEF Begin, FreshRun, IInv, TypeOK, Moves

LEMMA DeliverStep ==
    ASSUME IInv, NEW r \in Runs, NEW t \in Tokens, Deliver(r, t) \/ DeadDeliver(r, t)
    PROVE  IInv'
<1> DEFINE c == messages[t].correction
<1>1. messages[t].at # "none"
  BY DEF Deliver, DeadDeliver
<1>2. c \in Corrections /\ fiscal_corrections[c].kind # "NONE" /\ fiscal_corrections[c].document \in Docs
  BY <1>1 DEF IInv, Sent, Places
<1>3. PICK pc \in {"load", "dead_load"}, dead \in BOOLEAN : StartDelivery(r, t, pc, dead)
  BY DEF Deliver, DeadDeliver
<1> DEFINE state == [IdleRun EXCEPT !.pc = pc, !.token = t, !.dead = dead, !.correction = c,
                                    !.document = fiscal_corrections[c].document]
<1>4. state \in RunState
  BY <1>2, IdleIsRun DEF RunState, IdleRun, ConsumerPCs, SettlePCs
<1>5. Moves(r) /\ run'[r] = state
  BY <1>3, <1>4, BeginMoves DEF StartDelivery
<1>6. /\ run'[r].pc = pc /\ run'[r].correction = c
      /\ run'[r].document = fiscal_corrections[c].document
  BY <1>5 DEF IdleRun
<1>7. SameDocuments /\ EventsOK' /\ SameTargets /\ SameMarks /\ MessagesOK'
  BY <1>3, Quietly, Untouched, SameMessages DEF StartDelivery
<1>8. pc \in PlainPCs
  BY Plain DEF PlainPCs, CorrectionPCs, ConsumerPCs, SettlePCs, SendPCs
<1>9. Works(r)'
  BY <1>2, <1>6, <1>7 DEF Works, SameTargets
<1>10. Knows(r)' /\ ~Dispatches(r)'
  BY <1>6, <1>8, PlainKnows, PlainIsApart
<1> QED BY <1>5, <1>7, <1>9, <1>10, QuietStep

LEMMA StartRecoveryStep ==
    ASSUME IInv, NEW r \in Runs, NEW c \in Corrections, StartRecovery(r, c)
    PROVE  IInv'
<1> DEFINE state == [IdleRun EXCEPT !.pc = "recover", !.correction = c,
                                    !.document = fiscal_corrections[c].document,
                                    !.seen = fiscal_corrections[c].token]
<1>1. fiscal_corrections[c] \in CorrectionRow /\ fiscal_corrections[c].status # "NONE"
  BY Typed DEF IInv, StartRecovery, RecoverableBeforeDispatch
<1>2. fiscal_corrections[c].kind # "NONE" /\ fiscal_corrections[c].document \in Docs
  BY <1>1 DEF IInv, Places
<1>3. state \in RunState
  BY <1>1, <1>2, IdleIsRun DEF RunState, IdleRun, OtherPCs, CorrectionRow
<1>4. Moves(r) /\ run'[r] = state
  BY <1>3, BeginMoves DEF StartRecovery
<1>5. /\ run'[r].pc = "recover" /\ run'[r].correction = c
      /\ run'[r].document = fiscal_corrections[c].document
  BY <1>4 DEF IdleRun
<1>6. SameDocuments /\ EventsOK' /\ SameTargets /\ SameMarks /\ MessagesOK'
  BY Quietly, Untouched, SameMessages DEF StartRecovery
<1>7. "recover" \in PlainPCs
  BY DEF PlainPCs, CorrectionPCs, SendPCs
<1>8. Works(r)'
  BY <1>2, <1>5, <1>6 DEF Works, SameTargets
<1>9. Knows(r)' /\ ~Dispatches(r)'
  BY <1>5, <1>7, PlainKnows, PlainIsApart
<1> QED BY <1>4, <1>6, <1>8, <1>9, QuietStep

LEMMA StartTransmitStep ==
    ASSUME IInv, NEW r \in Runs, NEW d \in Docs, StartTransmit(r, d)
    PROVE  IInv'
<1> DEFINE state == [IdleRun EXCEPT !.pc = "tx_claim", !.document = d,
                       !.codigo = codigo_generacion[d], !.expected = dte_documents[d].status]
<1>1. state \in RunState
  BY Typed, IdleIsRun DEF RunState, IdleRun, OtherPCs, IInv, DteRow
<1>2. Moves(r) /\ run'[r] = state
  BY <1>1, BeginMoves DEF StartTransmit
<1>3. run'[r].pc = "tx_claim" /\ run'[r].document = d /\ ~isTerminalDteStatus(run'[r].expected)
  BY <1>2 DEF IdleRun, StartTransmit, isTerminalDteStatus, TerminalStatus
<1>4. SameDocuments /\ EventsOK' /\ SameTargets /\ SameMarks /\ MessagesOK'
  BY Quietly, Untouched, SameMessages DEF StartTransmit
<1>5. Works(r)'
  BY <1>3 DEF Works, CorrectionPCs, ConsumerPCs, RebuildPCs, DispatchPCs, SettlePCs
<1>6. Knows(r)' /\ ~Dispatches(r)'
  BY <1>3, PlainKnows
<1> QED BY <1>2, <1>4, <1>5, <1>6, QuietStep

LEMMA StartIssueStep ==
    ASSUME IInv, NEW r \in Runs, NEW d \in Docs, StartIssue(r, d)
    PROVE  IInv'
<1>1. SameDocuments /\ UNCHANGED <<messages, fiscal_corrections, document_sequences>>
  BY DEF StartIssue, SameDocuments
<1>2. EventsOK'
  <2>1. wompi_events[d] \in W!WompiRow
    BY Typed DEF IInv
  <2>2. PICK event \in W!WompiRow : wompi_events' = [wompi_events EXCEPT ![d] = event]
    BY <2>1, EventStatements DEF StartIssue
  <2> QED BY <1>1, <2>2, OneEvent
<1>3. SameTargets /\ SameMarks /\ MessagesOK'
  BY <1>1, Untouched, SameMessages
<1>4. CASE UNCHANGED run
  BY <1>1, <1>2, <1>3, <1>4, RestStep
<1>5. CASE Begin(r, [IdleRun EXCEPT !.pc = "iss_check", !.document = d])
  <2> DEFINE state == [IdleRun EXCEPT !.pc = "iss_check", !.document = d]
  <2>1. state \in RunState
    BY IdleIsRun DEF RunState, IdleRun, OtherPCs
  <2>2. Moves(r) /\ run'[r] = state
    BY <1>5, <2>1, BeginMoves
  <2>3. run'[r].pc = "iss_check" /\ run'[r].document = d
    BY <2>2 DEF IdleRun
  <2>4. run'[r].pc \in IssuePCs
    BY <2>3 DEF IssuePCs
  <2>5. Works(r)'
    BY <2>3, <2>4, PlainIsApart DEF Works
  <2>6. Knows(r)' /\ ~Dispatches(r)'
    BY <2>4, PlainKnows, PlainIsApart
  <2> QED BY <1>1, <1>2, <1>3, <2>2, <2>5, <2>6, QuietStep
<1> QED BY <1>4, <1>5 DEF StartIssue

LEMMA TransmitStep ==
    ASSUME IInv, NEW r \in Runs, Transmit(r)
    PROVE  IInv'
<1>1. run[r].pc \in CorrectionPCs
  BY Plain DEF Transmit, At
<1>2. run[r] \in RunState /\ run[r].pc # "idle" /\ Document(r) \in DteRow /\ Codigo(r) \in Codes
  BY <1>1, OfCorrection, PlainIsApart
<1>3. SameDocuments /\ EventsOK' /\ SameTargets /\ SameMarks /\ MessagesOK'
  BY Quietly, Untouched, SameMessages DEF Transmit
<1>4. PICK pc : /\ run' = [run EXCEPT ![r].codigo = Codigo(r), ![r].expected = Document(r).status,
                                      ![r].pc = pc]
                /\ \/ pc \in {"fin", "finish", "mark"}
                   \/ /\ pc \in {"sign", "sign_held", "claim_doc"}
                      /\ ~isTerminalDteStatus(Document(r).status)
  <2> DEFINE held == Held(Document(r), run[r].correction)
             row  == Document(r)
             pc   ==
               IF isTerminalDteStatus(row.status)
                 THEN IF row.status = "ACCEPTED" /\ ~row.finalized_at THEN "fin" ELSE "finish"
                 ELSE CASE held /\ (~row.signed_jws \/ row.status # "SIGNED") -> "sign_held"
                        [] held /\ row.signed_jws /\ row.status = "SIGNED"    -> "mark"
                        [] ~held /\ ~row.signed_jws                           -> "sign"
                        [] ~held /\ row.signed_jws                            -> "claim_doc"
  <2>1. run' = [run EXCEPT ![r].codigo = Codigo(r), ![r].expected = row.status, ![r].pc = pc]
    BY DEF Transmit
  <2>2. \/ pc \in {"fin", "finish", "mark"}
        \/ /\ pc \in {"sign", "sign_held", "claim_doc"}
           /\ ~isTerminalDteStatus(row.status)
    <3>1. row.signed_jws \in BOOLEAN
      BY <1>2 DEF DteRow
    <3>2. held \in BOOLEAN
      BY DEF Held
    <3> HIDE DEF held
    <3> QED BY <3>1, <3>2
  <2> QED BY <2>1, <2>2
<1>5. /\ run'[r] = [run[r] EXCEPT !.codigo = Codigo(r), !.expected = Document(r).status, !.pc = pc]
      /\ Moves(r)
  <2>1. pc \in PCs
    BY <1>4 DEF PCs, ConsumerPCs, DispatchPCs, RebuildPCs
  <2> QED BY <1>2, <1>4, <2>1 DEF IInv, TypeOK, Moves, RunState, DteRow, PCs
<1>6. /\ run'[r].pc = pc /\ run'[r].expected = Document(r).status
      /\ run'[r].correction = run[r].correction /\ run'[r].document = run[r].document
  BY <1>2, <1>5 DEF RunState
<1>7. CASE pc \in {"fin", "finish", "mark"}
  <2>1. GoesOn(r)
    BY <1>1, <1>2, <1>6, <1>7, Plain DEF GoesOn
  <2> QED BY <1>3, <1>5, <2>1, QuietStep
<1>8. CASE /\ pc \in {"sign", "sign_held", "claim_doc"}
           /\ ~isTerminalDteStatus(Document(r).status)
  <2>1. Works(r)'
    BY <1>1, <1>2, <1>3, <1>6 DEF IInv, RunsKnow, Works, SameTargets
  <2>2. run'[r].pc \notin OwnerPCs \cup {"error", "clear", "release"}
    BY <1>6, <1>8 DEF OwnerPCs, SendPCs, TxPCs, InvPCs
  <2>3. Knows(r)' /\ ~Dispatches(r)'
    BY <1>6, <1>8, <2>2 DEF Knows, Dispatches, Undispatched, OwnerPCs, SendPCs, TxPCs
  <2> QED BY <1>3, <1>5, <2>1, <2>3, QuietStep
<1> QED BY <1>4, <1>7, <1>8

-----------------------------------------------------------------------------
(* The dispatch: the token, the answer, the marker.                        *)

LEMMA Parsed ==
    ASSUME NEW truth, NEW reply \in MhReply, MhCanReply(truth, reply),
           parseMhResponse(reply) # "AMBIGUOUS"
    PROVE  \/ parseMhResponse(reply) = "ACCEPTED" /\ truth = "PROCESADO"
           \/ parseMhResponse(reply) = "REJECTED" /\ truth = "RECHAZADO"
<1> DEFINE accepted == reply.estado = "PROCESADO" /\ reply.sello
           rejected == reply.estado = "RECHAZADO" /\ ~reply.sello
<1>1. CASE reply.http = "ok" /\ accepted
  BY <1>1 DEF MhCanReply, parseMhResponse
<1>2. CASE reply.http \in {"ok", "error"} /\ rejected /\ ~(reply.http = "ok" /\ accepted)
  BY <1>2 DEF MhCanReply, parseMhResponse
<1>3. CASE ~(reply.http = "ok" /\ accepted) /\ ~(reply.http \in {"ok", "error"} /\ rejected)
  BY <1>3 DEF parseMhResponse
<1> QED BY <1>1, <1>2, <1>3

\* The handlers that send: a delivery, or another transmitter.
LEMMA OfSender ==
    ASSUME IInv, NEW r \in Runs, run[r].pc \in SendPCs \cup TxPCs
    PROVE  /\ run[r] \in RunState
           /\ Works(r) /\ Knows(r)
           /\ run[r].document \in Docs
           /\ run[r].codigo \in NewCodes
           /\ run[r].pc # "idle"
<1>1. run[r].pc # "idle" /\ Works(r) /\ Knows(r) /\ run[r] \in RunState
  BY DEF SendPCs, TxPCs, IInv, RunsKnow, TypeOK
<1> QED BY <1>1 DEF Works, Knows, Owns

LEMMA GoingOn ==
    ASSUME NEW state \in RunState, NEW pc, NEW verdict
    PROVE  LET next == [state EXCEPT !.pc = pc, !.verdict = verdict]
           IN  /\ next.pc = pc /\ next.codigo = state.codigo
               /\ next.correction = state.correction /\ next.document = state.document
  BY DEF RunState

\* A sender that goes on under the claim it has.
LEMMA SenderStep ==
    ASSUME IInv, NEW r \in Runs, NEW pc, NEW verdict \in {"NONE", "ACCEPTED", "REJECTED"},
           UNCHANGED <<tableVars, messages, mhVars>>,
           run' = [run EXCEPT ![r].pc = pc, ![r].verdict = verdict],
           \/ run[r].pc \in SendPCs /\ pc \in {"undo", "complete"}
           \/ run[r].pc \in TxPCs /\ pc = "tx_complete",
           pc = "undo" => posts[run[r].codigo] = 0,
           pc # "undo" => HasVerdict(r)'
    PROVE  IInv'
<1>1. /\ run[r] \in RunState /\ Works(r) /\ Knows(r) /\ run[r].document \in Docs
      /\ run[r].pc # "idle"
  BY OfSender
<1>2. SameDocuments /\ EventsOK' /\ SameTargets /\ SameMarks /\ MessagesOK'
  BY Quietly, Untouched, SameMessages
<1>3. pc \in PCs
  BY DEF PCs, ConsumerPCs, DispatchPCs, RebuildPCs, OtherPCs
<1>4. Moves(r) /\ run'[r] = [run[r] EXCEPT !.pc = pc, !.verdict = verdict]
  BY <1>1, <1>3 DEF IInv, TypeOK, Moves, RunState, PCs
<1>5. /\ run'[r].pc = pc /\ run'[r].codigo = run[r].codigo
      /\ run'[r].correction = run[r].correction /\ run'[r].document = run[r].document
  <2>1. run[r] \in RunState
    BY <1>1
  <2>2. run'[r] = [run[r] EXCEPT !.pc = pc, !.verdict = verdict]
    BY <1>4
  <2>3. /\ run'[r].pc = [run[r] EXCEPT !.pc = pc, !.verdict = verdict].pc
        /\ run'[r].codigo = [run[r] EXCEPT !.pc = pc, !.verdict = verdict].codigo
        /\ run'[r].correction = [run[r] EXCEPT !.pc = pc, !.verdict = verdict].correction
        /\ run'[r].document = [run[r] EXCEPT !.pc = pc, !.verdict = verdict].document
    BY <2>2
  <2> QED BY <2>1, <2>3, GoingOn
<1>6. run[r].pc \in SendPCs => run[r].pc \in CorrectionPCs
  BY PlainIsApart
<1>7. pc \in {"undo", "complete"} => pc \in SendPCs
  BY DEF SendPCs
<1>8. pc = "tx_complete" => pc \in TxPCs /\ pc \notin CorrectionPCs
  BY DEF TxPCs, CorrectionPCs, ConsumerPCs, RebuildPCs, DispatchPCs, SettlePCs
<1>9. Works(r)'
  BY <1>1, <1>2, <1>5, <1>6, <1>8 DEF Works, SameTargets
<1>10. \A claim : Owns(r, claim)' = Owns(r, claim)
  BY <1>2, <1>5 DEF Owns, SameDocuments, docVars
<1>11. CASE run[r].pc \in SendPCs /\ pc \in {"undo", "complete"}
  <2>1. Dispatches(r) /\ Dispatches(r)'
    BY <1>5, <1>7, <1>11 DEF Dispatches
  <2>2. Knows(r)'
    <3>1. fiscal_corrections'[run'[r].correction].dispatched
      BY <1>1, <1>2, <1>5, <1>11, <1>6, <2>1 DEF Knows, Works, SameMarks
    <3>2. Owns(r, run[r].correction)'
      BY <1>1, <1>2, <1>5, <1>11 DEF Knows, Owns, SameDocuments, docVars
    <3>3. pc \notin TxPCs \cup InvPCs /\ ~Undispatched(r)'
      BY <1>5, <1>11 DEF TxPCs, InvPCs, Undispatched
    <3> QED BY <1>2, <1>5, <1>11, <3>1, <3>2, <3>3 DEF Knows, SameDocuments, mhVars
  <2> QED BY <1>2, <1>4, <1>5, <1>9, <2>1, <2>2, QuietStep
<1>12. CASE run[r].pc \in TxPCs /\ pc = "tx_complete"
  <2>1. ~Dispatches(r)'
    BY <1>5, <1>12 DEF Dispatches, Undispatched, SendPCs
  <2>2. Knows(r)'
    <3>1. Owns(r, r)'
      BY <1>1, <1>10, <1>12 DEF Knows
    <3>2. pc \notin SendPCs \cup InvPCs /\ ~Undispatched(r)'
      BY <1>5, <1>12 DEF SendPCs, InvPCs, Undispatched
    <3> QED BY <1>2, <1>5, <1>12, <2>1, <3>1, <3>2 DEF Knows, SameDocuments, mhVars
  <2> QED BY <1>2, <1>4, <1>9, <2>1, <2>2, QuietStep
<1> QED BY <1>11, <1>12

LEMMA ReplyStep ==
    ASSUME IInv, NEW r \in Runs, Reply(r) \/ TxReply(r)
    PROVE  IInv'
<1> DEFINE after == IF Reply(r) THEN "complete" ELSE "tx_complete"
<1>1. run[r].pc \in SendPCs \cup TxPCs
  BY DEF Reply, TxReply, At, SendPCs, TxPCs
<1>2. UNCHANGED <<tableVars, messages, mhVars>>
  BY DEF Reply, TxReply, ReadReply
<1>3. PICK reply \in MhReply :
        /\ MhCanReply(recepcion[run[r].codigo], reply)
        /\ IF parseMhResponse(reply) = "AMBIGUOUS"
             THEN (Reply(r) /\ Goto(r, "catch")) \/ (TxReply(r) /\ Return(r))
             ELSE run' = [run EXCEPT ![r].pc = after, ![r].verdict = parseMhResponse(reply)]
  <2>1. CASE Reply(r)
    BY <2>1 DEF Reply, ReadReply
  <2>2. CASE TxReply(r) /\ ~Reply(r)
    BY <2>2 DEF TxReply, ReadReply
  <2> QED BY <2>1, <2>2
<1>4. CASE parseMhResponse(reply) = "AMBIGUOUS"
  <2>1. SameDocuments /\ EventsOK' /\ UNCHANGED fiscal_corrections /\ UNCHANGED messages
    BY <1>2, Quietly
  <2>2. Moves(r) /\ GoesOn(r)
    <3>1. CASE Reply(r) /\ Goto(r, "catch")
      BY <3>1, Plain, GotoPlain DEF Reply, At
    <3>2. CASE TxReply(r) /\ Return(r)
      BY <3>2, ReturnPlain
    <3> QED BY <1>3, <1>4, <3>1, <3>2
  <2> QED BY <2>1, <2>2, Untouched, SameMessages, QuietStep
<1>5. CASE parseMhResponse(reply) # "AMBIGUOUS"
  <2>1. run' = [run EXCEPT ![r].pc = after, ![r].verdict = parseMhResponse(reply)]
    BY <1>3, <1>5
  <2>2. \/ parseMhResponse(reply) = "ACCEPTED" /\ recepcion[run[r].codigo] = "PROCESADO"
        \/ parseMhResponse(reply) = "REJECTED" /\ recepcion[run[r].codigo] = "RECHAZADO"
    BY <1>3, <1>5, Parsed
  <2>3. run'[r] = [run[r] EXCEPT !.pc = after, !.verdict = parseMhResponse(reply)]
    BY <2>1 DEF IInv, TypeOK
  <2>4. run'[r].verdict = parseMhResponse(reply) /\ run'[r].codigo = run[r].codigo
    BY <1>1, <2>3, OfSender DEF RunState
  <2>5. HasVerdict(r)'
    BY <1>2, <2>2, <2>4 DEF HasVerdict, mhVars
  <2>6. \/ run[r].pc \in SendPCs /\ after = "complete"
        \/ run[r].pc \in TxPCs /\ after = "tx_complete"
    BY DEF Reply, TxReply, At, SendPCs, TxPCs
  <2> QED BY <1>2, <2>1, <2>2, <2>5, <2>6, SenderStep
<1> QED BY <1>4, <1>5

LEMMA TokenFailsStep ==
    ASSUME IInv, NEW r \in Runs, TokenFails(r)
    PROVE  IInv'
<1>1. run[r].pc = "dispatch" /\ run[r].pc \in SendPCs /\ run[r].pc \in CorrectionPCs
  BY Plain DEF TokenFails, At, SendPCs
<1>2. run[r] \in RunState /\ Works(r) /\ Knows(r) /\ run[r].codigo \in NewCodes
  BY <1>1, OfSender
<1>3. posts[run[r].codigo] = 0
  BY <1>1, <1>2 DEF Knows
<1>4. UNCHANGED <<tableVars, messages, mhVars>>
  BY DEF TokenFails
<1>5. CASE Goto(r, "undo")
  <2>1. run' = [run EXCEPT ![r].pc = "undo", ![r].verdict = run[r].verdict]
    BY <1>2, <1>5 DEF Goto, IInv, TypeOK, RunState
  <2>2. run[r].verdict \in {"NONE", "ACCEPTED", "REJECTED"}
    BY <1>2 DEF RunState
  <2> QED BY <1>1, <1>3, <1>4, <2>1, <2>2, SenderStep
<1>6. CASE RaiseError(r, "PRE_DISPATCH")
  <2>1. SameDocuments /\ EventsOK' /\ SameTargets /\ SameMarks /\ MessagesOK'
    BY <1>4, Quietly, Untouched, SameMessages
  <2>2. Moves(r) /\ run'[r] = [run[r] EXCEPT !.pc = "error", !.error = "PRE_DISPATCH"]
    BY Zenon, <1>1, <1>6, RaiseErrorMoves
  <2>3. /\ run'[r].pc = "error" /\ run'[r].error = "PRE_DISPATCH"
        /\ run'[r].correction = run[r].correction /\ run'[r].document = run[r].document
    BY <1>2, <2>2 DEF RunState
  <2>4. Works(r)'
    BY <1>1, <1>2, <2>1, <2>3, PlainIsApart DEF Works, SameTargets
  <2>5. Dispatches(r) /\ Dispatches(r)'
    BY <1>1, <2>3 DEF Dispatches, Undispatched
  <2>6. Knows(r)'
    <3>1. fiscal_corrections'[run'[r].correction].dispatched
      BY <1>1, <1>2, <2>1, <2>3, <2>5 DEF Knows, Works, SameMarks
    <3>2. codigo_generacion'[run'[r].document] = run[r].codigo
      BY <1>1, <1>2, <2>1, <2>3 DEF Knows, Owns, SameDocuments, docVars
    <3>3. run'[r].pc \notin SendPCs \cup TxPCs \cup InvPCs
      BY <2>3 DEF SendPCs, TxPCs, InvPCs
    <3> QED BY <1>3, <2>1, <2>3, <3>1, <3>2, <3>3 DEF Knows, SendPCs, TxPCs, SameDocuments, mhVars
  <2> QED BY Zenon, <2>1, <2>2, <2>3, <2>4, <2>5, <2>6, QuietStep
<1> QED BY <1>5, <1>6 DEF TokenFails

\* The dispatch marker of the handler's correction is written.
LEMMA MarkStep ==
    ASSUME IInv, NEW r \in Runs, run[r].pc \in CorrectionPCs, Moves(r), SameTargets, SameDocuments,
           MessagesOK', EventsOK',
           \A c \in Corrections \ {run[r].correction} :
              fiscal_corrections'[c].dispatched = fiscal_corrections[c].dispatched,
           \/ fiscal_corrections'[run[r].correction].dispatched
           \/ /\ \A o \in Runs \ {r} : ~(Dispatches(o) /\ run[o].correction = run[r].correction)
              /\ dte_documents[run[r].document].op_claim = run[r].correction
                   /\ codigo_generacion[run[r].document] \in NewCodes
                 => posts[codigo_generacion[run[r].document]] = 0,
           Works(r)' /\ Knows(r)',
           Dispatches(r)' => /\ run'[r].correction = run[r].correction
                             /\ \A o \in Runs \ {r} :
                                   ~(Dispatches(o) /\ run[o].correction = run[r].correction)
    PROVE  IInv'
<1>1. TypeOK'
  BY DEF IInv, TypeOK, Moves, SameTargets, SameDocuments, docVars, mhVars, MessagesOK, EventsOK
<1>2. Places' /\ Sources' /\ Posts'
  BY TargetsStay, PostsStay DEF SameDocuments, docVars, mhVars
<1>3. Rows'
  <2>1. ASSUME NEW d \in Docs
        PROVE  Truthful(d)' /\ Replaced(d)'
    <3>1. Truthful(d) /\ Replaced(d) /\ Terminal(d)' = Terminal(d)
      BY DEF IInv, Rows, Terminal, SameDocuments, docVars
    <3>2. Replaced(d)'
      BY <3>1 DEF Replaced, SameTargets, SameDocuments, docVars, mhVars
    <3>3. dte_documents[d].op_claim = run[r].correction => d = run[r].document
      BY OfCorrection DEF IInv, Places, Correction
    <3>4. Truthful(d)'
      BY <3>1, <3>3 DEF Truthful, SameDocuments, docVars, mhVars
    <3> QED BY <3>2, <3>4
  <2> QED BY <2>1 DEF Rows
<1>4. ASSUME NEW o \in Runs \ {r}
      PROVE  Works(o)' /\ Knows(o)' /\ Dispatches(o)' = Dispatches(o)
  <2>1. run'[o] = run[o]
    BY DEF Moves
  <2>2. Dispatches(o) => fiscal_corrections'[run[o].correction].dispatched
    BY PlainIsApart DEF IInv, RunsKnow, Knows, Works, Dispatches, Undispatched
  <2>3. Works(o)' /\ Knows(o)'
    BY <2>1, <2>2, WorksStays, KnowsStays DEF SameDocuments, docVars, Unshaken
  <2> QED BY <2>1, <2>3 DEF Dispatches, Undispatched
<1>5. RunsKnow'
  BY <1>4 DEF RunsKnow
<1>6. OneDispatches'
  BY <1>4 DEF IInv, OneDispatches, Moves
<1> QED BY <1>1, <1>2, <1>3, <1>5, <1>6 DEF IInv, MessagesOK

LEMMA MarkWritten ==
    ASSUME IInv, NEW r \in Runs, run[r].pc \in CorrectionPCs, NEW mark \in BOOLEAN,
           SetCorrection(r, [Correction(r) EXCEPT !.dispatched = mark])
    PROVE  /\ SameTargets
           /\ fiscal_corrections'[run[r].correction].dispatched = mark
           /\ \A c \in Corrections \ {run[r].correction} :
                 fiscal_corrections'[c].dispatched = fiscal_corrections[c].dispatched
<1>1. run[r].correction \in Corrections /\ Correction(r) \in CorrectionRow
  BY OfCorrection
<1>2. fiscal_corrections \in [Corrections -> CorrectionRow]
  BY DEF IInv, TypeOK
<1> DEFINE y == [Correction(r) EXCEPT !.dispatched = mark]
<1>3. /\ y \in CorrectionRow /\ y.dispatched = mark
      /\ y.kind = Correction(r).kind /\ y.document = Correction(r).document
      /\ y.source = Correction(r).source /\ y.status = Correction(r).status
  BY <1>1 DEF CorrectionRow
<1>4. fiscal_corrections' = [fiscal_corrections EXCEPT ![run[r].correction] = y]
  BY DEF SetCorrection
<1> HIDE DEF y
<1> QED BY <1>1, <1>2, <1>3, <1>4 DEF SameTargets, Correction

LEMMA MarkDispatchStep ==
    ASSUME IInv, NEW r \in Runs, MarkDispatch(r)
    PROVE  IInv'
<1> DEFINE c       == run[r].correction
           enabled == /\ markFiscalCorrectionMhDispatchStartedEnabled(
                             Correction(r), c, run[r].token, Document(r), Event(r))
                      /\ Codigo(r) = run[r].codigo
<1>1. run[r].pc \in CorrectionPCs
  BY Plain DEF MarkDispatch, At
<1>2. SameDocuments /\ EventsOK' /\ UNCHANGED messages
  BY Settling DEF MarkDispatch, Proceed, Throw
<1>3. /\ c \in Corrections /\ run[r].document \in Docs /\ Correction(r) \in CorrectionRow
      /\ run[r] \in RunState
  BY <1>1, OfCorrection
<1>4. CASE ~enabled
  <2>1. SetCorrection(r, [Correction(r) EXCEPT !.dispatched = @ \/ FALSE]) /\ Throw(r)
    <3>1. SetCorrection(r, [Correction(r) EXCEPT !.dispatched = @ \/ enabled])
          /\ IF enabled THEN Proceed(r, "dispatch") ELSE Throw(r)
      BY DEF MarkDispatch
    <3> HIDE DEF enabled
    <3>2. (Correction(r).dispatched \/ enabled) = (Correction(r).dispatched \/ FALSE)
      BY <1>4
    <3> QED BY <1>4, <3>1, <3>2
  <2>2. [Correction(r) EXCEPT !.dispatched = @ \/ FALSE] = Correction(r)
    BY <1>3 DEF CorrectionRow
  <2>3. Keeps(Correction(r), Correction(r)) /\ SetCorrection(r, Correction(r))
    BY <1>1, <2>1, <2>2, OfCorrection, Statements
  <2> QED BY <1>1, <1>2, <2>1, <2>3, SettlesStep DEF Settles
<1>5. CASE enabled
  <2>1. Proceed(r, "dispatch") /\ SetCorrection(r, [Correction(r) EXCEPT !.dispatched = TRUE])
    <3>1. SetCorrection(r, [Correction(r) EXCEPT !.dispatched = @ \/ enabled])
          /\ IF enabled THEN Proceed(r, "dispatch") ELSE Throw(r)
      BY DEF MarkDispatch
    <3> HIDE DEF enabled
    <3>2. (Correction(r).dispatched \/ enabled) = TRUE
      BY <1>5
    <3> QED BY <1>5, <3>1, <3>2
  <2>2. /\ SameTargets /\ fiscal_corrections'[c].dispatched
        /\ \A o \in Corrections \ {c} :
              fiscal_corrections'[o].dispatched = fiscal_corrections[o].dispatched
    BY <1>1, <2>1, MarkWritten
  <2>3. Moves(r) /\ run'[r] = [run[r] EXCEPT !.pc = "dispatch"]
    <3>1. "dispatch" \in PCs
      BY DEF PCs, ConsumerPCs, DispatchPCs
    <3> QED BY <2>1, <3>1, GotoMoves DEF Proceed, IInv
  <2>4. /\ run'[r].pc = "dispatch" /\ run'[r].codigo = run[r].codigo
        /\ run'[r].correction = c /\ run'[r].document = run[r].document
    BY <1>3, <2>3 DEF RunState
  <2>5. /\ Document(r).status = "SIGNED" /\ Document(r).op_claim = c
        /\ Codigo(r) = run[r].codigo /\ ~Correction(r).dispatched
    BY <1>5 DEF markFiscalCorrectionMhDispatchStartedEnabled, Held
  <2>6. run[r].codigo \in NewCodes
    <3>1. /\ Codigo(r) \in Codes /\ Placed(Codigo(r), run[r].document)
          /\ Codigo(r) = NULL => Document(r).status = "REJECTED"
      BY <1>1, <1>3, OfCorrection DEF IInv, Places, Codigo, Document
    <3> QED BY <2>5, <3>1 DEF Codes, Placed, NewCodes
  <2>7. posts[run[r].codigo] = 0
    <3>1. Truthful(run[r].document) /\ ~Terminal(run[r].document)
      BY <1>3, <2>5 DEF IInv, Rows, Terminal, Document, isTerminalDteStatus, TerminalStatus
    <3>2. ~(posts[run[r].codigo] > 0)
      BY <1>3, <2>5, <2>6, <3>1 DEF Truthful, Document, Codigo, Correction
    <3> QED BY <2>6, <3>2 DEF IInv, TypeOK
  <2>8. \A o \in Runs \ {r} : ~(Dispatches(o) /\ run[o].correction = run[r].correction)
    BY <2>5 DEF IInv, RunsKnow, Knows, Correction
  <2>9. Works(r)'
    BY <1>1, <2>2, <2>4, OfCorrection DEF Works, SameTargets, Correction
  <2>10. Knows(r)'
    <3>1. Owns(r, c)'
      BY <1>2, <2>4, <2>5, <2>6 DEF Owns, SameDocuments, docVars, Document, Codigo
    <3>2. run'[r].pc \notin TxPCs \cup InvPCs /\ ~Undispatched(r)'
      BY <2>4 DEF TxPCs, InvPCs, Undispatched
    <3> QED BY <1>2, <2>2, <2>4, <2>7, <3>1, <3>2 DEF Knows, SameDocuments, mhVars
  <2> QED BY <1>1, <1>2, <2>2, <2>3, <2>4, <2>8, <2>9, <2>10, SameMessages, MarkStep
<1> QED BY <1>4, <1>5

LEMMA ClearStep ==
    ASSUME IInv, NEW r \in Runs, Clear(r)
    PROVE  IInv'
<1> DEFINE enabled == clearFiscalCorrectionMhDispatchStartedEnabled(Correction(r), run[r].token)
<1>1. run[r].pc = "clear" /\ run[r].pc \in CorrectionPCs
  BY Plain DEF Clear, At
<1>2. SameDocuments /\ EventsOK' /\ UNCHANGED messages /\ Goto(r, "fail")
  BY Settling DEF Clear, Proceed
<1>3. PICK mark \in BOOLEAN : SetCorrection(r, [Correction(r) EXCEPT !.dispatched = mark])
  <2>1. (Correction(r).dispatched /\ ~enabled) \in BOOLEAN
    OBVIOUS
  <2> QED BY <2>1 DEF Clear
<1>4. /\ SameTargets
      /\ \A o \in Corrections \ {run[r].correction} :
            fiscal_corrections'[o].dispatched = fiscal_corrections[o].dispatched
  BY <1>1, <1>3, MarkWritten
<1>5. Undispatched(r) /\ Dispatches(r)
  BY <1>1 DEF Undispatched, Dispatches, IInv, RunsKnow, Knows
<1>6. /\ \A o \in Runs \ {r} : ~(Dispatches(o) /\ run[o].correction = run[r].correction)
      /\ dte_documents[run[r].document].op_claim = run[r].correction
           /\ codigo_generacion[run[r].document] \in NewCodes
         => posts[codigo_generacion[run[r].document]] = 0
  BY <1>5 DEF IInv, OneDispatches, RunsKnow, Knows
<1>7. Moves(r) /\ GoesOn(r)
  BY <1>1, <1>2, Plain, GotoPlain
<1>8. Works(r)' /\ Knows(r)' /\ ~Dispatches(r)'
  BY <1>4, <1>7, WorksStays, GoesOnKnows
<1> QED BY <1>1, <1>2, <1>4, <1>6, <1>7, <1>8, SameMessages, MarkStep

-----------------------------------------------------------------------------
(* A document is written.                                                  *)

LEMMA Owner ==
    ASSUME IInv, NEW o \in Runs, run[o].pc \in OwnerPCs
    PROVE  /\ run[o].document \in Docs
           /\ dte_documents[run[o].document].status \in {"SIGNED", "ACCEPTED"}
           /\ \/ /\ run[o].pc \in SendPCs /\ Dispatches(o) /\ run[o].correction \in Corrections
                 /\ fiscal_corrections[run[o].correction].dispatched
                 /\ dte_documents[run[o].document].op_claim = run[o].correction
              \/ /\ run[o].pc \in TxPCs \cup InvPCs
                 /\ dte_documents[run[o].document].op_claim = o
<1>1. Works(o) /\ Knows(o)
  BY DEF IInv, RunsKnow
<1>2. run[o].document \in Docs
  BY <1>1 DEF Works, OwnerPCs, SendPCs, TxPCs, InvPCs
<1>3. CASE run[o].pc \in SendPCs
  <2>1. run[o].correction \in Corrections /\ Dispatches(o)
    BY <1>1, <1>3, PlainIsApart DEF Works, Dispatches
  <2> QED BY <1>1, <1>2, <1>3, <2>1 DEF Knows, Owns
<1>4. CASE run[o].pc \in TxPCs
  BY <1>1, <1>2, <1>4 DEF Knows, Owns
<1>5. CASE run[o].pc \in InvPCs
  BY <1>1, <1>2, <1>5 DEF Knows, Annuls
<1> QED BY <1>3, <1>4, <1>5 DEF OwnerPCs

LEMMA NoOwner ==
    ASSUME IInv, NEW d \in Docs,
           \/ dte_documents[d].op_claim = NULL
           \/ dte_documents[d].status \notin {"SIGNED", "ACCEPTED"}
           \/ /\ dte_documents[d].op_claim \in Corrections
              /\ ~fiscal_corrections[dte_documents[d].op_claim].dispatched
    PROVE  \A o \in Runs : run[o].document = d => run[o].pc \notin OwnerPCs
  BY Owner, Names

LEMMA OneOwner ==
    ASSUME IInv, NEW r \in Runs, run[r].pc \in OwnerPCs
    PROVE  \A o \in Runs \ {r} : run[o].document = run[r].document => run[o].pc \notin OwnerPCs
<1> SUFFICES ASSUME NEW o \in Runs, run[o].document = run[r].document, run[o].pc \in OwnerPCs
             PROVE  o = r
  OBVIOUS
<1>1. \/ Dispatches(o) /\ Dispatches(r) /\ run[o].correction = run[r].correction
      \/ o = r
  BY Owner, Names
<1> QED BY <1>1 DEF IInv, OneDispatches

\* A handler that moves, or one that does not own document d.
Apart(o, d) ==
    \/ run'[o] = run[o] /\ (run[o].document = d => run[o].pc \notin OwnerPCs)
    \/ GoesOn(o)
    \/ /\ Works(o)' /\ Knows(o)'
       /\ Dispatches(o)' => Dispatches(o) /\ run'[o].correction = run[o].correction

\* What a codigo that is still unsent says of its row.
Unsent(d) == codigo_generacion[d] \in NewCodes => posts[codigo_generacion[d]] = 0

LEMMA ApartContinues ==
    ASSUME IInv, NEW d \in Docs, NEW o \in Runs, Apart(o, d),
           \A e \in Docs \ {d} : /\ dte_documents'[e] = dte_documents[e]
                                 /\ codigo_generacion'[e] = codigo_generacion[e],
           \/ codigo_generacion'[d] \in NewCodes => posts[codigo_generacion'[d]] = 0
           \/ dte_documents'[d].op_claim \notin Corrections
    PROVE  Continues(o)
<1>1. CASE run'[o] = run[o] /\ (run[o].document = d => run[o].pc \notin OwnerPCs)
  <2>1. Undispatched(o) => run[o].correction \in Corrections
    BY PlainIsApart DEF IInv, RunsKnow, Works, Undispatched
  <2>2. CASE run[o].document = d
    BY <1>1, <2>1, <2>2 DEF Continues, Unshaken
  <2>3. CASE run[o].document \in Docs \ {d}
    BY <1>1, <2>3 DEF Continues, Unshaken
  <2>4. CASE run[o].document \notin Docs
    <3>1. run[o].pc = "idle"
      BY <2>4 DEF IInv, RunsKnow, Works
    <3> QED BY <1>1, <3>1 DEF Continues, Unshaken, Undispatched, OwnerPCs, SendPCs, TxPCs, InvPCs
  <2> QED BY <2>2, <2>3, <2>4
<1> QED BY <1>1 DEF Apart, Continues

LEMMA RowWritten ==
    ASSUME IInv, SameTargets, SameMarks, MessagesOK', EventsOK', UNCHANGED <<codigo_generacion, mhVars>>,
           NEW d \in Docs, NEW row \in DteRow, dte_documents' = [dte_documents EXCEPT ![d] = row],
           codigo_generacion[d] = NULL => row.status = "REJECTED",
           row.op_claim \in Corrections =>
              /\ fiscal_corrections[row.op_claim].kind # "NONE"
              /\ fiscal_corrections[row.op_claim].document = d,
           Truthful(d)' /\ Replaced(d)',
           Unsent(d) \/ row.op_claim \notin Corrections,
           run' \in [Runs -> RunState], \A o \in Runs : Apart(o, d)
    PROVE  IInv'
<1>1. /\ dte_documents \in [Docs -> DteRow] /\ codigo_generacion \in [Docs -> Codes]
      /\ Places
  BY DEF IInv, TypeOK
<1>2. dte_documents' \in [Docs -> DteRow] /\ dte_documents'[d] = row
        /\ \A e \in Docs \ {d} : dte_documents'[e] = dte_documents[e]
  BY <1>1
<1>3. Places'
  <2>1. \A k, e : Placed(k, e)' = Placed(k, e)
    BY DEF Placed, SameTargets
  <2>2. ASSUME NEW e \in Docs
        PROVE  /\ Placed(codigo_generacion[e], e)'
               /\ codigo_generacion'[e] = NULL => dte_documents'[e].status = "REJECTED"
               /\ dte_documents'[e].op_claim \in Corrections =>
                     /\ fiscal_corrections'[dte_documents'[e].op_claim].kind # "NONE"
                     /\ fiscal_corrections'[dte_documents'[e].op_claim].document = e
    <3>1. Placed(codigo_generacion[e], e)'
      BY <1>1, <2>1 DEF Places
    <3>2. CASE e = d
      BY <1>2, <3>1, <3>2 DEF SameTargets
    <3>3. CASE e # d
      BY <1>1, <1>2, <3>1, <3>3 DEF SameTargets, Places
    <3> QED BY <3>2, <3>3
  <2> QED BY <1>1, <2>1, <2>2 DEF Places, SameTargets
<1>4. Posts'
  BY PostsStay
<1>5. Rows'
  <2>1. ASSUME NEW e \in Docs \ {d} PROVE Truthful(e)' /\ Replaced(e)'
    BY <1>2, RowsStay
  <2> QED BY <2>1 DEF Rows
<1>6. \A o \in Runs : Continues(o)
  BY <1>2, ApartContinues DEF Unsent, mhVars
<1> QED BY <1>1, <1>2, <1>3, <1>4, <1>5, <1>6, RowStep

\* The claim and the status of the document are kept.
LEMMA RowKept ==
    ASSUME IInv, SameTargets, SameMarks, MessagesOK', EventsOK', UNCHANGED <<codigo_generacion, mhVars>>,
           NEW d \in Docs, NEW row \in DteRow, dte_documents' = [dte_documents EXCEPT ![d] = row],
           row.status = dte_documents[d].status, row.op_claim = dte_documents[d].op_claim,
           run' \in [Runs -> RunState], \A o \in Runs : run'[o] = run[o] \/ GoesOn(o)
    PROVE  IInv'
<1>1. /\ dte_documents \in [Docs -> DteRow] /\ codigo_generacion \in [Docs -> Codes]
      /\ Places
  BY DEF IInv, TypeOK
<1>2. /\ dte_documents' \in [Docs -> DteRow]
      /\ \A e \in Docs : /\ dte_documents'[e].status = dte_documents[e].status
                         /\ dte_documents'[e].op_claim = dte_documents[e].op_claim
      /\ \A e : e \notin Docs => dte_documents'[e] = dte_documents[e]
  BY <1>1
<1>3. Places'
  <2>1. \A k, e : Placed(k, e)' = Placed(k, e)
    BY DEF Placed, SameTargets
  <2> QED BY <1>1, <1>2, <2>1 DEF Places, SameTargets
<1>4. Posts' /\ Rows'
  BY <1>2, PostsStay, RowsStay DEF Rows
<1>5. \A o \in Runs : Continues(o)
  <2>1. ASSUME NEW o \in Runs, run'[o] = run[o] PROVE Unshaken(o)
    <3>1. CASE run[o].document \in Docs
      BY <1>2, <3>1 DEF Unshaken
    <3>2. CASE run[o].document \notin Docs
      <4>1. run[o].pc = "idle"
        BY <3>2 DEF IInv, RunsKnow, Works
      <4> QED BY <4>1 DEF Unshaken, Undispatched, OwnerPCs, SendPCs, TxPCs, InvPCs
    <3> QED BY <3>1, <3>2
  <2> QED BY <2>1 DEF Continues
<1> QED BY <1>1, <1>2, <1>3, <1>4, <1>5, RowStep

\* Nothing was sent under the codigo of the row, and the row has no verdict.
LEMMA UnsentRow ==
    ASSUME NEW d \in Docs, Unsent(d), UNCHANGED <<codigo_generacion, mhVars>>,
           ~isTerminalDteStatus(dte_documents'[d].status)
    PROVE  Truthful(d)' /\ Replaced(d)'
<1>1. dte_documents'[d].status \notin {"REJECTED", "ACCEPTED", "INVALIDATED"}
  BY DEF isTerminalDteStatus, TerminalStatus
<1>2. ~(codigo_generacion[d] \in NewCodes /\ posts[codigo_generacion[d]] > 0)
  BY DEF Unsent
<1> QED BY <1>1, <1>2 DEF Truthful, Replaced, mhVars

LEMMA StillUnsent ==
    ASSUME IInv, NEW d \in Docs, ~isTerminalDteStatus(dte_documents[d].status),
           \/ dte_documents[d].op_claim = NULL
           \/ dte_documents[d].status # "SIGNED"
           \/ /\ dte_documents[d].op_claim \in Corrections
              /\ ~fiscal_corrections[dte_documents[d].op_claim].dispatched
    PROVE  Unsent(d) /\ codigo_generacion[d] \in NewCodes
<1>1. /\ Truthful(d) /\ ~Terminal(d) /\ Placed(codigo_generacion[d], d)
      /\ codigo_generacion[d] \in Codes /\ codigo_generacion[d] # NULL
  BY DEF IInv, Rows, Terminal, Places, TypeOK, isTerminalDteStatus, TerminalStatus
<1>2. codigo_generacion[d] \in NewCodes
  BY <1>1 DEF Codes, Placed, NewCodes
<1>3. ~(posts[codigo_generacion[d]] > 0)
  BY <1>1, <1>2 DEF Truthful
<1> QED BY <1>2, <1>3 DEF Unsent, IInv, TypeOK

LEMMA RowOnly ==
    ASSUME IInv, UNCHANGED <<fiscal_corrections, codigo_generacion, otherVars, messages, mhVars>>
    PROVE  /\ SameTargets /\ SameMarks /\ MessagesOK' /\ EventsOK'
           /\ UNCHANGED <<codigo_generacion, mhVars>>
  BY Untouched, SameMessages, EventsStay DEF SameEvents

LEMMA ApartAll ==
    ASSUME IInv, NEW r \in Runs, NEW d, Moves(r),
           \/ GoesOn(r)
           \/ /\ Works(r)' /\ Knows(r)'
              /\ Dispatches(r)' => Dispatches(r) /\ run'[r].correction = run[r].correction,
           \A o \in Runs \ {r} : run[o].document = d => run[o].pc \notin OwnerPCs
    PROVE  run' \in [Runs -> RunState] /\ \A o \in Runs : Apart(o, d)
  BY DEF Moves, Apart

\* The statements on a document that fill in or take away a claim.
LEMMA RowStatements ==
    ASSUME NEW row \in DteRow
    PROVE  /\ WithoutOperation(row) \in DteRow /\ WithoutOperation(row).op_claim = NULL
           /\ WithoutOperation(row).status = row.status
           /\ updateDocumentSigned(row) \in DteRow /\ updateDocumentSigned(row).status = "SIGNED"
           /\ updateDocumentSigned(row).op_claim = row.op_claim
           /\ markDocumentFailed(row) \in DteRow /\ markDocumentFailed(row).status = "FAILED"
           /\ markDocumentFailed(row).op_claim = NULL
           /\ markDocumentTransmissionDeferred(row) \in DteRow
           /\ markDocumentTransmissionDeferred(row).op_claim = NULL
           /\ markDocumentTransmissionDeferred(row).status = row.status
           /\ markDocumentPostAcceptFinalized(row) \in DteRow
           /\ markDocumentPostAcceptFinalized(row).op_claim = row.op_claim
           /\ markDocumentPostAcceptFinalized(row).status = row.status
  BY NullIsNoId
     DEF DteRow, DteStatus, WithoutOperation, updateDocumentSigned, markDocumentFailed,
         markDocumentTransmissionDeferred, markDocumentPostAcceptFinalized

LEMMA ClaimStatements ==
    ASSUME NEW row \in DteRow, NEW claim \in Ids
    PROVE  /\ claimDocumentTransmission(row, claim) \in DteRow
           /\ claimDocumentTransmission(row, claim).status = "SIGNED"
           /\ claimDocumentTransmission(row, claim).op_claim = claim
           /\ HoldDocument(row, claim) \in DteRow
           /\ HoldDocument(row, claim).status = row.status
           /\ HoldDocument(row, claim).op_claim = claim
  BY DEF DteRow, DteStatus, claimDocumentTransmission, HoldDocument

LEMMA ExpectKnows ==
    ASSUME NEW r \in Runs, run'[r].pc \in {"sign", "sign_held", "claim_doc"},
           ~isTerminalDteStatus(run'[r].expected)
    PROVE  Knows(r)' /\ ~Dispatches(r)'
<1>1. run'[r].pc \notin OwnerPCs \cup {"error", "clear", "release"}
  BY DEF OwnerPCs, SendPCs, TxPCs, InvPCs
<1> QED BY <1>1 DEF Knows, Dispatches, Undispatched, OwnerPCs, SendPCs, TxPCs

LEMMA SignStep ==
    ASSUME IInv, NEW r \in Runs, Sign(r)
    PROVE  IInv'
<1> DEFINE enabled == \/ At(r, "sign") /\ updateDocumentSignedEnabled(Document(r), run[r].expected)
                      \/ /\ At(r, "sign_held")
                         /\ Document(r).status = run[r].expected
                         /\ Held(Document(r), run[r].correction)
           after   == IF At(r, "sign") THEN "claim_doc" ELSE "mark"
<1>1. run[r].pc \in {"sign", "sign_held"} /\ run[r].pc \in CorrectionPCs
  BY Plain DEF Sign
<1>2. /\ SameTargets /\ SameMarks /\ MessagesOK' /\ EventsOK'
      /\ UNCHANGED <<codigo_generacion, mhVars>>
  BY RowOnly DEF Sign
<1>0. PICK d \in Docs : d = run[r].document
  BY <1>1, OfCorrection
<1>3. /\ Document(r) = dte_documents[d] /\ Document(r) \in DteRow
      /\ run[r] \in RunState /\ run[r].pc # "idle" /\ run[r].correction \in Corrections
  BY <1>0, <1>1, OfCorrection, PlainIsApart DEF Document
<1>4. ~isTerminalDteStatus(run[r].expected)
  BY <1>1 DEF IInv, RunsKnow, Knows
<1>5. CASE ~enabled
  <2>1. SetDocument(r, Document(r)) /\ run' = [run EXCEPT ![r].pc = "finish", ![r].expected = @]
    BY <1>5 DEF Sign
  <2>2. Goto(r, "finish")
    BY <1>3, <2>1 DEF Goto, IInv, TypeOK, RunState
  <2>3. Moves(r) /\ GoesOn(r)
    BY <1>1, <2>2, GotoPlain, Plain
  <2>4. dte_documents' = [dte_documents EXCEPT ![d] = Document(r)]
    BY <1>0, <2>1 DEF SetDocument
  <2> QED BY <1>2, <1>3, <2>3, <2>4, RowKept DEF Moves
<1>6. CASE enabled
  <2> DEFINE row == updateDocumentSigned(Document(r))
  <2>1. /\ dte_documents' = [dte_documents EXCEPT ![d] = row]
        /\ run' = [run EXCEPT ![r].pc = after, ![r].expected = "SIGNED"]
    BY <1>0, <1>6 DEF Sign, SetDocument
  <2>2. row \in DteRow /\ row.status = "SIGNED" /\ row.op_claim = Document(r).op_claim
    BY <1>3, RowStatements
  <2>3. after \in PCs
    BY DEF PCs, ConsumerPCs, DispatchPCs
  <2>4. Moves(r) /\ run'[r] = [run[r] EXCEPT !.pc = after, !.expected = "SIGNED"]
    BY <1>3, <2>1, <2>3 DEF IInv, TypeOK, Moves, RunState, PCs, DteStatus
  <2>5. /\ run'[r].pc = after /\ run'[r].expected = "SIGNED"
        /\ run'[r].correction = run[r].correction /\ run'[r].document = d
    BY <1>0, <1>3, <2>4 DEF RunState
  <2>6. ~isTerminalDteStatus("SIGNED")
    BY DEF isTerminalDteStatus, TerminalStatus
  <2>7. GoesOn(r) \/ (Works(r)' /\ Knows(r)' /\ ~Dispatches(r)')
    <3>1. CASE after = "mark"
      BY <1>0, <1>1, <1>3, <2>5, <3>1, Plain DEF GoesOn
    <3>2. CASE after = "claim_doc"
      <4>1. Works(r)'
        BY <1>0, <1>1, <1>2, <1>3, <2>5 DEF IInv, RunsKnow, Works, SameTargets
      <4> QED BY <2>5, <2>6, <3>2, <4>1, ExpectKnows
    <3> QED BY <3>1, <3>2
  <2>8. Document(r).status = run[r].expected
    BY <1>6 DEF updateDocumentSignedEnabled
  <2>9. CASE At(r, "sign_held") /\ Document(r).status = "SIGNED"
    <3>1. GoesOn(r)
      BY <1>0, <1>1, <1>3, <2>5, <2>9, Plain DEF GoesOn, At
    <3> QED BY <1>2, <1>3, <2>1, <2>2, <2>4, <2>9, <3>1, RowKept DEF Moves
  <2>10. CASE \/ At(r, "sign") /\ Document(r).op_claim = NULL
              \/ At(r, "sign_held") /\ Document(r).status # "SIGNED"
    <3>1. Document(r).op_claim = NULL \/ Document(r).status \notin {"SIGNED", "ACCEPTED"}
      BY <1>4, <2>8, <2>10 DEF isTerminalDteStatus, TerminalStatus
    <3>2. Unsent(d) /\ codigo_generacion[d] \in NewCodes
      BY <1>3, <1>4, <2>8, <3>1, StillUnsent
    <3>3. \A o \in Runs : run[o].document = d => run[o].pc \notin OwnerPCs
      BY <1>3, <3>1, NoOwner
    <3>4. run' \in [Runs -> RunState] /\ \A o \in Runs : Apart(o, d)
      BY <2>4, <2>7, <3>3, ApartAll
    <3>5. dte_documents'[d].status = "SIGNED"
      BY <1>3, <2>1, <2>2 DEF IInv, TypeOK
    <3>6. Truthful(d)' /\ Replaced(d)'
      BY <1>2, <1>3, <2>6, <3>2, <3>5, UnsentRow
    <3>7. row.op_claim \in Corrections =>
             /\ fiscal_corrections[row.op_claim].kind # "NONE"
             /\ fiscal_corrections[row.op_claim].document = d
      BY <1>3, <2>2 DEF IInv, Places
    <3>8. codigo_generacion[d] # NULL
      BY <3>2, Names
    <3> QED BY <1>2, <1>3, <2>1, <2>2, <3>2, <3>4, <3>6, <3>7, <3>8, RowWritten
  <2> QED BY <1>6, <2>9, <2>10 DEF updateDocumentSignedEnabled
<1> QED BY <1>5, <1>6

\* A delivery writes a row that carries no verdict and whose codigo is unsent.
LEMMA UnsentWritten ==
    ASSUME IInv, NEW r \in Runs, NEW d \in Docs, NEW row \in DteRow,
           UNCHANGED <<fiscal_corrections, codigo_generacion, otherVars, messages, mhVars>>,
           dte_documents' = [dte_documents EXCEPT ![d] = row],
           ~isTerminalDteStatus(row.status),
           Unsent(d), codigo_generacion[d] # NULL,
           row.op_claim \in Corrections =>
              /\ fiscal_corrections[row.op_claim].kind # "NONE"
              /\ fiscal_corrections[row.op_claim].document = d,
           Moves(r),
           \/ GoesOn(r)
           \/ /\ Works(r)' /\ Knows(r)'
              /\ Dispatches(r)' => Dispatches(r) /\ run'[r].correction = run[r].correction,
           \A o \in Runs \ {r} : run[o].document = d => run[o].pc \notin OwnerPCs
    PROVE  IInv'
<1>1. /\ SameTargets /\ SameMarks /\ MessagesOK' /\ EventsOK'
      /\ UNCHANGED <<codigo_generacion, mhVars>>
  BY RowOnly
<1>2. run' \in [Runs -> RunState] /\ \A o \in Runs : Apart(o, d)
  BY ApartAll
<1>3. dte_documents'[d] = row
  BY DEF IInv, TypeOK
<1>4. Truthful(d)' /\ Replaced(d)'
  BY <1>1, <1>3, UnsentRow
<1> QED BY <1>1, <1>2, <1>4, RowWritten

LEMMA UnsignedStep ==
    ASSUME IInv, NEW r \in Runs, Unsigned(r)
    PROVE  IInv'
<1>1. run[r].pc = "unsigned" /\ run[r].pc \in CorrectionPCs
  BY Plain DEF Unsigned, At
<1>2. PICK d \in Docs : d = run[r].document
  BY <1>1, OfCorrection
<1>3. Document(r) = dte_documents[d] /\ Document(r) \in DteRow
  BY <1>1, <1>2, OfCorrection DEF Document
<1>4. UNCHANGED <<fiscal_corrections, codigo_generacion, otherVars, messages, mhVars>>
  BY Zenon DEF Unsigned
<1>5. Moves(r) /\ GoesOn(r)
  <2>1. RaiseError(r, "OTHER") \/ Goto(r, "finish")
    BY DEF Unsigned
  <2> QED BY Zenon, <1>1, <2>1, Plain, RaiseErrorMoves, GotoPlain
<1>6. CASE markDocumentFailedEnabled(Document(r), NULL)
  <2> DEFINE row == markDocumentFailed(Document(r))
  <2>1. dte_documents' = [dte_documents EXCEPT ![d] = row]
    BY <1>2, <1>6 DEF Unsigned, SetDocument
  <2>2. row \in DteRow /\ row.status = "FAILED" /\ row.op_claim = NULL
    BY <1>3, RowStatements
  <2>3. ~isTerminalDteStatus(row.status) /\ row.op_claim \notin Corrections
    BY <2>2, Names DEF isTerminalDteStatus, TerminalStatus
  <2>4. ~isTerminalDteStatus(dte_documents[d].status) /\ dte_documents[d].op_claim = NULL
    BY <1>3, <1>6 DEF markDocumentFailedEnabled
  <2>5. Unsent(d) /\ codigo_generacion[d] # NULL
    BY <2>4, StillUnsent, Names
  <2>6. \A o \in Runs : run[o].document = d => run[o].pc \notin OwnerPCs
    BY <2>4, NoOwner
  <2> QED BY <1>4, <1>5, <2>1, <2>2, <2>3, <2>5, <2>6, UnsentWritten
<1>7. CASE ~markDocumentFailedEnabled(Document(r), NULL)
  <2>1. dte_documents' = [dte_documents EXCEPT ![d] = Document(r)]
    BY <1>2, <1>7 DEF Unsigned, SetDocument
  <2> QED BY <1>3, <1>4, <1>5, <2>1, RowOnly, RowKept DEF Moves
<1> QED BY <1>6, <1>7

\* The document is claimed for its transmission.
LEMMA Claimed ==
    ASSUME IInv, NEW d \in Docs, NEW claim \in Ids,
           ~isTerminalDteStatus(dte_documents[d].status), dte_documents[d].op_claim = NULL
    PROVE  LET row == claimDocumentTransmission(dte_documents[d], claim)
           IN  /\ row \in DteRow /\ row.status = "SIGNED" /\ row.op_claim = claim
               /\ ~isTerminalDteStatus(row.status)
               /\ Unsent(d) /\ codigo_generacion[d] \in NewCodes /\ codigo_generacion[d] # NULL
               /\ \A o \in Runs : run[o].document = d => run[o].pc \notin OwnerPCs
<1>1. dte_documents[d] \in DteRow
  BY Typed DEF IInv
<1>3. ~isTerminalDteStatus("SIGNED")
  BY DEF isTerminalDteStatus, TerminalStatus
<1>4. Unsent(d) /\ codigo_generacion[d] \in NewCodes /\ codigo_generacion[d] # NULL
  BY StillUnsent, Names
<1>5. \A o \in Runs : run[o].document = d => run[o].pc \notin OwnerPCs
  BY NoOwner
<1> QED BY <1>1, <1>3, <1>4, <1>5, ClaimStatements

LEMMA ClaimDocumentStep ==
    ASSUME IInv, NEW r \in Runs, ClaimDocument(r)
    PROVE  IInv'
<1> DEFINE blocked == TransmissionBlocked(fiscal_corrections, run[r].document, run[r].correction)
           enabled == /\ claimDocumentTransmissionEnabled(Document(r), run[r].expected, blocked)
                      /\ Codigo(r) = run[r].codigo
           c       == run[r].correction
<1>1. run[r].pc = "claim_doc" /\ run[r].pc \in CorrectionPCs
  BY Plain DEF ClaimDocument, At
<1>2. PICK d \in Docs : d = run[r].document
  BY <1>1, OfCorrection
<1>3. /\ Document(r) = dte_documents[d] /\ c \in Corrections /\ c \in Ids
      /\ fiscal_corrections[c].kind # "NONE" /\ fiscal_corrections[c].document = d
  BY <1>1, <1>2, OfCorrection, Names DEF Document, Correction
<1>4. UNCHANGED <<fiscal_corrections, codigo_generacion, otherVars, messages, mhVars>>
  BY DEF ClaimDocument
<1>5. Moves(r) /\ GoesOn(r)
  <2>1. Goto(r, "mark") \/ Goto(r, "finish")
    BY DEF ClaimDocument
  <2> QED BY <1>1, <2>1, Plain, GotoPlain
<1>6. CASE enabled
  <2> DEFINE row == claimDocumentTransmission(dte_documents[d], c)
  <2>1. dte_documents' = [dte_documents EXCEPT ![d] = row]
    BY <1>2, <1>3, <1>6 DEF ClaimDocument, SetDocument
  <2>2. ~isTerminalDteStatus(run[r].expected)
    BY <1>1 DEF IInv, RunsKnow, Knows
  <2>3. ~isTerminalDteStatus(dte_documents[d].status) /\ dte_documents[d].op_claim = NULL
    BY <1>3, <1>6, <2>2 DEF claimDocumentTransmissionEnabled
  <2>4. /\ row \in DteRow /\ row.op_claim = c /\ ~isTerminalDteStatus(row.status)
        /\ Unsent(d) /\ codigo_generacion[d] # NULL
        /\ \A o \in Runs : run[o].document = d => run[o].pc \notin OwnerPCs
    BY <1>3, <2>3, Claimed
  <2> QED BY <1>3, <1>4, <1>5, <2>1, <2>4, UnsentWritten
<1>7. CASE ~enabled
  <2>1. UNCHANGED dte_documents
    BY <1>7 DEF ClaimDocument
  <2> QED BY <1>4, <1>5, <2>1, RowOnly, QuietStep DEF SameDocuments, docVars
<1> QED BY <1>6, <1>7

LEMMA HoldPaymentDocumentStep ==
    ASSUME IInv, NEW r \in Runs, HoldPaymentDocument(r)
    PROVE  IInv'
<1> DEFINE c       == run[r].correction
           enabled == claimWompiFiscalCorrectionDocumentEnabled(
                          Correction(r), c, run[r].token, Document(r), Event(r))
<1>1. run[r].pc = "hold" /\ run[r].pc \in CorrectionPCs
  BY Plain DEF HoldPaymentDocument, At
<1>2. PICK d \in Docs : d = run[r].document
  BY <1>1, OfCorrection
<1>3. /\ Document(r) = dte_documents[d] /\ Document(r) \in DteRow
      /\ c \in Corrections /\ c \in Ids /\ Correction(r) = fiscal_corrections[c]
      /\ fiscal_corrections[c].kind # "NONE" /\ fiscal_corrections[c].document = d
  BY <1>1, <1>2, OfCorrection, Names DEF Document, Correction
<1>4. UNCHANGED <<fiscal_corrections, codigo_generacion, otherVars, messages, mhVars>>
  BY DEF HoldPaymentDocument
<1>5. Moves(r) /\ GoesOn(r)
  <2>1. Goto(r, "transmit") \/ FailInvalid(r) \/ Goto(r, "handler")
    BY DEF HoldPaymentDocument
  <2> QED BY <1>1, <2>1, Plain, GotoPlain, FailInvalidMoves
<1>6. CASE enabled
  <2> DEFINE row == HoldDocument(dte_documents[d], c)
  <2>1. dte_documents' = [dte_documents EXCEPT ![d] = row]
    BY <1>2, <1>3, <1>6 DEF HoldPaymentDocument, SetDocument
  <2>2. /\ dte_documents[d].status \in {"PENDING", "SIGNED", "FAILED"}
        /\ dte_documents[d].op_claim = NULL \/ dte_documents[d].op_claim = c
        /\ ~fiscal_corrections[c].dispatched
    BY <1>3, <1>6 DEF claimWompiFiscalCorrectionDocumentEnabled, Held
  <2>3. ~isTerminalDteStatus(dte_documents[d].status)
    BY <2>2 DEF isTerminalDteStatus, TerminalStatus
  <2>4. Unsent(d) /\ codigo_generacion[d] # NULL
    BY <1>3, <2>2, <2>3, StillUnsent, Names
  <2>5. \A o \in Runs : run[o].document = d => run[o].pc \notin OwnerPCs
    BY <1>3, <2>2, NoOwner
  <2>6. row \in DteRow /\ row.op_claim = c /\ ~isTerminalDteStatus(row.status)
    BY <1>3, <2>3, ClaimStatements
  <2> QED BY <1>3, <1>4, <1>5, <2>1, <2>4, <2>5, <2>6, UnsentWritten
<1>7. CASE ~enabled
  <2>1. UNCHANGED dte_documents
    BY <1>7 DEF HoldPaymentDocument
  <2> QED BY <1>4, <1>5, <2>1, RowOnly, QuietStep DEF SameDocuments, docVars
<1> QED BY <1>6, <1>7

LEMMA FinalizeAcceptedStep ==
    ASSUME IInv, NEW r \in Runs, FinalizeAccepted(r)
    PROVE  IInv'
<1>1. run[r].pc = "fin" /\ run[r].pc \in CorrectionPCs
  BY Plain DEF FinalizeAccepted, At
<1>2. PICK d \in Docs : d = run[r].document
  BY <1>1, OfCorrection
<1>3. Document(r) = dte_documents[d] /\ Document(r) \in DteRow
  BY <1>1, <1>2, OfCorrection DEF Document
<1>4. UNCHANGED <<fiscal_corrections, codigo_generacion, otherVars, messages, mhVars>>
  BY DEF FinalizeAccepted
<1>5. Moves(r) /\ GoesOn(r)
  BY <1>1, Plain, GotoPlain DEF FinalizeAccepted
<1>6. PICK row \in {Document(r), markDocumentPostAcceptFinalized(Document(r))} :
         dte_documents' = [dte_documents EXCEPT ![d] = row]
  BY <1>2 DEF FinalizeAccepted, SetDocument
<1>7. row \in DteRow /\ row.status = dte_documents[d].status /\ row.op_claim = dte_documents[d].op_claim
  BY <1>3, <1>6, RowStatements
<1> QED BY <1>4, <1>5, <1>6, <1>7, RowOnly, RowKept DEF Moves

LEMMA UndoStep ==
    ASSUME IInv, NEW r \in Runs, Undo(r)
    PROVE  IInv'
<1> DEFINE c == run[r].correction
<1>1. run[r].pc = "undo" /\ run[r].pc \in CorrectionPCs /\ run[r].pc \in SendPCs
         /\ run[r].pc \in OwnerPCs
  BY Plain DEF Undo, At, SendPCs, OwnerPCs
<1>2. PICK d \in Docs : d = run[r].document
  BY <1>1, OfCorrection
<1>3. /\ Document(r) = dte_documents[d] /\ Document(r) \in DteRow /\ run[r] \in RunState
      /\ c \in Corrections /\ Works(r) /\ Knows(r)
  BY <1>1, <1>2, OfCorrection DEF Document, IInv, RunsKnow
<1>4. UNCHANGED <<fiscal_corrections, codigo_generacion, otherVars, messages, mhVars>>
  BY DEF Undo
<1>5. /\ dte_documents[d].status = "SIGNED" /\ dte_documents[d].op_claim = c
      /\ codigo_generacion[d] = run[r].codigo /\ run[r].codigo \in NewCodes
      /\ posts[run[r].codigo] = 0
  BY <1>1, <1>2, <1>3 DEF Knows, Owns
<1> DEFINE row == markDocumentFailed(Document(r))
<1>6. dte_documents' = [dte_documents EXCEPT ![d] = row]
  <2>1. markDocumentFailedEnabled(Document(r), c)
    BY <1>3, <1>5 DEF markDocumentFailedEnabled, isTerminalDteStatus, TerminalStatus
  <2>2. SetDocument(r, row)
    BY <2>1 DEF Undo
  <2> QED BY <1>2, <2>2 DEF SetDocument
<1>7. row \in DteRow /\ row.status = "FAILED" /\ row.op_claim = NULL
  BY <1>3, RowStatements
<1>8. ~isTerminalDteStatus(row.status) /\ row.op_claim \notin Corrections
  BY <1>7, Names DEF isTerminalDteStatus, TerminalStatus
<1>9. Unsent(d) /\ codigo_generacion[d] # NULL
  BY Zenon, <1>5, Names DEF Unsent
<1>10. Moves(r) /\ run'[r] = [run[r] EXCEPT !.pc = "error", !.error = "PRE_DISPATCH"]
  BY Zenon, <1>1, RaiseErrorMoves DEF Undo
<1>11. /\ run'[r].pc = "error" /\ run'[r].error = "PRE_DISPATCH"
       /\ run'[r].correction = c /\ run'[r].document = d
  BY <1>2, <1>3, <1>10 DEF RunState
<1>12. Works(r)'
  BY <1>1, <1>2, <1>3, <1>4, <1>11, PlainIsApart DEF Works
<1>13. Knows(r)'
  <2>1. fiscal_corrections'[run'[r].correction].dispatched
    BY <1>1, <1>3, <1>4, <1>11 DEF Knows, Dispatches
  <2>2. dte_documents'[run'[r].document].op_claim = NULL
    BY <1>6, <1>7, <1>11 DEF IInv, TypeOK
  <2>3. run'[r].pc \notin SendPCs \cup TxPCs \cup InvPCs
    BY <1>11 DEF SendPCs, TxPCs, InvPCs
  <2> QED BY <1>3, <1>11, <2>1, <2>2, <2>3, Names DEF Knows, SendPCs, TxPCs
<1>14. Dispatches(r)
  BY <1>1 DEF Dispatches
<1>15. \A o \in Runs \ {r} : run[o].document = d => run[o].pc \notin OwnerPCs
  BY <1>1, <1>2, OneOwner
<1> QED BY <1>4, <1>6, <1>7, <1>8, <1>9, <1>10, <1>11, <1>12, <1>13, <1>14, <1>15, UnsentWritten

LEMMA CompletedRow ==
    ASSUME NEW row \in DteRow, NEW accepted \in BOOLEAN
    PROVE  LET done == completeDocumentTransmission(row, accepted) IN
           /\ done \in DteRow /\ done.op_claim = NULL
           /\ done.status = IF accepted THEN "ACCEPTED" ELSE "REJECTED"
<1>1. CASE accepted
  BY <1>1, NullIsNoId DEF completeDocumentTransmission, WithoutOperation, DteRow, DteStatus
<1>2. CASE ~accepted
  BY <1>2, NullIsNoId DEF completeDocumentTransmission, WithoutOperation, DteRow, DteStatus
<1> QED BY <1>1, <1>2

\* The verdict is recorded by the handler that has it.
LEMMA VerdictRecorded ==
    ASSUME IInv, NEW r \in Runs, NEW d \in Docs, d = run[r].document, run[r].pc \in OwnerPCs,
           run[r].codigo = codigo_generacion[d], codigo_generacion[d] # NULL, HasVerdict(r),
           UNCHANGED <<fiscal_corrections, codigo_generacion, otherVars, messages, mhVars>>,
           dte_documents' = [dte_documents EXCEPT
              ![d] = completeDocumentTransmission(dte_documents[d], run[r].verdict = "ACCEPTED")],
           Moves(r), GoesOn(r)
    PROVE  IInv'
<1> DEFINE row == completeDocumentTransmission(dte_documents[d], run[r].verdict = "ACCEPTED")
<1>1. /\ SameTargets /\ SameMarks /\ MessagesOK' /\ EventsOK'
      /\ UNCHANGED <<codigo_generacion, mhVars>>
  BY RowOnly
<1>2. dte_documents[d] \in DteRow
  BY Typed DEF IInv
<1>3. /\ row \in DteRow /\ row.op_claim = NULL
      /\ row.status = IF run[r].verdict = "ACCEPTED" THEN "ACCEPTED" ELSE "REJECTED"
  <2>1. PICK accepted \in BOOLEAN : accepted <=> run[r].verdict = "ACCEPTED"
    <3>1. (run[r].verdict = "ACCEPTED") \in BOOLEAN
      OBVIOUS
    <3> QED BY <3>1
  <2>2. row = completeDocumentTransmission(dte_documents[d], accepted)
    BY <2>1 DEF completeDocumentTransmission
  <2> QED BY <1>2, <2>1, <2>2, CompletedRow
<1>4. row.op_claim \notin Corrections
  BY <1>3, Names
<1>5. run' \in [Runs -> RunState] /\ \A o \in Runs : Apart(o, d)
  BY OneOwner, ApartAll
<1>6. dte_documents'[d] = row
  BY DEF IInv, TypeOK
<1>7. \/ row.status = "ACCEPTED" /\ recepcion[codigo_generacion[d]] = "PROCESADO"
      \/ row.status = "REJECTED" /\ recepcion[codigo_generacion[d]] = "RECHAZADO"
  BY <1>3 DEF HasVerdict
<1>8. Truthful(d)' /\ Replaced(d)'
  <2> HIDE DEF row
  <2>1. Terminal(d)'
    BY <1>6, <1>7 DEF Terminal, isTerminalDteStatus, TerminalStatus
  <2> QED BY <1>1, <1>4, <1>6, <1>7, <2>1 DEF Truthful, Replaced, mhVars
<1> HIDE DEF row
<1>9. dte_documents' = [dte_documents EXCEPT ![d] = row]
  BY DEF row
<1> QED BY <1>1, <1>3, <1>4, <1>5, <1>8, <1>9, RowWritten

LEMMA CompleteStep ==
    ASSUME IInv, NEW r \in Runs, Complete(r) \/ TxComplete(r)
    PROVE  IInv'
<1>1. /\ run[r].pc \in OwnerPCs /\ run[r].pc \in SendPCs \cup TxPCs
      /\ run[r].pc \in {"complete", "tx_complete"}
  BY DEF Complete, TxComplete, At, SendPCs, TxPCs, OwnerPCs
<1>2. Works(r) /\ Knows(r) /\ run[r].document \in Docs /\ run[r].codigo \in NewCodes
  BY <1>1, OfSender
<1>3. PICK d \in Docs : d = run[r].document
  BY <1>2
<1>4. HasVerdict(r) /\ run[r].codigo = codigo_generacion[d] /\ codigo_generacion[d] # NULL
        /\ dte_documents[d].status = "SIGNED"
  BY <1>1, <1>2, <1>3, Names DEF Knows, Owns
<1>5. UNCHANGED <<fiscal_corrections, codigo_generacion, otherVars, messages, mhVars>>
  BY DEF Complete, TxComplete
<1>6. dte_documents' = [dte_documents EXCEPT
         ![d] = completeDocumentTransmission(dte_documents[d], run[r].verdict = "ACCEPTED")]
  <2>1. CASE Complete(r)
    <3>1. dte_documents[d].op_claim = run[r].correction
      BY <1>2, <1>3, <2>1 DEF Complete, At, Knows, Owns, SendPCs
    <3>2. completeDocumentTransmissionEnabled(Document(r), run[r].correction)
      BY <1>3, <1>4, <3>1 DEF completeDocumentTransmissionEnabled, Document
    <3> QED BY <1>3, <2>1, <3>2 DEF Complete, SetDocument, Document
  <2>2. CASE TxComplete(r)
    <3>1. dte_documents[d].op_claim = r
      BY <1>2, <1>3, <2>2 DEF TxComplete, At, Knows, Owns, TxPCs
    <3>2. completeDocumentTransmissionEnabled(Document(r), r)
      BY <1>3, <1>4, <3>1 DEF completeDocumentTransmissionEnabled, Document
    <3> QED BY <1>3, <2>2, <3>2 DEF TxComplete, SetDocument, Document
  <2> QED BY <2>1, <2>2
<1>7. Moves(r) /\ GoesOn(r)
  <2>1. CASE Complete(r)
    <3>1. run[r].pc \in CorrectionPCs
      BY <2>1, Plain DEF Complete, At
    <3>2. Goto(r, "fin") \/ Goto(r, "finish")
      BY <2>1 DEF Complete
    <3> QED BY <3>1, <3>2, Plain, GotoPlain
  <2>2. CASE TxComplete(r)
    BY <2>2, ReturnPlain DEF TxComplete
  <2> QED BY <2>1, <2>2
<1> QED BY <1>1, <1>3, <1>4, <1>5, <1>6, <1>7, VerdictRecorded

-----------------------------------------------------------------------------
(* The other transmitters and the finalizers.                              *)

LEMMA TxClaimStep ==
    ASSUME IInv, NEW r \in Runs, TxClaim(r)
    PROVE  IInv'
<1> DEFINE blocked == TransmissionBlocked(fiscal_corrections, run[r].document, NULL)
           enabled == /\ claimDocumentTransmissionEnabled(Document(r), run[r].expected, blocked)
                      /\ Codigo(r) = run[r].codigo
<1>1. run[r].pc = "tx_claim" /\ Works(r) /\ Knows(r) /\ run[r] \in RunState /\ r \in Ids
  BY Names DEF TxClaim, At, IInv, RunsKnow, TypeOK
<1>2. PICK d \in Docs : d = run[r].document
  BY <1>1 DEF Works
<1>3. Document(r) = dte_documents[d] /\ Codigo(r) = codigo_generacion[d]
  BY <1>2 DEF Document, Codigo
<1>4. UNCHANGED <<fiscal_corrections, codigo_generacion, otherVars, messages, mhVars>>
  BY DEF TxClaim
<1>5. CASE enabled
  <2> DEFINE row == claimDocumentTransmission(dte_documents[d], r)
  <2>1. dte_documents' = [dte_documents EXCEPT ![d] = row] /\ Goto(r, "tx_dispatch")
    BY <1>2, <1>3, <1>5 DEF TxClaim, SetDocument
  <2>2. ~isTerminalDteStatus(dte_documents[d].status) /\ dte_documents[d].op_claim = NULL
    BY <1>1, <1>3, <1>5 DEF Knows, claimDocumentTransmissionEnabled
  <2>3. /\ row \in DteRow /\ row.op_claim = r /\ ~isTerminalDteStatus(row.status)
        /\ row.status = "SIGNED"
        /\ Unsent(d) /\ codigo_generacion[d] \in NewCodes /\ codigo_generacion[d] # NULL
        /\ \A o \in Runs : run[o].document = d => run[o].pc \notin OwnerPCs
    BY <1>1, <2>2, Claimed
  <2>4. Moves(r) /\ run'[r] = [run[r] EXCEPT !.pc = "tx_dispatch"]
    <3>1. "tx_dispatch" \in PCs
      BY DEF PCs, OtherPCs
    <3> QED BY <2>1, <3>1, GotoMoves DEF IInv
  <2>5. run'[r].pc = "tx_dispatch" /\ run'[r].document = d /\ run'[r].codigo = codigo_generacion[d]
    BY <1>1, <1>2, <1>3, <1>5, <2>4 DEF RunState
  <2>6. Works(r)'
    BY <2>5 DEF Works, CorrectionPCs, ConsumerPCs, RebuildPCs, DispatchPCs, SettlePCs
  <2>7. ~Dispatches(r)'
    BY <2>5 DEF Dispatches, Undispatched, SendPCs
  <2>8. Knows(r)'
    <3>1. dte_documents'[d] = row
      BY <2>1 DEF IInv, TypeOK
    <3>2. Owns(r, r)'
      BY <1>4, <2>3, <2>5, <3>1 DEF Owns
    <3>3. posts'[run'[r].codigo] = 0
      BY <1>4, <2>3, <2>5 DEF Unsent, mhVars
    <3>4. run'[r].pc \notin SendPCs \cup InvPCs /\ ~Undispatched(r)'
      BY <2>5 DEF SendPCs, InvPCs, Undispatched
    <3> QED BY <2>5, <2>7, <3>2, <3>3, <3>4 DEF Knows
  <2>9. row.op_claim \notin Corrections
    BY <2>3, Names
  <2> QED BY <1>4, <2>1, <2>3, <2>4, <2>6, <2>7, <2>8, <2>9, UnsentWritten
<1>6. CASE ~enabled
  <2>1. UNCHANGED dte_documents /\ Return(r)
    BY <1>6 DEF TxClaim
  <2>2. Moves(r) /\ GoesOn(r)
    BY <2>1, ReturnPlain
  <2> QED BY <1>4, <2>1, <2>2, RowOnly, QuietStep DEF SameDocuments, docVars
<1> QED BY <1>5, <1>6

LEMMA TxTokenFailsStep ==
    ASSUME IInv, NEW r \in Runs, TxTokenFails(r)
    PROVE  IInv'
<1>1. run[r].pc = "tx_dispatch" /\ run[r].pc \in TxPCs /\ run[r].pc \in OwnerPCs
  BY DEF TxTokenFails, At, TxPCs, OwnerPCs
<1>2. Works(r) /\ Knows(r) /\ run[r].document \in Docs /\ run[r].codigo \in NewCodes
  BY <1>1, OfSender
<1>3. PICK d \in Docs : d = run[r].document
  BY <1>2
<1>4. /\ dte_documents[d].status = "SIGNED" /\ codigo_generacion[d] = run[r].codigo
      /\ posts[run[r].codigo] = 0 /\ dte_documents[d] \in DteRow
  BY <1>1, <1>2, <1>3, Typed DEF Knows, Owns, IInv
<1>5. UNCHANGED <<fiscal_corrections, codigo_generacion, otherVars, messages, mhVars>>
  BY DEF TxTokenFails
<1>6. PICK row \in {markDocumentTransmissionDeferred(dte_documents[d]), WithoutOperation(dte_documents[d])} :
         dte_documents' = [dte_documents EXCEPT ![d] = row]
  BY <1>3 DEF TxTokenFails, SetDocument, Document, releaseDocumentFiscalOperation
<1>7. row \in DteRow /\ row.status = "SIGNED" /\ row.op_claim = NULL
  BY <1>4, <1>6, RowStatements
<1>8. ~isTerminalDteStatus(row.status) /\ row.op_claim \notin Corrections
  BY <1>7, Names DEF isTerminalDteStatus, TerminalStatus
<1>9. Unsent(d) /\ codigo_generacion[d] # NULL
  BY <1>2, <1>4, Names DEF Unsent
<1>10. Moves(r) /\ GoesOn(r)
  BY ReturnPlain DEF TxTokenFails
<1>11. \A o \in Runs \ {r} : run[o].document = d => run[o].pc \notin OwnerPCs
  BY <1>1, <1>3, OneOwner
<1> QED BY <1>5, <1>6, <1>7, <1>8, <1>9, <1>10, <1>11, UnsentWritten

LEMMA SignElsewhereStep ==
    ASSUME IInv, NEW d \in Docs, SignElsewhere(d)
    PROVE  IInv'
<1>1. UNCHANGED <<fiscal_corrections, codigo_generacion, otherVars, messages, mhVars>> /\ UNCHANGED run
  BY DEF SignElsewhere
<1>2. /\ dte_documents[d] \in DteRow /\ dte_documents[d].op_claim = NULL
      /\ ~isTerminalDteStatus(dte_documents[d].status)
  BY Typed DEF IInv, SignElsewhere, updateDocumentSignedEnabled, isTerminalDteStatus, TerminalStatus
<1>3. PICK row \in {updateDocumentSigned(dte_documents[d]), markDocumentFailed(dte_documents[d])} :
         dte_documents' = [dte_documents EXCEPT ![d] = row]
  BY DEF SignElsewhere
<1>4. row \in DteRow /\ row.status \in {"SIGNED", "FAILED"} /\ row.op_claim = NULL
  BY <1>2, <1>3, RowStatements
<1>5. ~isTerminalDteStatus(row.status) /\ row.op_claim \notin Corrections
  BY <1>4, Names DEF isTerminalDteStatus, TerminalStatus
<1>6. Unsent(d) /\ codigo_generacion[d] # NULL
  BY <1>2, StillUnsent, Names
<1>7. \A o \in Runs : Apart(o, d)
  BY <1>1, <1>2, NoOwner DEF Apart
<1>8. Truthful(d)' /\ Replaced(d)'
  <2>1. dte_documents'[d] = row
    BY <1>3 DEF IInv, TypeOK
  <2> QED BY <1>1, <1>5, <1>6, <2>1, UnsentRow
<1>9. run' \in [Runs -> RunState]
  BY <1>1 DEF IInv, TypeOK
<1> QED BY <1>1, <1>3, <1>4, <1>5, <1>6, <1>7, <1>8, <1>9, RowOnly, RowWritten

LEMMA FinalizeByCronStep ==
    ASSUME IInv, NEW d \in Docs, FinalizeByCron(d)
    PROVE  IInv'
<1>1. UNCHANGED <<fiscal_corrections, codigo_generacion, otherVars, messages, mhVars>> /\ UNCHANGED run
  BY DEF FinalizeByCron
<1>2. dte_documents[d] \in DteRow
  BY Typed DEF IInv
<1> DEFINE row == markDocumentPostAcceptFinalized(dte_documents[d])
<1>3. dte_documents' = [dte_documents EXCEPT ![d] = row]
  BY DEF FinalizeByCron, IInv, TypeOK
<1>4. row \in DteRow /\ row.status = dte_documents[d].status /\ row.op_claim = dte_documents[d].op_claim
  BY <1>2, RowStatements
<1>5. run' \in [Runs -> RunState] /\ \A o \in Runs : run'[o] = run[o]
  BY <1>1 DEF IInv, TypeOK
<1> QED BY <1>1, <1>3, <1>4, <1>5, RowOnly, RowKept

-----------------------------------------------------------------------------
(* The invalidation.                                                       *)

LEMMA StartInvalidateStep ==
    ASSUME IInv, NEW r \in Runs, NEW d \in Docs, StartInvalidate(r, d)
    PROVE  IInv'
<1> DEFINE row   == createAndAttachDocumentInvalidationEvent(
                       claimDocumentInvalidation(dte_documents[d], r), r)
           state == [IdleRun EXCEPT !.pc = "inv_post", !.document = d, !.codigo = codigo_generacion[d]]
<1>1. UNCHANGED <<fiscal_corrections, codigo_generacion, otherVars, messages, mhVars>>
  BY DEF StartInvalidate
<1>2. /\ dte_documents[d] \in DteRow /\ codigo_generacion[d] \in Codes
      /\ dte_documents[d].status = "ACCEPTED" /\ dte_documents[d].op_claim = NULL /\ r \in Ids
  BY Typed, Names DEF IInv, StartInvalidate, claimDocumentInvalidationEnabled
<1>3. dte_documents' = [dte_documents EXCEPT ![d] = row]
  BY DEF StartInvalidate, IInv, TypeOK
<1>4. row \in DteRow /\ row.status = "ACCEPTED" /\ row.op_claim = r
  BY <1>2 DEF createAndAttachDocumentInvalidationEvent, claimDocumentInvalidation, DteRow
<1>5. row.op_claim \notin Corrections
  BY <1>4, Names
<1>6. state \in RunState
  <2>1. "inv_post" \in OtherPCs /\ d \in Docs \cup {NULL}
    BY DEF OtherPCs
  <2> QED BY <1>2, <2>1, IdleIsRun DEF RunState
<1>7. Moves(r) /\ run'[r] = state
  BY <1>6, BeginMoves DEF StartInvalidate
<1>8. run'[r].pc = "inv_post" /\ run'[r].document = d /\ run'[r].codigo = codigo_generacion[d]
  BY <1>7 DEF IdleRun
<1> HIDE DEF row, state
<1>9. dte_documents'[d] = row
  BY <1>3 DEF IInv, TypeOK
<1>10. Works(r)'
  BY <1>8 DEF Works, CorrectionPCs, ConsumerPCs, RebuildPCs, DispatchPCs, SettlePCs
<1>11. ~Dispatches(r)' /\ ~Undispatched(r)'
  BY <1>8 DEF Dispatches, Undispatched, SendPCs
<1>12. Knows(r)'
  <2>1. Annuls(r)'
    BY <1>1, <1>4, <1>8, <1>9 DEF Annuls
  <2>2. run'[r].pc \notin SendPCs \cup TxPCs
    BY <1>8 DEF SendPCs, TxPCs
  <2> QED BY <1>8, <1>11, <2>1, <2>2 DEF Knows
<1>13. \A o \in Runs : run[o].document = d => run[o].pc \notin OwnerPCs
  BY <1>2, NoOwner
<1>14. run' \in [Runs -> RunState] /\ \A o \in Runs : Apart(o, d)
  BY <1>7, <1>10, <1>11, <1>12, <1>13, ApartAll
<1>15. Truthful(d)' /\ Replaced(d)'
  <2>1. Truthful(d)
    BY DEF IInv, Rows
  <2>2. Terminal(d)'
    BY <1>4, <1>9 DEF Terminal, isTerminalDteStatus, TerminalStatus
  <2> QED BY <1>1, <1>2, <1>4, <1>9, <2>1, <2>2 DEF Truthful, Replaced, mhVars
<1>16. codigo_generacion[d] # NULL
  BY <1>2 DEF IInv, Places
<1> QED BY <1>1, <1>3, <1>4, <1>5, <1>14, <1>15, <1>16, RowOnly, RowWritten

-----------------------------------------------------------------------------
(* The Ministry.                                                           *)

\* A verdict or an annulment of MH is for ever.
VerdictsStay ==
    /\ annulled \subseteq annulled'
    /\ \A k \in NewCodes :
          recepcion[k] \in {"PROCESADO", "RECHAZADO"} => recepcion'[k] = recepcion[k]

LEMMA MhKnows ==
    ASSUME IInv, NEW o \in Runs, run'[o] = run[o], UNCHANGED tableVars, VerdictsStay,
           run[o].pc \in {"dispatch", "undo", "tx_dispatch"} =>
              posts'[run[o].codigo] = posts[run[o].codigo],
           run[o].pc \in {"reply", "tx_reply"} => posts'[run[o].codigo] > 0,
           Undispatched(o) /\ dte_documents[run[o].document].op_claim = run[o].correction
                /\ codigo_generacion[run[o].document] \in NewCodes =>
              posts'[codigo_generacion[run[o].document]] = 0
    PROVE  Works(o)' /\ Knows(o)' /\ Dispatches(o)' = Dispatches(o)
<1>1. Works(o) /\ Knows(o)
  BY DEF IInv, RunsKnow
<1>2. /\ Dispatches(o)' = Dispatches(o) /\ Undispatched(o)' = Undispatched(o)
  BY DEF Dispatches, Undispatched
<1>3. \A claim : Owns(o, claim)' = Owns(o, claim)
  BY DEF Owns, tableVars, docVars
<1>4. Annuls(o) => Annuls(o)'
  BY DEF Annuls, tableVars, docVars, VerdictsStay
<1>5. run[o].pc \in {"complete", "tx_complete"} => HasVerdict(o)'
  <2>1. run[o].pc \in {"complete", "tx_complete"} => HasVerdict(o) /\ run[o].codigo \in NewCodes
    BY <1>1 DEF Knows, Owns, SendPCs, TxPCs
  <2> QED BY <2>1 DEF HasVerdict, VerdictsStay
<1>6. Works(o)'
  BY <1>1 DEF Works, tableVars
<1>7. Knows(o)'
  BY <1>1, <1>2, <1>3, <1>4, <1>5 DEF Knows, tableVars, docVars
<1> QED BY <1>2, <1>6, <1>7

\* MH decides or annuls; one handler may learn of it.
LEMMA MhStep ==
    ASSUME IInv, UNCHANGED <<tableVars, messages, posts>>, VerdictsStay,
           recepcion' \in [NewCodes -> MhTruth], annulled' \subseteq Codes,
           \A k \in NewCodes : recepcion'[k] = "NONE" <=> recepcion[k] = "NONE",
           run' \in [Runs -> RunState],
           \A o \in Runs : \/ run'[o] = run[o]
                           \/ Works(o)' /\ Knows(o)' /\ ~Dispatches(o)'
    PROVE  IInv'
<1>1. TypeOK'
  BY DEF IInv, TypeOK, tableVars, docVars, otherVars
<1>2. Places'
  BY DEF IInv, Places, Placed, tableVars, docVars
<1>3. Sources'
  BY DEF IInv, Sources, tableVars, VerdictsStay
<1>4. Posts'
  BY DEF IInv, Posts, DocumentOf, tableVars, docVars, VerdictsStay
<1>5. Rows'
  <2>1. ASSUME NEW d \in Docs PROVE Truthful(d)' /\ Replaced(d)'
    <3>1. Truthful(d) /\ Replaced(d) /\ Terminal(d)' = Terminal(d)
      BY DEF IInv, Rows, Terminal, tableVars, docVars
    <3> QED BY <3>1 DEF Truthful, Replaced, tableVars, docVars, VerdictsStay
  <2> QED BY <2>1 DEF Rows
<1>6. Sent'
  BY DEF IInv, Sent, tableVars
<1>7. ASSUME NEW o \in Runs
      PROVE  /\ Works(o)' /\ Knows(o)'
             /\ Dispatches(o)' => Dispatches(o) /\ run'[o] = run[o]
  <2>1. CASE run'[o] = run[o]
    <3>1. Knows(o)
      BY DEF IInv, RunsKnow
    <3>2. /\ run[o].pc \in {"reply", "tx_reply"} => posts'[run[o].codigo] > 0
          /\ Undispatched(o) /\ dte_documents[run[o].document].op_claim = run[o].correction
                /\ codigo_generacion[run[o].document] \in NewCodes =>
              posts'[codigo_generacion[run[o].document]] = 0
      BY <3>1 DEF Knows
    <3> QED BY <2>1, <3>2, MhKnows
  <2> QED BY <1>7, <2>1
<1>8. RunsKnow' /\ OneDispatches'
  BY <1>7 DEF RunsKnow, IInv, OneDispatches
<1> QED BY <1>1, <1>2, <1>3, <1>4, <1>5, <1>6, <1>8 DEF IInv

LEMMA MhDecidesStep ==
    ASSUME IInv, NEW k \in NewCodes, NEW verdict \in {"PROCESADO", "RECHAZADO"}, MhDecides(k, verdict)
    PROVE  IInv'
<1>1. recepcion \in [NewCodes -> MhTruth] /\ annulled \subseteq Codes /\ run \in [Runs -> RunState]
  BY DEF IInv, TypeOK
<1>2. recepcion' \in [NewCodes -> MhTruth] /\ VerdictsStay
      /\ \A o \in NewCodes : recepcion'[o] = "NONE" <=> recepcion[o] = "NONE"
  BY <1>1 DEF MhDecides, MhTruth, VerdictsStay
<1> QED BY <1>1, <1>2, MhStep DEF MhDecides

LEMMA InvPostStep ==
    ASSUME IInv, NEW r \in Runs, InvPost(r)
    PROVE  IInv'
<1>1. run[r].pc = "inv_post" /\ Works(r) /\ Knows(r) /\ run[r] \in RunState
  BY DEF InvPost, At, IInv, RunsKnow, TypeOK
<1>2. run[r].document \in Docs /\ Annuls(r)
  BY <1>1 DEF Works, Knows, InvPCs
<1>3. PICK granted \in BOOLEAN, answered \in BOOLEAN :
        /\ annulled' = IF granted THEN annulled \cup {run[r].codigo} ELSE annulled
        /\ run' = [run EXCEPT ![r] =
              IF answered
                THEN [@ EXCEPT !.pc = "inv_complete",
                               !.verdict = IF granted THEN "ACCEPTED" ELSE "REJECTED"]
                ELSE IdleRun]
  BY DEF InvPost
<1>4. UNCHANGED <<tableVars, messages, posts, recepcion>>
  BY DEF InvPost
<1>5. annulled' \subseteq Codes /\ VerdictsStay /\ recepcion' \in [NewCodes -> MhTruth]
  BY <1>1, <1>3, <1>4 DEF IInv, TypeOK, VerdictsStay, RunState
<1> DEFINE verdict == IF granted THEN "ACCEPTED" ELSE "REJECTED"
           state   == IF answered THEN [run[r] EXCEPT !.pc = "inv_complete", !.verdict = verdict]
                                  ELSE IdleRun
<1>6. state \in RunState
  <2>1. CASE answered
    <3>1. verdict \in {"NONE", "ACCEPTED", "REJECTED"}
      OBVIOUS
    <3> HIDE DEF verdict
    <3> QED BY <1>1, <2>1, <3>1 DEF RunState, OtherPCs
  <2> QED BY <2>1, IdleIsRun
<1>7. Moves(r) /\ run'[r] = state
  BY <1>3, <1>6 DEF IInv, TypeOK, Moves
<1>8. Works(r)' /\ Knows(r)' /\ ~Dispatches(r)'
  <2>1. CASE answered
    <3>1. /\ run'[r].pc = "inv_complete" /\ run'[r].document = run[r].document
          /\ run'[r].codigo = run[r].codigo /\ run'[r].verdict = verdict
      BY <1>1, <1>7, <2>1 DEF RunState
    <3>2. Works(r)'
      BY <1>2, <3>1 DEF Works, CorrectionPCs, ConsumerPCs, RebuildPCs, DispatchPCs, SettlePCs
    <3>3. ~Dispatches(r)' /\ ~Undispatched(r)'
      BY <3>1 DEF Dispatches, Undispatched, SendPCs
    <3>4. Annuls(r)'
      BY <1>2, <1>3, <1>4, <3>1 DEF Annuls, tableVars, docVars
    <3>5. run'[r].pc \notin SendPCs \cup TxPCs
      BY <3>1 DEF SendPCs, TxPCs
    <3> QED BY <3>1, <3>2, <3>3, <3>4, <3>5 DEF Knows
  <2>2. CASE ~answered
    <3>1. GoesOn(r)
      BY <1>7, <2>2 DEF GoesOn
    <3>2. Works(r)'
      BY <1>7, <2>2, PlainIsApart DEF Works, IdleRun
    <3> QED BY <3>1, <3>2, GoesOnKnows
  <2> QED BY <2>1, <2>2
<1> QED BY <1>4, <1>5, <1>7, <1>8, MhStep DEF Moves

LEMMA InvCompleteStep ==
    ASSUME IInv, NEW r \in Runs, InvComplete(r)
    PROVE  IInv'
<1>1. /\ run[r].pc = "inv_complete" /\ run[r].pc \in OwnerPCs /\ Works(r) /\ Knows(r)
      /\ run[r] \in RunState
  BY DEF InvComplete, At, IInv, RunsKnow, TypeOK, OwnerPCs, InvPCs
<1>2. PICK d \in Docs : d = run[r].document
  BY <1>1 DEF Works
<1>3. Annuls(r) /\ Document(r) = dte_documents[d] /\ dte_documents[d] \in DteRow
        /\ dte_documents[d].status = "ACCEPTED" /\ codigo_generacion[d] = run[r].codigo
  BY <1>1, <1>2, Typed DEF Knows, Annuls, InvPCs, Document, IInv
<1>4. UNCHANGED <<fiscal_corrections, codigo_generacion, otherVars, messages, mhVars>>
  BY DEF InvComplete
<1>5. Moves(r) /\ GoesOn(r)
  BY ReturnPlain DEF InvComplete
<1> DEFINE enabled == completeDocumentInvalidationEnabled(Document(r), r, r, "SIGNED")
<1>6. CASE enabled
  <2> DEFINE row == completeDocumentInvalidation(dte_documents[d], run[r].verdict = "ACCEPTED")
  <2>1. dte_documents' = [dte_documents EXCEPT ![d] = row]
    BY <1>2, <1>3, <1>6 DEF InvComplete, SetDocument
  <2>2. /\ row \in DteRow /\ row.op_claim = NULL
        /\ row.status = IF run[r].verdict = "ACCEPTED" THEN "INVALIDATED" ELSE "ACCEPTED"
    BY <1>3 DEF completeDocumentInvalidation, WithoutOperation, DteRow, DteStatus
  <2> HIDE DEF row
  <2>3. dte_documents'[d] = row
    BY <2>1 DEF IInv, TypeOK
  <2>4. row.status = "INVALIDATED" => codigo_generacion[d] \in annulled
    BY <1>1, <1>3, <2>2 DEF Annuls
  <2>5. Truthful(d)' /\ Replaced(d)'
    <3>1. Truthful(d) /\ Terminal(d)'
      BY <2>2, <2>3 DEF IInv, Rows, Terminal, isTerminalDteStatus, TerminalStatus
    <3> QED BY <1>3, <1>4, <2>2, <2>3, <2>4, <3>1 DEF Truthful, Replaced, mhVars
  <2>6. row.op_claim \notin Corrections
    BY <2>2, Names
  <2>7. codigo_generacion[d] # NULL
    BY <1>3 DEF IInv, Places
  <2>8. run' \in [Runs -> RunState] /\ \A o \in Runs : Apart(o, d)
    BY <1>1, <1>2, <1>5, OneOwner, ApartAll
  <2> QED BY <1>4, <2>1, <2>2, <2>5, <2>6, <2>7, <2>8, RowOnly, RowWritten
<1>7. CASE ~enabled
  <2>1. dte_documents' = [dte_documents EXCEPT ![d] = dte_documents[d]]
    BY <1>2, <1>3, <1>7 DEF InvComplete, SetDocument
  <2>2. run' \in [Runs -> RunState] /\ \A o \in Runs : run'[o] = run[o] \/ GoesOn(o)
    BY <1>5 DEF Moves
  <2> QED BY <1>3, <1>4, <2>1, <2>2, RowOnly, RowKept
<1> QED BY <1>6, <1>7

-----------------------------------------------------------------------------
(* The end of a correction that was not sent.                              *)

LEMMA FailStep ==
    ASSUME IInv, NEW r \in Runs, Fail(r)
    PROVE  IInv'
<1> DEFINE c       == run[r].correction
           x       == Correction(r)
           payment == finalizeWompiFailureEnabled(x, c, run[r].seen, Event(r))
           after   == IF payment \/ finalizeFailedEnabled(x, run[r].seen) THEN Finalized(x, "FAILED")
                                                                         ELSE x
           row     == ReleaseFailed(after, c, run[r].seen, Document(r))
<1>1. run[r].pc \in CorrectionPCs
  BY Plain DEF Fail, At
<1>2. PICK d \in Docs : d = run[r].document
  BY <1>1, OfCorrection
<1>3. /\ c \in Corrections /\ x \in CorrectionRow /\ x.status # "NONE" /\ x.document = d
      /\ Document(r) = dte_documents[d] /\ dte_documents[d] \in DteRow /\ Event(r) \in W!WompiRow
      /\ x = fiscal_corrections[c]
  BY <1>1, <1>2, OfCorrection DEF Document, Correction
<1>4. /\ SetCorrection(r, after) /\ SetDocument(r, row)
      /\ UNCHANGED <<codigo_generacion, document_sequences, mhVars>>
      /\ Ack(r) \/ (FailThrows(r) /\ UNCHANGED messages)
  BY DEF Fail
<1>5. Keeps(x, after)
  <2>1. "FAILED" \in TERMINAL_FISCAL_CORRECTION_STATUSES
    BY DEF TERMINAL_FISCAL_CORRECTION_STATUSES
  <2> QED BY <1>3, <2>1, Statements
<1>6. SameTargets /\ SameMarks
  <2> HIDE DEF after
  <2> QED BY <1>1, <1>4, <1>5, Written
<1>7. Moves(r) /\ GoesOn(r) /\ MessagesOK'
  <2>1. FailThrows(r) => RaiseError(r, "OTHER") \/ Goto(r, "handler")
    BY DEF FailThrows
  <2> QED BY <1>1, <1>4, <1>6, <2>1, Plain, Ends
<1>8. EventsOK'
  <2>1. CASE payment
    <3>1. PICK error \in {"OTHER", "RECEPTOR"} : SetEvent(r, FailedEvent(Event(r), error))
      BY <2>1 DEF Fail
    <3>2. FailedEvent(Event(r), error) \in W!WompiRow
      BY <1>3, EventStatements
    <3> QED BY <1>2, <1>4, <3>1, <3>2, OneEvent DEF SetEvent
  <2>2. CASE ~payment
    <3>1. UNCHANGED wompi_events
      BY <2>2 DEF Fail
    <3> QED BY <1>4, <3>1 DEF EventsOK, IInv, TypeOK
  <2> QED BY <2>1, <2>2
<1>9. dte_documents' = [dte_documents EXCEPT ![d] = row]
  BY <1>2, <1>4 DEF SetDocument
<1>10. \A o \in Runs : run'[o] = run[o] \/ GoesOn(o)
  BY <1>7 DEF Moves
<1>11. CASE row = dte_documents[d]
  <2> HIDE DEF row
  <2> QED BY <1>3, <1>4, <1>6, <1>7, <1>8, <1>9, <1>10, <1>11, RowKept DEF Moves
<1>12. CASE /\ row = WithoutOperation(dte_documents[d])
            /\ dte_documents[d].op_claim = c /\ ~after.dispatched
  <2>1. row \in DteRow /\ row.op_claim = NULL /\ row.status = dte_documents[d].status
    BY <1>3, <1>12, RowStatements
  <2>2. ~fiscal_corrections[c].dispatched
    BY <1>3, <1>5, <1>12 DEF Keeps
  <2> HIDE DEF row, after, payment
  <2>3. \A o \in Runs : run[o].document = d => run[o].pc \notin OwnerPCs
    BY <1>3, <1>12, <2>2, NoOwner
  <2>4. run' \in [Runs -> RunState] /\ \A o \in Runs : Apart(o, d)
    BY <1>7, <2>3, ApartAll
  <2>5. row.op_claim \notin Corrections
    BY <2>1, Names
  <2>6. codigo_generacion[d] = NULL => row.status = "REJECTED"
    BY <2>1 DEF IInv, Places
  <2>7. dte_documents'[d] = row
    BY <1>9 DEF IInv, TypeOK
  <2>8. Truthful(d)' /\ Replaced(d)'
    <3>1. /\ Truthful(d) /\ Terminal(d)' = Terminal(d)
          /\ codigo_generacion' = codigo_generacion /\ UNCHANGED mhVars
      BY <1>4, <2>1, <2>7 DEF IInv, Rows, Terminal
    <3>2. ~(posts[codigo_generacion[d]] > 0 /\ ~Terminal(d) /\ codigo_generacion[d] \in NewCodes)
      BY <1>3, <1>12, <2>2, <3>1 DEF Truthful
    <3> QED BY <2>1, <2>5, <2>7, <3>1, <3>2 DEF Truthful, Replaced, mhVars
  <2> QED BY <1>4, <1>6, <1>7, <1>8, <1>9, <2>1, <2>4, <2>5, <2>6, <2>8, RowWritten
<1> QED BY <1>3, <1>11, <1>12 DEF ReleaseFailed

-----------------------------------------------------------------------------
(* The document is rewritten under another codigo.                         *)

LEMMA IdentityWritten ==
    ASSUME IInv, SameTargets, SameMarks, MessagesOK', EventsOK', UNCHANGED mhVars,
           NEW d \in Docs, NEW row \in DteRow, NEW k \in Codes,
           dte_documents' = [dte_documents EXCEPT ![d] = row],
           codigo_generacion' = [codigo_generacion EXCEPT ![d] = k],
           Placed(k, d), k = NULL => row.status = "REJECTED",
           row.op_claim \in Corrections =>
              /\ fiscal_corrections[row.op_claim].kind # "NONE"
              /\ fiscal_corrections[row.op_claim].document = d,
           codigo_generacion[d] \in NewCodes /\ posts[codigo_generacion[d]] > 0 =>
              recepcion[codigo_generacion[d]] = "RECHAZADO",
           Truthful(d)' /\ Replaced(d)',
           (k \in NewCodes => posts[k] = 0) \/ row.op_claim \notin Corrections,
           run' \in [Runs -> RunState], \A o \in Runs : Apart(o, d)
    PROVE  IInv'
<1>1. /\ dte_documents \in [Docs -> DteRow] /\ codigo_generacion \in [Docs -> Codes]
      /\ Places
  BY DEF IInv, TypeOK
<1>2. /\ dte_documents' \in [Docs -> DteRow] /\ dte_documents'[d] = row
      /\ codigo_generacion' \in [Docs -> Codes] /\ codigo_generacion'[d] = k
      /\ \A e \in Docs \ {d} : /\ dte_documents'[e] = dte_documents[e]
                               /\ codigo_generacion'[e] = codigo_generacion[e]
      /\ \A e : e # d => codigo_generacion'[e] = codigo_generacion[e]
  BY <1>1
<1>3. Places'
  <2>1. \A n, e : Placed(n, e)' = Placed(n, e)
    BY DEF Placed, SameTargets
  <2>2. ASSUME NEW e \in Docs
        PROVE  /\ Placed(codigo_generacion[e], e)'
               /\ codigo_generacion'[e] = NULL => dte_documents'[e].status = "REJECTED"
               /\ dte_documents'[e].op_claim \in Corrections =>
                     /\ fiscal_corrections'[dte_documents'[e].op_claim].kind # "NONE"
                     /\ fiscal_corrections'[dte_documents'[e].op_claim].document = e
    <3>1. CASE e = d
      BY <1>2, <3>1 DEF SameTargets, Placed
    <3>2. CASE e # d
      <4>1. Placed(codigo_generacion[e], e)'
        BY <1>1, <1>2, <3>2 DEF Places, Placed, SameTargets
      <4> QED BY <1>1, <1>2, <3>2, <4>1 DEF SameTargets, Places
    <3> QED BY <3>1, <3>2
  <2> QED BY <1>1, <2>1, <2>2 DEF Places, SameTargets
<1>4. Posts'
  <2>1. ASSUME NEW n \in NewCodes
        PROVE  DocumentOf(n)' = DocumentOf(n)
    BY DEF DocumentOf, SameTargets, NewCodes
  <2>2. ASSUME NEW n \in NewCodes, posts[n] > 0, codigo_generacion'[DocumentOf(n)] # n
        PROVE  recepcion[n] = "RECHAZADO"
    <3>1. CASE codigo_generacion[DocumentOf(n)] # n
      BY <2>2, <3>1 DEF IInv, Posts
    <3>2. CASE codigo_generacion[DocumentOf(n)] = n
      <4>1. DocumentOf(n) = d
        BY <1>2, <2>2, <3>2
      <4> QED BY <2>2, <3>2, <4>1
    <3> QED BY <3>1, <3>2
  <2> QED BY <2>1, <2>2 DEF IInv, Posts, SameTargets, mhVars
<1>5. Rows'
  <2>1. ASSUME NEW e \in Docs \ {d} PROVE Truthful(e)' /\ Replaced(e)'
    BY <1>2, RowsStay
  <2> QED BY <2>1 DEF Rows
<1>6. \A o \in Runs : Continues(o)
  BY <1>2, ApartContinues
<1> QED BY <1>2, <1>3, <1>4, <1>5, <1>6, RowStep

\* What the row was before may not be under way.
LEMMA Released ==
    ASSUME IInv, NEW d \in Docs,
           \/ dte_documents[d].status = "REJECTED"
           \/ /\ dte_documents[d].status = "SIGNED"
              /\ dte_documents[d].op_claim \in Corrections
              /\ ~fiscal_corrections[dte_documents[d].op_claim].dispatched
    PROVE  /\ codigo_generacion[d] \in NewCodes /\ posts[codigo_generacion[d]] > 0 =>
                 recepcion[codigo_generacion[d]] = "RECHAZADO"
           /\ \A o \in Runs : run[o].document = d => run[o].pc \notin OwnerPCs
<1>1. Truthful(d)
  BY DEF IInv, Rows
<1>2. dte_documents[d].status = "SIGNED" => ~Terminal(d)
  BY DEF Terminal, isTerminalDteStatus, TerminalStatus
<1> QED BY <1>1, <1>2, NoOwner DEF Truthful

LEMMA PrepareStep ==
    ASSUME IInv, NEW r \in Runs, Prepare(r)
    PROVE  IInv'
<1> DEFINE c       == run[r].correction
           enabled == prepareClaimedFiscalCorrectionDocumentEnabled(
                          Correction(r), c, run[r].token, Document(r))
           row     == prepareClaimedFiscalCorrectionDocument(Document(r))
<1>1. run[r].pc \in CorrectionPCs
  BY Plain DEF Prepare, At
<1>2. PICK d \in Docs : d = run[r].document
  BY <1>1, OfCorrection
<1>3. /\ c \in Corrections /\ Document(r) = dte_documents[d] /\ dte_documents[d] \in DteRow
  BY <1>1, <1>2, OfCorrection DEF Document
<1>4. UNCHANGED <<fiscal_corrections, otherVars, mhVars, messages>>
  BY DEF Prepare, Proceed, Throw
<1>5. SameTargets /\ SameMarks /\ MessagesOK' /\ EventsOK'
  BY <1>4, Untouched, SameMessages, EventsStay DEF SameEvents
<1>6. CASE enabled
  <2>1. /\ dte_documents' = [dte_documents EXCEPT ![d] = row]
        /\ codigo_generacion' = [codigo_generacion EXCEPT ![d] = c]
        /\ Goto(r, "transmit")
    BY <1>2, <1>6 DEF Prepare, SetDocument, Proceed
  <2>2. dte_documents[d].status = "REJECTED" /\ dte_documents[d].op_claim = c
    BY <1>3, <1>6 DEF prepareClaimedFiscalCorrectionDocumentEnabled, Held
  <2>3. row \in DteRow /\ row.status = "SIGNED" /\ row.op_claim = c
    BY <1>3, <2>2 DEF prepareClaimedFiscalCorrectionDocument, DteRow, DteStatus
  <2>4. /\ fiscal_corrections[c].kind = "DTE_DOCUMENT" /\ fiscal_corrections[c].document = d
        /\ posts[c] = 0
    BY <1>3, <2>2 DEF IInv, Rows, Replaced
  <2>5. c \in NewCodes /\ c \in Codes /\ c # NULL /\ Placed(c, d)
    BY <1>3, <2>4, Names DEF Placed
  <2> HIDE DEF row
  <2>6. dte_documents'[d] = row /\ codigo_generacion'[d] = c
    BY <2>1 DEF IInv, TypeOK
  <2>7. Truthful(d)' /\ Replaced(d)'
    <3>1. ~(posts'[c] > 0)
      BY <1>4, <2>4 DEF mhVars
    <3> QED BY <2>3, <2>6, <3>1 DEF Truthful, Replaced
  <2>8. Moves(r) /\ GoesOn(r)
    BY <1>1, <2>1, Plain, GotoPlain
  <2>9. run' \in [Runs -> RunState] /\ \A o \in Runs : Apart(o, d)
    BY <2>2, <2>8, Released, ApartAll
  <2> QED BY <1>4, <1>5, <2>1, <2>2, <2>3, <2>4, <2>5, <2>7, <2>9, Released, IdentityWritten
<1>7. CASE ~enabled
  <2>1. Throw(r) /\ SameDocuments
    BY <1>4, <1>7 DEF Prepare, SameDocuments
  <2> QED BY <1>1, <1>4, <1>5, <2>1, SettlesStep DEF Settles
<1> QED BY <1>6, <1>7

LEMMA RetireStep ==
    ASSUME IInv, NEW r \in Runs, Retire(r)
    PROVE  IInv'
<1> DEFINE c       == run[r].correction
           x       == Correction(r)
           enabled == retireDirectEnabled(x, c, run[r].token, Document(r), Codigo(r))
           row     == RestoredDocument(x, Document(r))
<1>1. run[r].pc \in CorrectionPCs
  BY Plain DEF Retire, At
<1>2. PICK d \in Docs : d = run[r].document
  BY <1>1, OfCorrection
<1>3. /\ c \in Corrections /\ x \in CorrectionRow /\ x.kind # "NONE" /\ x.status # "NONE"
      /\ x.document = d /\ x = fiscal_corrections[c]
      /\ Document(r) = dte_documents[d] /\ dte_documents[d] \in DteRow
  BY <1>1, <1>2, OfCorrection DEF Document, Correction
<1>4. UNCHANGED <<otherVars, mhVars>> /\ EventsOK'
  BY EventsStay DEF Retire, SameEvents
<1>5. Ack(r) \/ Throw(r)
  BY DEF Retire
<1>6. CASE enabled
  <2>1. /\ SetCorrection(r, Finalized(x, "FAILED"))
        /\ dte_documents' = [dte_documents EXCEPT ![d] = row]
        /\ codigo_generacion' = [codigo_generacion EXCEPT ![d] = x.source.codigo]
    BY <1>2, <1>6 DEF Retire, SetDocument
  <2>2. SameTargets /\ SameMarks
    <3>1. "FAILED" \in TERMINAL_FISCAL_CORRECTION_STATUSES
      BY DEF TERMINAL_FISCAL_CORRECTION_STATUSES
    <3> QED BY <1>1, <1>3, <2>1, <3>1, Statements, Written
  <2>3. Moves(r) /\ GoesOn(r) /\ MessagesOK'
    BY <1>1, <1>5, <2>2, Ends
  <2>4. /\ dte_documents[d].op_claim = c /\ ~fiscal_corrections[c].dispatched
        /\ dte_documents[d].status \in {"REJECTED", "SIGNED"}
    BY <1>3, <1>6 DEF retireDirectEnabled, Held
  <2>5. row \in DteRow /\ row.status = "REJECTED" /\ row.op_claim = NULL
    BY <1>3, NullIsNoId DEF RestoredDocument, WithoutOperation, DteRow, DteStatus, CorrectionRow
  <2>6. /\ x.source.codigo \in Codes /\ Placed(x.source.codigo, d)
        /\ x.source.codigo \in NewCodes => recepcion[x.source.codigo] = "RECHAZADO"
    BY <1>3 DEF IInv, Places, Sources, CorrectionRow
  <2> HIDE DEF row
  <2>7. dte_documents'[d] = row /\ codigo_generacion'[d] = x.source.codigo
    BY <2>1 DEF IInv, TypeOK
  <2>8. row.op_claim \notin Corrections
    BY <2>5, Names
  <2>9. Truthful(d)' /\ Replaced(d)'
    <3>1. Terminal(d)'
      BY <2>5, <2>7 DEF Terminal, isTerminalDteStatus, TerminalStatus
    <3> QED BY <1>4, <2>5, <2>6, <2>7, <2>8, <3>1 DEF Truthful, Replaced, mhVars
  <2>10. /\ codigo_generacion[d] \in NewCodes /\ posts[codigo_generacion[d]] > 0 =>
              recepcion[codigo_generacion[d]] = "RECHAZADO"
         /\ \A o \in Runs : run[o].document = d => run[o].pc \notin OwnerPCs
    BY <1>3, <2>4, Released
  <2>11. run' \in [Runs -> RunState] /\ \A o \in Runs : Apart(o, d)
    BY <2>3, <2>10, ApartAll
  <2> QED BY <1>4, <2>1, <2>2, <2>3, <2>5, <2>6, <2>8, <2>9, <2>10, <2>11, IdentityWritten
<1>7. CASE ~enabled
  <2>1. UNCHANGED fiscal_corrections /\ SameDocuments
    BY <1>4, <1>7 DEF Retire, SameDocuments
  <2> QED BY <1>1, <1>4, <1>5, <2>1, SettlesStep DEF Settles
<1> QED BY <1>6, <1>7

-----------------------------------------------------------------------------
(* The operator's request.                                                 *)

\* Nothing refers to a correction that has not been inserted.
LEMMA Unborn ==
    ASSUME IInv, NEW c \in Corrections, fiscal_corrections[c] = NoCorrection
    PROVE  /\ fiscal_corrections[c].kind = "NONE" /\ posts[c] = 0
           /\ \A d \in Docs : dte_documents[d].op_claim # c /\ codigo_generacion[d] # c
           /\ \A o \in Runs : run[o].pc \in CorrectionPCs => run[o].correction # c
           /\ \A t \in Tokens : messages[t].at # "none" => messages[t].correction # c
           /\ \A k : \A d \in Docs : Placed(k, d) => k # c
<1>1. fiscal_corrections[c].kind = "NONE" /\ c \in NewCodes
  BY Names DEF NoCorrection
<1>2. posts[c] = 0
  BY <1>1 DEF IInv, Posts, TypeOK
<1>3. \A k : \A d \in Docs : Placed(k, d) => k # c
  BY <1>1 DEF Placed
<1>4. \A d \in Docs : dte_documents[d].op_claim # c /\ codigo_generacion[d] # c
  BY <1>1, <1>3 DEF IInv, Places
<1>5. \A o \in Runs : run[o].pc \in CorrectionPCs => run[o].correction # c
  BY <1>1 DEF IInv, RunsKnow, Works
<1>6. \A t \in Tokens : messages[t].at # "none" => messages[t].correction # c
  BY <1>1 DEF IInv, Sent
<1> QED BY <1>1, <1>2, <1>3, <1>4, <1>5, <1>6

LEMMA Requested ==
    ASSUME IInv, NEW r \in Runs, NEW c \in Corrections, NEW d \in Docs, NEW t \in Tokens,
           NEW y \in CorrectionRow, NEW row \in DteRow,
           fiscal_corrections[c] = NoCorrection,
           fiscal_corrections' = [fiscal_corrections EXCEPT ![c] = y],
           y.status = "QUEUED", y.kind \in {"DTE_DOCUMENT", "WOMPI_EVENT"}, y.document = d,
           Placed(y.source.codigo, d),
           y.source.codigo \in NewCodes => recepcion[y.source.codigo] = "RECHAZADO",
           dte_documents' = [dte_documents EXCEPT ![d] = row],
           row.status = dte_documents[d].status,
           \/ row.op_claim = dte_documents[d].op_claim
           \/ /\ row.op_claim = c
              /\ dte_documents[d].op_claim = NULL /\ dte_documents[d].status = "REJECTED"
              /\ y.kind = "DTE_DOCUMENT" /\ y.source.codigo = codigo_generacion[d],
           UNCHANGED <<codigo_generacion, messages, mhVars>>, EventsOK',
           Begin(r, [IdleRun EXCEPT !.pc = "send", !.correction = c, !.document = d, !.token = t])
    PROVE  IInv'
<1> DEFINE state == [IdleRun EXCEPT !.pc = "send", !.correction = c, !.document = d, !.token = t]
<1>1. /\ fiscal_corrections \in [Corrections -> CorrectionRow] /\ dte_documents \in [Docs -> DteRow]
      /\ codigo_generacion \in [Docs -> Codes] /\ Places /\ Sources /\ Posts /\ Rows /\ Sent
  BY DEF IInv, TypeOK
<1>2. /\ fiscal_corrections' \in [Corrections -> CorrectionRow] /\ fiscal_corrections'[c] = y
      /\ \A o \in Corrections \ {c} : fiscal_corrections'[o] = fiscal_corrections[o]
      /\ \A k : k # c => fiscal_corrections'[k] = fiscal_corrections[k]
      /\ dte_documents' \in [Docs -> DteRow] /\ dte_documents'[d] = row
      /\ \A e \in Docs \ {d} : dte_documents'[e] = dte_documents[e]
      /\ \A e : e # d => dte_documents'[e] = dte_documents[e]
  BY <1>1
<1>3. state \in RunState
  BY IdleIsRun DEF RunState, IdleRun, OtherPCs
<1>4. Moves(r) /\ run'[r] = state
  BY <1>3, BeginMoves
<1>5. run'[r].pc = "send" /\ run'[r].correction = c /\ run'[r].document = d
  BY <1>4 DEF IdleRun
<1> HIDE DEF state
<1>6. TypeOK'
  BY <1>2, <1>4 DEF IInv, TypeOK, Moves, mhVars, EventsOK
<1>7. \A k : \A e \in Docs : Placed(k, e) => Placed(k, e)'
  BY <1>2, Unborn DEF Placed
<1>8. Places'
  <2>1. ASSUME NEW e \in Docs
        PROVE  /\ Placed(codigo_generacion[e], e)'
               /\ codigo_generacion'[e] = NULL => dte_documents'[e].status = "REJECTED"
               /\ dte_documents'[e].op_claim \in Corrections =>
                     /\ fiscal_corrections'[dte_documents'[e].op_claim].kind # "NONE"
                     /\ fiscal_corrections'[dte_documents'[e].op_claim].document = e
    <3>1. Placed(codigo_generacion[e], e)'
      BY <1>1, <1>7 DEF Places, Placed
    <3>2. CASE dte_documents'[e].op_claim = dte_documents[e].op_claim
      <4>1. /\ dte_documents[e].op_claim # c
            /\ dte_documents'[e].status = dte_documents[e].status
        BY <1>2, Unborn
      <4> QED BY <1>1, <1>2, <3>1, <3>2, <4>1 DEF Places
    <3>3. CASE e = d /\ row.op_claim = c
      BY <1>1, <1>2, <3>1, <3>3 DEF Places
    <3> QED BY <1>2, <3>2, <3>3
  <2>2. ASSUME NEW o \in Corrections
        PROVE  (LET x == fiscal_corrections[o] IN
                /\ x.kind = "NONE" <=> x.status = "NONE"
                /\ x.kind # "NONE" => /\ x.document \in Docs
                                      /\ x.source.codigo # o
                                      /\ Placed(x.source.codigo, x.document))'
    <3>1. CASE o = c
      <4>1. Placed(y.source.codigo, d)' /\ y.source.codigo # c
        BY <1>7, Unborn
      <4>2. /\ fiscal_corrections'[o] = y /\ y.document \in Docs
            /\ y.kind # "NONE" /\ y.status # "NONE"
        BY <1>2, <3>1
      <4> QED BY <3>1, <4>1, <4>2 DEF Placed
    <3>2. CASE o # c
      <4>1. fiscal_corrections'[o] = fiscal_corrections[o]
        BY <1>2, <3>2
      <4>2. /\ fiscal_corrections[o].kind = "NONE" <=> fiscal_corrections[o].status = "NONE"
            /\ fiscal_corrections[o].kind # "NONE" =>
                 /\ fiscal_corrections[o].document \in Docs
                 /\ fiscal_corrections[o].source.codigo # o
                 /\ Placed(fiscal_corrections[o].source.codigo, fiscal_corrections[o].document)
        BY <1>1 DEF Places
      <4>3. ASSUME NEW e \in Docs, NEW k \in Codes, Placed(k, e)
            PROVE  Placed(k, e)'
        BY <1>7, <4>3
      <4>4. fiscal_corrections[o].source.codigo \in Codes
        BY <1>1 DEF CorrectionRow
      <4> QED BY <4>1, <4>2, <4>3, <4>4 DEF Placed
    <3> QED BY <3>1, <3>2
  <2> QED BY <2>1, <2>2 DEF Places
<1>9. Sources'
  BY <1>1, <1>2 DEF Sources, mhVars
<1>10. Posts'
  <2>1. \A k \in NewCodes : k # c => DocumentOf(k)' = DocumentOf(k)
    BY <1>2 DEF DocumentOf
  <2>2. posts[c] = 0
    BY Unborn
  <2> QED BY <1>1, <1>2, <2>1, <2>2 DEF Posts, mhVars
<1>11. Rows'
  <2>1. ASSUME NEW e \in Docs
        PROVE  Truthful(e)' /\ Replaced(e)'
    <3>1. Truthful(e) /\ Replaced(e) /\ dte_documents[e].op_claim # c
      BY <1>1, Unborn DEF Rows
    <3>2. dte_documents'[e].status = dte_documents[e].status /\ Terminal(e)' = Terminal(e)
      BY <1>2 DEF Terminal
    <3>3. CASE dte_documents'[e].op_claim = dte_documents[e].op_claim
      <4>1. dte_documents[e].op_claim \in Corrections =>
              fiscal_corrections'[dte_documents[e].op_claim] = fiscal_corrections[dte_documents[e].op_claim]
        BY <1>2, <3>1
      <4> QED BY <3>1, <3>2, <3>3, <4>1 DEF Truthful, Replaced, mhVars
    <3>4. CASE e = d /\ row.op_claim = c /\ row.op_claim # dte_documents[d].op_claim
      <4>1. /\ dte_documents[d].status = "REJECTED" /\ Terminal(d)
            /\ y.kind = "DTE_DOCUMENT" /\ y.source.codigo = codigo_generacion[d]
        BY <3>4 DEF Terminal, isTerminalDteStatus, TerminalStatus
      <4>2. posts'[c] = 0
        BY Unborn DEF mhVars
      <4> QED BY <1>2, <3>1, <3>2, <3>4, <4>1, <4>2 DEF Truthful, Replaced, mhVars
    <3> QED BY <1>2, <3>3, <3>4
  <2> QED BY <2>1 DEF Rows
<1>12. Sent'
  BY <1>1, <1>2, Unborn DEF Sent
<1>13. RunsKnow'
  <2>1. Works(r)'
    BY <1>2, <1>5 DEF Works
  <2>2. Knows(r)'
    BY <1>5, Plain, PlainKnows
  <2>3. ASSUME NEW o \in Runs \ {r}
        PROVE  Works(o)' /\ Knows(o)'
    <3>1. run'[o] = run[o] /\ Works(o) /\ Knows(o)
      BY <1>4 DEF Moves, IInv, RunsKnow
    <3>2. run[o].pc \in CorrectionPCs => run[o].correction # c
      BY Unborn
    <3>3. Works(o)'
      BY <1>2, <3>1, <3>2 DEF Works
    <3>4. Dispatches(o) \/ Undispatched(o) => run[o].pc \in CorrectionPCs
      BY PlainIsApart DEF Dispatches, Undispatched
    <3>5. Dispatches(o) => fiscal_corrections'[run[o].correction].dispatched
      BY <1>2, <3>1, <3>2, <3>4 DEF Knows
    <3>6. Unshaken(o)
      <4>1. CASE \/ run[o].document # d
                 \/ row.op_claim = dte_documents[d].op_claim
        <5>1. /\ dte_documents'[run[o].document].status = dte_documents[run[o].document].status
              /\ dte_documents'[run[o].document].op_claim = dte_documents[run[o].document].op_claim
          BY <1>2, <4>1
        <5> QED BY <5>1 DEF Unshaken
      <4>2. CASE run[o].document = d /\ row.op_claim = c /\ dte_documents[d].op_claim = NULL
        <5>1. run[o].pc \notin OwnerPCs
          BY <4>2, NoOwner
        <5> QED BY <1>2, <3>2, <3>4, <4>2, <5>1 DEF Unshaken
      <4> QED BY <4>1, <4>2
    <3> QED BY <3>1, <3>3, <3>5, <3>6, KnowsStays
  <2> QED BY <2>1, <2>2, <2>3 DEF RunsKnow
<1>14. OneDispatches'
  <2>1. ~Dispatches(r)'
    BY <1>5, Plain, PlainKnows
  <2> QED BY <1>4, <2>1, OneDispatchesStays
<1> QED BY <1>6, <1>8, <1>9, <1>10, <1>11, <1>12, <1>13, <1>14 DEF IInv

LEMMA RequestCorrectionStep ==
    ASSUME IInv, NEW r \in Runs, NEW c \in Corrections, NEW d \in Docs, NEW t \in Tokens,
           RequestCorrection(r, c, d, t)
    PROVE  IInv'
<1> DEFINE y   == claimDocumentFiscalCorrection(dte_documents[d], d, t, codigo_generacion[d])
           row == HoldDocument(dte_documents[d], c)
<1>1. /\ dte_documents[d] \in DteRow /\ codigo_generacion[d] \in Codes
      /\ dte_documents[d].status = "REJECTED" /\ dte_documents[d].op_claim = NULL
  BY Typed DEF IInv, RequestCorrection, claimDocumentFiscalCorrectionEnabled
<1>2. y \in CorrectionRow
  BY <1>1 DEF claimDocumentFiscalCorrection, CorrectionRow, OpenStatus, DteRow
<1>3. /\ y.status = "QUEUED" /\ y.kind = "DTE_DOCUMENT" /\ y.document = d
      /\ y.source.codigo = codigo_generacion[d]
  BY DEF claimDocumentFiscalCorrection
<1>4. row \in DteRow /\ row.status = dte_documents[d].status /\ row.op_claim = c
  BY <1>1, Names, ClaimStatements
<1>5. /\ Placed(y.source.codigo, d)
      /\ y.source.codigo \in NewCodes => recepcion[y.source.codigo] = "RECHAZADO"
  <2> HIDE DEF y
  <2> QED BY <1>1, <1>3 DEF IInv, Places, Placed, Rows, Truthful
<1>6. /\ fiscal_corrections[c] = NoCorrection
      /\ fiscal_corrections' = [fiscal_corrections EXCEPT ![c] = y]
      /\ dte_documents' = [dte_documents EXCEPT ![d] = row]
      /\ Begin(r, [IdleRun EXCEPT !.pc = "send", !.correction = c, !.document = d, !.token = t])
      /\ UNCHANGED <<codigo_generacion, otherVars, messages, mhVars>>
  BY DEF RequestCorrection, IInv, TypeOK
<1>7. EventsOK'
  BY <1>6, EventsStay DEF SameEvents
<1> HIDE DEF y, row
<1> QED BY <1>1, <1>2, <1>3, <1>4, <1>5, <1>6, <1>7, Requested

LEMMA RequestPaymentStep ==
    ASSUME IInv, NEW r \in Runs, NEW c \in Corrections, NEW d \in Docs, NEW t \in Tokens,
           RequestPayment(r, c, d, t)
    PROVE  IInv'
<1> DEFINE y == claimWompiFiscalCorrection(d, t)
<1>1. dte_documents[d] \in DteRow /\ wompi_events[d] \in W!WompiRow
  BY Typed DEF IInv
<1>2. y \in CorrectionRow
  BY DEF claimWompiFiscalCorrection, NoCorrection, CorrectionRow, OpenStatus, Codes
<1>3. /\ y.status = "QUEUED" /\ y.kind = "WOMPI_EVENT" /\ y.document = d
      /\ y.source.codigo = NULL
  BY DEF claimWompiFiscalCorrection, NoCorrection
<1>4. NULL \notin NewCodes /\ Placed(NULL, d)
  BY Names DEF Placed
<1>5. /\ fiscal_corrections[c] = NoCorrection
      /\ fiscal_corrections' = [fiscal_corrections EXCEPT ![c] = y]
      /\ dte_documents' = [dte_documents EXCEPT ![d] = dte_documents[d]]
      /\ Begin(r, [IdleRun EXCEPT !.pc = "send", !.correction = c, !.document = d, !.token = t])
      /\ UNCHANGED <<codigo_generacion, document_sequences, messages, mhVars>>
  BY DEF RequestPayment, IInv, TypeOK, docVars
<1>6. EventsOK'
  <2>1. QueueCorrection(wompi_events[d], c) \in W!WompiRow
    BY <1>1, EventStatements DEF QueueCorrection
  <2> QED BY <1>5, <2>1, OneEvent DEF RequestPayment
<1> HIDE DEF y
<1> QED BY <1>1, <1>2, <1>3, <1>4, <1>5, <1>6, Requested

-----------------------------------------------------------------------------
(* The POST.                                                               *)

LEMMA OnePlace ==
    ASSUME IInv, NEW d \in Docs, codigo_generacion[d] \in NewCodes
    PROVE  /\ DocumentOf(codigo_generacion[d]) = d
           /\ codigo_generacion[d] \in Corrections =>
                 /\ fiscal_corrections[codigo_generacion[d]].kind = "DTE_DOCUMENT"
                 /\ fiscal_corrections[codigo_generacion[d]].document = d
  BY DEF IInv, Places, Placed, DocumentOf, NewCodes

LEMMA PostStep ==
    ASSUME IInv, NEW r \in Runs, Post(r) \/ TxPost(r)
    PROVE  IInv'
<1>1. /\ run[r].pc \in SendPCs \cup TxPCs /\ run[r].pc \in OwnerPCs
      /\ run[r].pc \in {"dispatch", "tx_dispatch"}
  BY DEF Post, TxPost, At, SendPCs, TxPCs, OwnerPCs
<1>2. /\ Works(r) /\ Knows(r) /\ run[r].document \in Docs /\ run[r].codigo \in NewCodes
      /\ run[r] \in RunState
  BY <1>1, OfSender
<1>3. PICK d \in Docs : d = run[r].document
  BY <1>2
<1>4. PICK k \in NewCodes : k = run[r].codigo
  BY <1>2
<1>5. PICK claim \in Ids : claim = IF run[r].pc = "dispatch" THEN run[r].correction ELSE r
  <2>1. run[r].pc = "dispatch" => run[r].correction \in Corrections
    BY <1>2, Plain DEF Works
  <2> QED BY <2>1, Names
<1>6. PICK pc \in {"reply", "tx_reply"} : pc = IF run[r].pc = "dispatch" THEN "reply" ELSE "tx_reply"
  OBVIOUS
<1>7. /\ dte_documents[d].status = "SIGNED" /\ dte_documents[d].op_claim = claim
      /\ codigo_generacion[d] = k /\ posts[k] = 0 /\ recepcion[k] = "NONE"
  <2>1. Owns(r, claim) /\ posts[k] = 0
    BY <1>1, <1>2, <1>4, <1>5 DEF Knows, SendPCs, TxPCs
  <2> QED BY <1>2, <1>3, <1>4, <2>1 DEF Owns, IInv, Posts
<1>8. /\ claim # NULL
      /\ claim \in Corrections => fiscal_corrections[claim].dispatched
      /\ pc = "reply" => Dispatches(r) /\ claim = run[r].correction /\ claim \in Corrections
      /\ pc = "tx_reply" => claim = r /\ claim \notin Corrections
  <2>1. CASE pc = "reply"
    <3>1. run[r].pc = "dispatch"
      BY <1>6, <2>1
    <3>2. run[r].pc \in CorrectionPCs /\ run[r].pc \in SendPCs
      BY <3>1, Plain DEF SendPCs
    <3> QED BY <1>2, <1>5, <2>1, <3>1, <3>2, Names DEF Works, Knows, Dispatches
  <2>2. CASE pc = "tx_reply"
    BY <1>5, <1>6, <2>2, Names
  <2> QED BY <2>1, <2>2
<1>9. /\ posts' = [posts EXCEPT ![k] = @ + 1]
      /\ recepcion' = [recepcion EXCEPT ![k] = IF @ = "NONE" THEN "IN_FLIGHT" ELSE @]
      /\ Goto(r, pc) /\ UNCHANGED <<tableVars, messages, annulled>>
  BY <1>4, <1>6 DEF Post, TxPost, Submit, At
<1>10. /\ posts' \in [NewCodes -> Nat] /\ posts'[k] = 1
      /\ recepcion' \in [NewCodes -> MhTruth] /\ recepcion'[k] = "IN_FLIGHT"
      /\ \A n \in NewCodes \ {k} : posts'[n] = posts[n] /\ recepcion'[n] = recepcion[n]
  BY <1>2, <1>7, <1>9 DEF IInv, TypeOK, MhTruth
<1>11. Moves(r) /\ run'[r] = [run[r] EXCEPT !.pc = pc]
  <2>1. pc \in PCs
    BY DEF PCs, ConsumerPCs, OtherPCs, DispatchPCs
  <2> QED BY <1>9, <2>1, GotoMoves DEF IInv
<1>12. /\ run'[r].pc = pc /\ run'[r].codigo = k /\ run'[r].document = d
      /\ run'[r].correction = run[r].correction
  BY <1>2, <1>3, <1>11, <1>4 DEF RunState
<1>13. /\ DocumentOf(k) = d
       /\ k \in Corrections => /\ fiscal_corrections[k].kind = "DTE_DOCUMENT"
                               /\ fiscal_corrections[k].document = d
       /\ \A e \in Docs : codigo_generacion[e] = k => e = d
  BY <1>7, OnePlace
<1>14. TypeOK'
  BY <1>9, <1>10, <1>11 DEF IInv, TypeOK, tableVars, docVars, otherVars, Moves
<1>15. Places' /\ Sent'
  BY <1>9 DEF IInv, Places, Placed, Sent, tableVars, docVars
<1>16. Sources'
  BY <1>7, <1>9, <1>10 DEF IInv, Sources, tableVars
<1>17. Posts'
  <2>1. ASSUME NEW n \in NewCodes
        PROVE  DocumentOf(n)' = DocumentOf(n)
    BY <1>9 DEF DocumentOf, tableVars
  <2>2. Posts /\ posts \in [NewCodes -> Nat]
    BY DEF IInv, TypeOK
  <2> QED BY <1>7, <1>9, <1>10, <1>13, <2>1, <2>2 DEF Posts, tableVars, docVars
<1>18. Rows'
  <2>1. ASSUME NEW e \in Docs
        PROVE  Truthful(e)' /\ Replaced(e)'
    <3>1. Truthful(e) /\ Replaced(e) /\ Terminal(e)' = Terminal(e)
      BY <1>9 DEF IInv, Rows, Terminal, tableVars, docVars
    <3>2. CASE e = d
      <4>1. ~Terminal(d)
        BY <1>7 DEF Terminal, isTerminalDteStatus, TerminalStatus
      <4> QED BY <1>7, <1>8, <1>9, <3>1, <3>2, <4>1 DEF Truthful, Replaced, tableVars, docVars
    <3>3. CASE e # d
      <4>1. codigo_generacion[e] # k
        BY <1>13, <3>3
      <4>2. Truthful(e)'
        BY <1>9, <1>10, <3>1, <4>1 DEF Truthful, tableVars, docVars
      <4>3. dte_documents[e].status = "REJECTED" /\ dte_documents[e].op_claim \in Corrections =>
              dte_documents[e].op_claim # k
        BY <1>13, <3>1, <3>3 DEF Replaced
      <4>4. Replaced(e)'
        BY <1>9, <1>10, <3>1, <4>3, Names DEF Replaced, tableVars, docVars
      <4> QED BY <4>2, <4>4
    <3> QED BY <3>2, <3>3
  <2> QED BY <2>1 DEF Rows
<1>19. Works(r)'
  <2>1. pc = "reply" => run[r].pc \in CorrectionPCs
    BY <1>6, Plain
  <2>2. pc = "tx_reply" => pc \notin CorrectionPCs
    BY DEF CorrectionPCs, ConsumerPCs, RebuildPCs, DispatchPCs, SettlePCs
  <2> QED BY <1>2, <1>3, <1>9, <1>12, <2>1, <2>2 DEF Works, tableVars
<1>20. Knows(r)' /\ (Dispatches(r)' => Dispatches(r))
  <2>1. Owns(r, claim)'
    BY <1>7, <1>9, <1>12 DEF Owns, tableVars, docVars
  <2>2. posts'[run'[r].codigo] > 0
    BY <1>10, <1>12
  <2>3. CASE pc = "reply"
    <3>1. run'[r].pc = "reply" /\ ~Undispatched(r)'
      BY <1>12, <2>3 DEF Undispatched
    <3>2. "reply" \notin TxPCs \cup InvPCs
      BY DEF TxPCs, InvPCs
    <3>3. fiscal_corrections'[run'[r].correction].dispatched
      BY <1>8, <1>9, <1>12, <2>3 DEF tableVars
    <3> QED BY <1>8, <1>12, <2>1, <2>2, <2>3, <3>1, <3>2, <3>3 DEF Knows
  <2>4. CASE pc = "tx_reply"
    <3>1. run'[r].pc = "tx_reply" /\ ~Undispatched(r)' /\ ~Dispatches(r)'
      BY <1>12, <2>4 DEF Undispatched, Dispatches, SendPCs
    <3>2. "tx_reply" \notin SendPCs \cup InvPCs
      BY DEF SendPCs, InvPCs
    <3> QED BY <1>8, <2>1, <2>2, <2>4, <3>1, <3>2 DEF Knows
  <2> QED BY <2>3, <2>4
<1>21. ASSUME NEW o \in Runs \ {r}
       PROVE  Works(o)' /\ Knows(o)'
  <2>1. run'[o] = run[o] /\ Works(o) /\ Knows(o)
    BY <1>11 DEF Moves, IInv, RunsKnow
  <2>2. VerdictsStay
    BY <1>7, <1>9, <1>10 DEF VerdictsStay
  <2>3. run[o].pc \in SendPCs \cup TxPCs => run[o].codigo \in NewCodes /\ run[o].codigo # k
    <3>1. SUFFICES ASSUME run[o].pc \in SendPCs \cup TxPCs
                   PROVE  run[o].codigo \in NewCodes /\ run[o].codigo # k
      OBVIOUS
    <3>2. run[o].document \in Docs /\ run[o].codigo \in NewCodes /\ run[o].pc \in OwnerPCs
      BY <3>1, OfSender DEF OwnerPCs
    <3>3. codigo_generacion[run[o].document] = run[o].codigo
      BY <2>1, <3>1 DEF Knows, Owns
    <3> QED BY <1>1, <1>3, <1>13, <3>2, <3>3, OneOwner
  <2>4. run[o].pc \in {"dispatch", "undo", "tx_dispatch"} =>
           posts'[run[o].codigo] = posts[run[o].codigo]
    BY <1>10, <2>3 DEF SendPCs, TxPCs
  <2>5. run[o].pc \in {"reply", "tx_reply"} => posts'[run[o].codigo] > 0
    BY <1>10, <2>1, <2>3 DEF Knows, SendPCs, TxPCs
  <2>6. Undispatched(o) /\ dte_documents[run[o].document].op_claim = run[o].correction
             /\ codigo_generacion[run[o].document] \in NewCodes =>
           posts'[codigo_generacion[run[o].document]] = 0
    <3>1. SUFFICES ASSUME Undispatched(o), codigo_generacion[run[o].document] \in NewCodes,
                          dte_documents[run[o].document].op_claim = run[o].correction
                   PROVE  posts'[codigo_generacion[run[o].document]] = 0
      OBVIOUS
    <3>2. /\ run[o].pc \in CorrectionPCs /\ run[o].document \in Docs
          /\ run[o].correction \in Corrections /\ Dispatches(o)
      BY <2>1, <3>1, PlainIsApart DEF Undispatched, Dispatches, Works
    <3>3. run[o].document # d
      <4>1. SUFFICES ASSUME run[o].document = d PROVE FALSE
        OBVIOUS
      <4>2. claim \in Corrections /\ claim = run[o].correction
        BY <1>7, <3>1, <3>2, <4>1
      <4>3. Dispatches(r) /\ run[r].correction = run[o].correction
        BY <1>8, <4>2
      <4> QED BY <3>2, <4>3 DEF IInv, OneDispatches
    <3>4. posts[codigo_generacion[run[o].document]] = 0
      BY <2>1, <3>1 DEF Knows
    <3> QED BY <1>10, <1>13, <3>1, <3>2, <3>3, <3>4
  <2> QED BY <1>9, <2>1, <2>2, <2>4, <2>5, <2>6, MhKnows
<1>22. RunsKnow' /\ OneDispatches'
  BY <1>11, <1>12, <1>19, <1>20, <1>21, OneDispatchesStays DEF RunsKnow
<1> QED BY <1>14, <1>15, <1>16, <1>17, <1>18, <1>22 DEF IInv

-----------------------------------------------------------------------------
(* The invariant holds.                                                    *)

LEMMA InitInv == Init => IInv
<1> SUFFICES ASSUME Init PROVE IInv
  OBVIOUS
<1>1. PICK kind \in [Docs -> Kinds] :
         /\ dte_documents = [d \in Docs |-> IF kind[d] = "PAYMENT" THEN createDteDocument
                                                                   ELSE RejectedDocument(d)]
         /\ codigo_generacion = [d \in Docs |-> IF kind[d] = "PAYMENT" THEN d ELSE NULL]
         /\ wompi_events = [d \in Docs |-> IF kind[d] = "PAYMENT" THEN QueuedPayment
                                                                  ELSE W!NoEvent]
  BY DEF Init
<1>2. /\ fiscal_corrections = [c \in Corrections |-> NoCorrection]
      /\ document_sequences = 2
      /\ messages = [t \in Tokens |-> NoMessage]
      /\ run = [r \in Runs |-> IdleRun]
      /\ posts = [k \in NewCodes |-> 0]
      /\ recepcion = [k \in NewCodes |-> "NONE"]
      /\ annulled = {}
  BY DEF Init
<1>3. createDteDocument \in DteRow /\ createDteDocument.op_claim = NULL
        /\ createDteDocument.status = "PENDING"
  BY DEF createDteDocument, DteRow, DteStatus
<1>4. ASSUME NEW d \in Docs
      PROVE  /\ RejectedDocument(d) \in DteRow
             /\ RejectedDocument(d).op_claim = NULL /\ RejectedDocument(d).status = "REJECTED"
  <2> DEFINE signed == updateDocumentSigned(createDteDocument)
             row    == completeDocumentTransmission(signed, FALSE)
  <2>1. signed \in DteRow
    BY <1>3, RowStatements
  <2>2. row \in DteRow /\ row.op_claim = NULL /\ row.status = "REJECTED"
    <3> HIDE DEF signed
    <3> QED BY <2>1 DEF completeDocumentTransmission, WithoutOperation, DteRow, DteStatus
  <2>3. RejectedDocument(d) = [row EXCEPT !.deferred_at = d \in Deferred]
    BY DEF RejectedDocument
  <2>4. PICK deferred \in BOOLEAN : deferred = (d \in Deferred)
    <3>1. (d \in Deferred) = TRUE \/ (d \in Deferred) = FALSE
      OBVIOUS
    <3> QED BY <3>1
  <2> HIDE DEF row
  <2>5. [row EXCEPT !.deferred_at = deferred] \in DteRow
        /\ [row EXCEPT !.deferred_at = deferred].op_claim = NULL
        /\ [row EXCEPT !.deferred_at = deferred].status = "REJECTED"
    BY <2>2 DEF DteRow
  <2> QED BY <2>3, <2>4, <2>5
<1>5. W!NoEvent \in W!WompiRow
  BY DEF W!NoEvent, W!WompiRow, W!Errors
<1>6. QueuedPayment \in W!WompiRow
  <2>1. W!insertWompiEvent(W!NoEvent) \in W!WompiRow
    BY <1>5 DEF W!insertWompiEvent, W!WompiRow
  <2> QED BY <2>1, EventStatements DEF QueuedPayment
<1>7. NoCorrection \in CorrectionRow /\ NoCorrection.source.codigo = NULL
        /\ NoCorrection.kind = "NONE" /\ NoCorrection.status = "NONE"
  BY DEF NoCorrection, CorrectionRow, Codes
<1>8. TypeOK
  <2>1. /\ dte_documents \in [Docs -> DteRow] /\ wompi_events \in [Docs -> W!WompiRow]
        /\ codigo_generacion \in [Docs -> Codes]
    BY <1>1, <1>3, <1>4, <1>5, <1>6 DEF Codes
  <2>2. /\ fiscal_corrections \in [Corrections -> CorrectionRow]
        /\ messages \in [Tokens -> Message] /\ run \in [Runs -> RunState]
    BY <1>2, <1>7, NoMessageIsMessage, IdleIsRun
  <2> QED BY <1>2, <2>1, <2>2 DEF TypeOK, MhTruth
<1>9. ASSUME NEW d \in Docs
      PROVE  /\ dte_documents[d].op_claim = NULL
             /\ \/ /\ codigo_generacion[d] = d /\ "PAYMENT" \in Kinds
                   /\ dte_documents[d].status = "PENDING"
                \/ codigo_generacion[d] = NULL /\ dte_documents[d].status = "REJECTED"
  <2>1. kind[d] = "PAYMENT" => "PAYMENT" \in Kinds
    OBVIOUS
  <2> QED BY <1>1, <1>3, <1>4, <2>1
<1>10. Places
  <2>1. \A c \in Corrections : fiscal_corrections[c].kind = "NONE"
                                 /\ fiscal_corrections[c].status = "NONE"
    BY <1>2, <1>7
  <2> QED BY <1>9, <2>1, Names DEF Places, Placed
<1>11. Sources
  BY <1>2, <1>7, Names DEF Sources
<1>12. Posts
  BY <1>2 DEF Posts
<1>13. Rows
  BY <1>2, <1>9, Names DEF Rows, Truthful, Replaced, Terminal
<1>14. Sent
  BY <1>2 DEF Sent, NoMessage
<1>15. RunsKnow /\ OneDispatches
  <2>1. \A r \in Runs : run[r].pc = "idle"
    BY <1>2 DEF IdleRun
  <2>2. "idle" \notin CorrectionPCs \cup SendPCs \cup TxPCs \cup InvPCs
    BY PlainIsApart DEF SendPCs, TxPCs, InvPCs
  <2>3. \A r \in Runs : ~Dispatches(r) /\ ~Undispatched(r)
    BY <2>1, <2>2 DEF Dispatches, Undispatched
  <2>4. RunsKnow
    BY <2>1, <2>2, <2>3 DEF RunsKnow, Works, Knows
  <2> QED BY <2>3, <2>4 DEF OneDispatches
<1> QED BY <1>8, <1>10, <1>11, <1>12, <1>13, <1>14, <1>15 DEF IInv

LEMMA OneStep ==
    ASSUME IInv, NEW r \in Runs, Step(r)
    PROVE  IInv'
BY SendStep, DeadLoadStep, LoadStep, ClaimProcessingStep, ReconcileStep, ErrorStep, ClearStep,
   FailStep, ReadStep, RetireStep, ReserveStep, PrepareStep, HoldPaymentDocumentStep, ClaimEventStep,
   CreateCorrectedStep, TransmitStep, SignStep, UnsignedStep, ClaimDocumentStep, MarkDispatchStep,
   TokenFailsStep, UndoStep, PostStep, ReplyStep, CompleteStep, FinalizeAcceptedStep, RecoverStep,
   TxClaimStep, TxTokenFailsStep, InvPostStep, InvCompleteStep, IssueStep DEF Step

LEMMA NextInv == IInv /\ [Next]_vars => IInv'
<1> SUFFICES ASSUME IInv, [Next]_vars PROVE IInv'
  OBVIOUS
<1>1. CASE UNCHANGED vars
  <2>1. /\ UNCHANGED <<fiscal_corrections, messages, run>> /\ SameDocuments /\ SameEvents
    BY <1>1 DEF vars, SameDocuments, SameEvents, docVars, otherVars, mhVars
  <2> QED BY <2>1, Untouched, SameMessages, EventsStay, RestStep
<1>2. CASE CalmNext
  <2>1. CASE \E r \in Runs : Step(r)
    BY <2>1, OneStep
  <2>2. CASE \E r \in Runs, c \in Corrections, d \in Docs, t \in Tokens :
               RequestCorrection(r, c, d, t) \/ RequestPayment(r, c, d, t)
    BY <2>2, RequestCorrectionStep, RequestPaymentStep
  <2>3. CASE \E r \in Runs, t \in Tokens : Deliver(r, t) \/ DeadDeliver(r, t)
    BY <2>3, DeliverStep
  <2>4. CASE \E r \in Runs, c \in Corrections : StartRecovery(r, c)
    BY <2>4, StartRecoveryStep
  <2>5. CASE \E r \in Runs, d \in Docs :
               StartTransmit(r, d) \/ StartInvalidate(r, d) \/ StartIssue(r, d)
    BY <2>5, StartTransmitStep, StartInvalidateStep, StartIssueStep
  <2>6. CASE \E c \in Corrections : RecoverVerdict(c) \/ (GoesStale(c) /\ Unattended(c))
    BY <2>6, RecoverVerdictStep
  <2>7. CASE \E k \in NewCodes, verdict \in {"PROCESADO", "RECHAZADO"} : MhDecides(k, verdict)
    BY <2>7, MhDecidesStep
  <2>8. CASE \E d \in Docs : \/ FinalizeByCron(d) \/ SignElsewhere(d)
                             \/ RetryIssuance(d) \/ SweepIssuance(d)
    BY <2>8, FinalizeByCronStep, SignElsewhereStep, RetryIssuanceStep
  <2> QED BY <1>2, <2>1, <2>2, <2>3, <2>4, <2>5, <2>6, <2>7, <2>8 DEF CalmNext
<1>3. CASE \E r \in Runs : StatementThrows(r) \/ Crash(r)
  BY <1>3, StatementThrowsStep, CrashStep
<1>4. CASE \E c \in Corrections : GoesStale(c)
  BY <1>4, RecoverVerdictStep
<1> QED BY <1>1, <1>2, <1>3, <1>4 DEF Next

\* In every behaviour of the handlers of a correction, with the crashes, errors and
\* overlapping deliveries around them: rows, corrections, messages, what was sent to MH
\* and what each handler relies on stay consistent.
THEOREM InvariantHolds == Spec => []IInv
<1>1. Init => IInv
  BY InitInv
<1>2. IInv /\ [Next]_vars => IInv'
  BY NextInv
<1> QED BY <1>1, <1>2, PTL DEF Spec

\* Every statement leaves its row within the schema's types, and every handler and
\* message within those of the code that handles it.
THEOREM TypeCorrect == Spec => []TypeOK
<1>1. IInv => TypeOK
  BY DEF IInv
<1> QED BY <1>1, InvariantHolds, PTL

LEMMA AccountedFor ==
    ASSUME IInv
    PROVE  SubmittedIsAccountedFor
<1> SUFFICES ASSUME NEW k \in NewCodes
             PROVE  /\ posts[k] <= 1
                    /\ posts[k] > 0 =>
                       IF codigo_generacion[DocumentOf(k)] = k
                         THEN \/ Terminal(DocumentOf(k))
                              \/ /\ dte_documents[DocumentOf(k)].status = "SIGNED"
                                 /\ dte_documents[DocumentOf(k)].op_claim # NULL
                         ELSE recepcion[k] = "RECHAZADO"
  BY DEF SubmittedIsAccountedFor, Terminal
<1>1. /\ posts[k] <= 1
      /\ posts[k] > 0 => /\ k \in Corrections => fiscal_corrections[k].kind = "DTE_DOCUMENT"
                         /\ codigo_generacion[DocumentOf(k)] # k => recepcion[k] = "RECHAZADO"
  BY DEF IInv, Posts
<1>2. posts[k] > 0 => DocumentOf(k) \in Docs
  BY <1>1 DEF DocumentOf, NewCodes, IInv, Places
<1>3. CASE posts[k] > 0 /\ codigo_generacion[DocumentOf(k)] = k
  <2>1. Truthful(DocumentOf(k))
    BY <1>2, <1>3 DEF IInv, Rows
  <2> QED BY <1>1, <1>3, <2>1 DEF Truthful
<1> QED BY <1>1, <1>3

\* A codigo that a correction or a payment reserved reaches MH once at most, and the
\* document keeps it, under a claim, until MH's verdict is recorded: whatever crashes,
\* is delivered again or is retried besides.
THEOREM SubmittedOnceAndAccountedFor == Spec => []SubmittedIsAccountedFor
<1>1. IInv => SubmittedIsAccountedFor
  BY AccountedFor
<1> QED BY <1>1, InvariantHolds, PTL

-----------------------------------------------------------------------------
(* Each codigo keeps the promise of LegalSubmission.                       *)

\* What the status of a row says of the codigo it carries.
Entry(status) ==
    CASE status = "ACCEPTED"    -> "PROCESADO"
      [] status = "REJECTED"    -> "RECHAZADO"
      [] status = "INVALIDATED" -> "ANULADO"
      [] OTHER                  -> "OPEN"

\* A later correction has replaced the codigo.
Sourced(k) == \E o \in Corrections : fiscal_corrections[o].source.codigo = k

Carried(k) == \E d \in Docs : codigo_generacion[d] = k

LedgerIsRead ==
    \A k \in NewCodes :
       /\ \A d \in Docs : codigo_generacion[d] = k => LedgerOf(k) = Entry(dte_documents[d].status)
       /\ ~Carried(k) => LedgerOf(k) = IF Sourced(k) THEN "RECHAZADO" ELSE "OPEN"

LEMMA ReadLedger == IInv => LedgerIsRead
<1> SUFFICES ASSUME IInv, NEW k \in NewCodes
             PROVE  /\ \A d \in Docs : codigo_generacion[d] = k =>
                          LedgerOf(k) = Entry(dte_documents[d].status)
                    /\ ~Carried(k) => LedgerOf(k) = IF Sourced(k) THEN "RECHAZADO" ELSE "OPEN"
  BY DEF LedgerIsRead
<1>1. ASSUME NEW d \in Docs, codigo_generacion[d] = k
      PROVE  LedgerOf(k) = Entry(dte_documents[d].status)
  <2>1. DocumentOf(k) = d
    BY <1>1, OnePlace
  <2> QED BY <1>1, <2>1 DEF LedgerOf, Entry
<1>2. ~Carried(k) => LedgerOf(k) = IF Sourced(k) THEN "RECHAZADO" ELSE "OPEN"
  BY DEF Carried, Sourced, LedgerOf
<1> QED BY <1>1, <1>2

LEMMA ReadLedgerNext == IInv' => LedgerIsRead'
  BY ReadLedger, PTL

\* What has been replaced is known of every codigo that is on no row.
SourcesKnown == \A k \in NewCodes : ~Carried(k) => Sourced(k)' = Sourced(k)

\* A step that writes the status of one row at most, and leaves each codigo in
\* its place: a verdict that MH has given, an annulment it has granted, or nothing
\* the promise is about.
LEMMA Ruled ==
    ASSUME IInv, IInv', SourcesKnown, UNCHANGED <<codigo_generacion, mhVars>>,
           NEW d \in Docs,
           \A e \in Docs \ {d} : dte_documents'[e].status = dte_documents[e].status,
           \/ Entry(dte_documents'[d].status) = Entry(dte_documents[d].status)
           \/ /\ ~isTerminalDteStatus(dte_documents[d].status)
              /\ dte_documents'[d].status \in {"ACCEPTED", "REJECTED"}
           \/ /\ dte_documents[d].status = "ACCEPTED"
              /\ dte_documents'[d].status = "INVALIDATED"
    PROVE  [Legal!Next]_(Legal!legalVars)
<1>1. LedgerIsRead /\ LedgerIsRead'
  BY ReadLedger, ReadLedgerNext
<1>2. \A k : Carried(k)' = Carried(k)
  BY DEF Carried
<1> DEFINE k == codigo_generacion[d]
<1>3. ASSUME NEW n \in NewCodes, n # k \/ Entry(dte_documents'[d].status) = Entry(dte_documents[d].status)
      PROVE  LedgerOf(n)' = LedgerOf(n)
  <2>1. CASE ~Carried(n)
    BY <1>1, <1>2, <2>1 DEF LedgerIsRead, SourcesKnown
  <2>2. CASE Carried(n)
    <3>1. PICK e \in Docs : codigo_generacion[e] = n
      BY <2>2 DEF Carried
    <3>2. LedgerOf(n) = Entry(dte_documents[e].status)
      BY <1>1, <3>1 DEF LedgerIsRead
    <3>3. LedgerOf(n)' = Entry(dte_documents'[e].status)
      BY <1>1, <3>1 DEF LedgerIsRead, Entry
    <3>4. Entry(dte_documents'[e].status) = Entry(dte_documents[e].status)
      BY <1>3, <3>1
    <3> QED BY <3>2, <3>3, <3>4
  <2> QED BY <2>1, <2>2
<1>4. UNCHANGED <<posts, recepcion, annulled>>
  BY DEF mhVars
<1>5. CASE k \notin NewCodes \/ Entry(dte_documents'[d].status) = Entry(dte_documents[d].status)
  <2>1. \A n \in NewCodes : LedgerOf(n)' = LedgerOf(n)
    BY <1>3, <1>5
  <2> QED BY <1>4, <2>1 DEF Legal!legalVars
<1>6. CASE k \in NewCodes /\ Entry(dte_documents'[d].status) # Entry(dte_documents[d].status)
  <2>1. /\ LedgerOf(k) = Entry(dte_documents[d].status)
        /\ LedgerOf(k)' = Entry(dte_documents'[d].status)
    <3>1. codigo_generacion'[d] = k
      OBVIOUS
    <3> QED BY <1>1, <1>6, <3>1 DEF LedgerIsRead, Entry
  <2>2. Truthful(d) /\ Truthful(d)'
    BY DEF IInv, Rows
  <2>3. [n \in NewCodes |-> LedgerOf(n)'] = [[n \in NewCodes |-> LedgerOf(n)] EXCEPT ![k] = LedgerOf(k)']
    BY <1>3, <1>6
  <2>4. CASE dte_documents'[d].status \in {"ACCEPTED", "REJECTED"}
    <3>1. LedgerOf(k) = "OPEN"
      BY <1>6, <2>1, <2>4 DEF Entry, isTerminalDteStatus, TerminalStatus
    <3>2. LedgerOf(k)' = recepcion[k] /\ recepcion[k] \in {"PROCESADO", "RECHAZADO"}
      BY <1>4, <1>6, <2>1, <2>2, <2>4 DEF Truthful, Entry
    <3>3. Legal!Record(k)
      BY <1>4, <1>6, <2>3, <3>1, <3>2 DEF Legal!Record
    <3> QED BY <1>6, <3>3 DEF Legal!Next
  <2>5. CASE dte_documents[d].status = "ACCEPTED" /\ dte_documents'[d].status = "INVALIDATED"
    <3>1. LedgerOf(k) = "PROCESADO" /\ LedgerOf(k)' = "ANULADO"
      BY <2>1, <2>5 DEF Entry
    <3>2. k \in annulled
      BY <1>4, <1>6, <2>2, <2>5 DEF Truthful
    <3>3. Legal!RecordAnnulment(k)
      BY <1>4, <1>6, <2>3, <3>1, <3>2 DEF Legal!RecordAnnulment
    <3> QED BY <1>6, <3>3 DEF Legal!Next
  <2> QED BY <1>6, <2>4, <2>5
<1> QED BY <1>5, <1>6

SourcesStand ==
    \A c \in Corrections : fiscal_corrections'[c].source = fiscal_corrections[c].source

LEMMA StandingIsKnown == SourcesStand => SourcesKnown
  BY DEF SourcesStand, SourcesKnown, Sourced

\* Neither documents nor MH.
LEMMA SilentStep ==
    ASSUME IInv, IInv', SourcesStand, UNCHANGED <<docVars, mhVars>>
    PROVE  [Legal!Next]_(Legal!legalVars)
<1>1. LedgerIsRead /\ LedgerIsRead' /\ SourcesKnown
  BY ReadLedger, ReadLedgerNext, StandingIsKnown
<1>2. \A n \in NewCodes : LedgerOf(n)' = LedgerOf(n)
  <2> TAKE n \in NewCodes
  <2>1. Carried(n)' = Carried(n)
    BY DEF Carried, docVars
  <2>2. CASE Carried(n)
    <3>1. PICK e \in Docs : codigo_generacion[e] = n
      BY <2>2 DEF Carried
    <3> QED BY <1>1, <3>1 DEF LedgerIsRead, Entry, docVars
  <2> QED BY <1>1, <2>1, <2>2 DEF LedgerIsRead, SourcesKnown
<1> QED BY <1>2 DEF Legal!legalVars, mhVars

\* One row.
LEMMA RowRuled ==
    ASSUME IInv, IInv', SourcesStand, UNCHANGED <<codigo_generacion, mhVars>>,
           NEW d \in Docs, NEW row, dte_documents' = [dte_documents EXCEPT ![d] = row],
           \/ row.status = dte_documents[d].status
           \/ /\ ~isTerminalDteStatus(dte_documents[d].status)
              /\ \/ row.status \in {"ACCEPTED", "REJECTED"}
                 \/ row.status \in {"SIGNED", "FAILED"} /\ dte_documents[d] \in DteRow
           \/ dte_documents[d].status = "ACCEPTED" /\ row.status = "INVALIDATED"
    PROVE  [Legal!Next]_(Legal!legalVars)
<1>1. /\ dte_documents'[d] = row
      /\ \A e \in Docs \ {d} : dte_documents'[e].status = dte_documents[e].status
  BY DEF IInv, TypeOK
<1>2. \/ Entry(row.status) = Entry(dte_documents[d].status)
      \/ /\ ~isTerminalDteStatus(dte_documents[d].status)
         /\ row.status \in {"ACCEPTED", "REJECTED"}
      \/ dte_documents[d].status = "ACCEPTED" /\ row.status = "INVALIDATED"
  BY DEF Entry, isTerminalDteStatus, TerminalStatus
<1> QED BY <1>1, <1>2, StandingIsKnown, Ruled

\* What a correction replaces is noted once, by the request.
LEMMA SettlersKeepSources ==
    ASSUME IInv, NEW r \in Runs,
           \/ ClaimProcessing(r) \/ Reconcile(r) \/ Review(r) \/ Error(r) \/ Clear(r) \/ Finish(r)
           \/ Reserve(r) \/ RenewLease(r) \/ MarkDispatch(r) \/ Recover(r) \/ Fail(r) \/ Retire(r)
    PROVE  SourcesStand
<1> DEFINE x == Correction(r)
<1>1. run[r].pc \in CorrectionPCs
  BY Plain DEF ClaimProcessing, Reconcile, Review, Error, Clear, Finish, Reserve, RenewLease,
               MarkDispatch, Recover, Fail, Retire, At
<1>2. x \in CorrectionRow
  BY <1>1, OfCorrection
<1>3. /\ \A status : Finalized(x, status).source = x.source
      /\ claimFiscalCorrectionProcessing(x).source = x.source
      /\ Renewed(x).source = x.source
      /\ \A n : [Renewed(x) EXCEPT !.number = n].source = x.source
      /\ \A t : recoverFiscalCorrectionProcessingClaim(x, t).source = x.source
      /\ \A b : [x EXCEPT !.dispatched = b].source = x.source
  BY <1>2 DEF CorrectionRow, Finalized, claimFiscalCorrectionProcessing, Renewed,
              recoverFiscalCorrectionProcessingClaim
<1>4. UNCHANGED fiscal_corrections \/ \E y : y.source = x.source /\ SetCorrection(r, y)
  <2>1. CASE ClaimProcessing(r) \/ Review(r) \/ RenewLease(r)
    BY <1>3, <2>1 DEF ClaimProcessing, Review, RenewLease
  <2>2. CASE Reconcile(r) \/ Error(r) \/ Finish(r)
    BY <1>3, <2>2 DEF Reconcile, Error, Finish, SettleVerdict
  <2>3. CASE Clear(r) \/ MarkDispatch(r)
    <3>1. PICK b : SetCorrection(r, [x EXCEPT !.dispatched = b])
      BY <1>2, <2>3 DEF Clear, MarkDispatch, CorrectionRow
    <3> QED BY <1>3, <3>1
  <2>4. CASE Reserve(r)
    BY <1>3, <2>4 DEF Reserve
  <2>5. CASE Recover(r) \/ Fail(r) \/ Retire(r)
    BY <1>3, <2>5 DEF Recover, Fail, Retire
  <2> QED BY <2>1, <2>2, <2>3, <2>4, <2>5
<1> QED BY <1>4 DEF SourcesStand, SetCorrection, Correction, IInv, TypeOK

LEMMA OthersKeepSources == UNCHANGED fiscal_corrections => SourcesStand
  BY DEF SourcesStand

\* A handler's step that writes neither documents nor MH.
LEMMA SilentStepIsLegal ==
    ASSUME IInv, IInv', NEW r \in Runs,
           \/ Send(r) \/ DeadLoad(r) \/ Handler(r)
           \/ Load(r) \/ ClaimProcessing(r) \/ Reload(r) \/ Reconcile(r) \/ Review(r)
           \/ Error(r) \/ Clear(r)
           \/ ReadDocument(r) \/ Reserve(r) \/ RenewLease(r)
           \/ ReadPayment(r) \/ ClaimEvent(r) \/ CreateCorrected(r) \/ ReleaseEvent(r)
           \/ Transmit(r) \/ MarkDispatch(r) \/ TokenFails(r) \/ Reply(r) \/ Catch(r) \/ Finish(r)
           \/ Recover(r) \/ TxReply(r)
           \/ IssueCheck(r) \/ IssuePark(r) \/ IssueCreate(r) \/ IssueRelease(r)
           \/ StatementThrows(r) \/ Crash(r)
    PROVE  [Legal!Next]_(Legal!legalVars)
<1>1. CASE \/ ClaimProcessing(r) \/ Reconcile(r) \/ Review(r) \/ Error(r) \/ Clear(r) \/ Finish(r)
           \/ Reserve(r) \/ RenewLease(r) \/ MarkDispatch(r) \/ Recover(r)
  <2>1. UNCHANGED <<docVars, mhVars>>
    BY <1>1 DEF ClaimProcessing, Reconcile, Review, Error, Clear, Finish, Reserve, RenewLease,
                MarkDispatch, Recover
  <2> QED BY <1>1, <2>1, SettlersKeepSources, SilentStep
<1>2. CASE \/ Send(r) \/ DeadLoad(r) \/ Handler(r) \/ Load(r) \/ Reload(r) \/ ReadDocument(r)
           \/ ReadPayment(r) \/ Transmit(r) \/ TokenFails(r) \/ Reply(r) \/ Catch(r) \/ TxReply(r)
           \/ StatementThrows(r) \/ Crash(r)
  <2>1. UNCHANGED <<docVars, mhVars>> /\ UNCHANGED fiscal_corrections
    BY <1>2 DEF Send, DeadLoad, Handler, Load, Reload, ReadDocument, ReadPayment, Transmit, TokenFails,
                Reply, Catch, TxReply, ReadReply, StatementThrows, Crash, tableVars
  <2> QED BY <2>1, OthersKeepSources, SilentStep
<1>3. CASE \/ ClaimEvent(r) \/ CreateCorrected(r) \/ ReleaseEvent(r)
           \/ IssueCheck(r) \/ IssuePark(r) \/ IssueCreate(r) \/ IssueRelease(r)
  <2>1. UNCHANGED <<docVars, mhVars>> /\ UNCHANGED fiscal_corrections
    BY <1>3 DEF ClaimEvent, CreateCorrected, ReleaseEvent, IssueCheck, IssuePark, IssueCreate,
                IssueRelease, CreateDocument
  <2> QED BY <2>1, OthersKeepSources, SilentStep
<1> QED BY <1>1, <1>2, <1>3

\* What begins a handler, or happens to a row beside them.
LEMMA StartIsLegal ==
    ASSUME IInv, IInv',
           \/ \E r \in Runs, c \in Corrections, d \in Docs, t \in Tokens : RequestPayment(r, c, d, t)
           \/ \E r \in Runs, t \in Tokens : Deliver(r, t) \/ DeadDeliver(r, t)
           \/ \E r \in Runs, c \in Corrections : StartRecovery(r, c)
           \/ \E r \in Runs, d \in Docs : StartTransmit(r, d) \/ StartIssue(r, d)
           \/ \E c \in Corrections : RecoverVerdict(c) \/ GoesStale(c)
           \/ \E d \in Docs : RetryIssuance(d) \/ SweepIssuance(d)
    PROVE  [Legal!Next]_(Legal!legalVars)
<1>1. CASE \E c \in Corrections : RecoverVerdict(c) \/ GoesStale(c)
  <2>1. PICK c \in Corrections : RecoverVerdict(c) \/ GoesStale(c)
    BY <1>1
  <2>2. fiscal_corrections[c] \in CorrectionRow /\ fiscal_corrections \in [Corrections -> CorrectionRow]
    BY DEF IInv, TypeOK
  <2>3. SourcesStand
    BY <2>1, <2>2 DEF RecoverVerdict, GoesStale, SourcesStand, Finalized, CorrectionRow
  <2>4. UNCHANGED <<docVars, mhVars>>
    BY <2>1 DEF RecoverVerdict, GoesStale
  <2> QED BY <2>3, <2>4, SilentStep
<1>2. CASE \E r \in Runs, c \in Corrections, d \in Docs, t \in Tokens : RequestPayment(r, c, d, t)
  <2>1. PICK c \in Corrections, d \in Docs, t \in Tokens :
           /\ fiscal_corrections[c] = NoCorrection
           /\ fiscal_corrections' = [fiscal_corrections EXCEPT ![c] = claimWompiFiscalCorrection(d, t)]
           /\ UNCHANGED <<docVars, mhVars>>
    BY <1>2 DEF RequestPayment
  <2>2. claimWompiFiscalCorrection(d, t).source = NoCorrection.source
    BY DEF claimWompiFiscalCorrection, NoCorrection
  <2>3. SourcesStand
    BY <2>1, <2>2 DEF SourcesStand, IInv, TypeOK
  <2> QED BY <2>1, <2>3, SilentStep
<1>3. CASE \/ \E r \in Runs, t \in Tokens : Deliver(r, t) \/ DeadDeliver(r, t)
           \/ \E r \in Runs, c \in Corrections : StartRecovery(r, c)
           \/ \E r \in Runs, d \in Docs : StartTransmit(r, d) \/ StartIssue(r, d)
           \/ \E d \in Docs : RetryIssuance(d) \/ SweepIssuance(d)
  <2>1. UNCHANGED <<docVars, mhVars>> /\ UNCHANGED fiscal_corrections
    BY Zenon, <1>3 DEF Deliver, DeadDeliver, StartDelivery, StartRecovery, StartTransmit, StartIssue,
                RetryIssuance, SweepIssuance, tableVars
  <2> QED BY Zenon, <2>1, OthersKeepSources, SilentStep
<1> QED BY <1>1, <1>2, <1>3

\* A delivery's step that writes its row under the codigo that is on it.
LEMMA DeliveryRowIsLegal ==
    ASSUME IInv, IInv', NEW r \in Runs,
           \/ HoldPaymentDocument(r) \/ Sign(r) \/ Unsigned(r) \/ ClaimDocument(r) \/ Undo(r)
           \/ Complete(r) \/ FinalizeAccepted(r) \/ Fail(r)
    PROVE  [Legal!Next]_(Legal!legalVars)
<1>1. run[r].pc \in CorrectionPCs
  BY Plain DEF HoldPaymentDocument, Sign, Unsigned, ClaimDocument, Undo, Complete, FinalizeAccepted,
               Fail, At
<1>2. PICK d \in Docs : d = run[r].document
  BY <1>1, OfCorrection
<1>3. PICK old \in DteRow : old = dte_documents[d] /\ old = Document(r)
  BY <1>1, <1>2, OfCorrection DEF Document
<1>4. UNCHANGED <<codigo_generacion, mhVars>>
  BY DEF HoldPaymentDocument, Sign, Unsigned, ClaimDocument, Undo, Complete, FinalizeAccepted, Fail
<1>5. SourcesStand
  <2>1. CASE Fail(r)
    BY <2>1, SettlersKeepSources
  <2>2. CASE ~Fail(r)
    BY <2>2, OthersKeepSources DEF HoldPaymentDocument, Sign, Unsigned, ClaimDocument, Undo, Complete,
                                   FinalizeAccepted
  <2> QED BY <2>1, <2>2
<1>6. /\ run[r].correction \in Ids
      /\ run[r].pc \in {"sign", "sign_held", "claim_doc"} => ~isTerminalDteStatus(run[r].expected)
  BY <1>1, OfCorrection, Names DEF IInv, RunsKnow, Knows
<1>7. /\ WithoutOperation(old).status = old.status
      /\ updateDocumentSigned(old).status = "SIGNED" /\ markDocumentFailed(old).status = "FAILED"
      /\ markDocumentPostAcceptFinalized(old).status = old.status
      /\ claimDocumentTransmission(old, run[r].correction).status = "SIGNED"
      /\ HoldDocument(old, run[r].correction).status = old.status
  BY <1>6, RowStatements, ClaimStatements
<1> DEFINE Writes(row) ==
              /\ dte_documents' = [dte_documents EXCEPT ![d] = row]
              /\ \/ row.status = old.status
                 \/ /\ ~isTerminalDteStatus(old.status)
                    /\ row.status \in {"ACCEPTED", "REJECTED", "SIGNED", "FAILED"}
<1>8. \A row : SetDocument(r, row) => dte_documents' = [dte_documents EXCEPT ![d] = row]
  BY <1>2 DEF SetDocument
<1>9. UNCHANGED dte_documents \/ \E row : Writes(row)
  <2>1. CASE HoldPaymentDocument(r)
    BY <1>3, <1>7, <1>8, <2>1 DEF HoldPaymentDocument
  <2>2. CASE Sign(r)
    <3>1. PICK row \in {old, updateDocumentSigned(old)} :
             /\ SetDocument(r, row)
             /\ row = old \/ old.status = run[r].expected
      BY <1>3, <2>2 DEF Sign, updateDocumentSignedEnabled
    <3>2. ~isTerminalDteStatus(run[r].expected)
      BY <1>6, <2>2 DEF Sign
    <3> QED BY <1>7, <1>8, <3>1, <3>2
  <2>3. CASE Unsigned(r)
    BY <1>3, <1>7, <1>8, <2>3 DEF Unsigned, markDocumentFailedEnabled
  <2>4. CASE ClaimDocument(r)
    <3>1. ~isTerminalDteStatus(run[r].expected)
      BY <1>6, <2>4 DEF ClaimDocument, At
    <3> QED BY <1>3, <1>7, <1>8, <2>4, <3>1 DEF ClaimDocument, claimDocumentTransmissionEnabled
  <2>5. CASE Undo(r)
    <3>1. PICK row \in {old, WithoutOperation(old), markDocumentFailed(old)} :
             /\ SetDocument(r, row)
             /\ row \in {old, WithoutOperation(old)} \/ ~isTerminalDteStatus(old.status)
      BY <1>3, <2>5 DEF Undo, markDocumentFailedEnabled, releaseDocumentFiscalOperation
    <3> QED BY <1>7, <1>8, <3>1
  <2>6. CASE Complete(r)
    <3>1. \A b \in BOOLEAN : completeDocumentTransmission(old, b).status \in {"ACCEPTED", "REJECTED"}
      BY DEF completeDocumentTransmission, WithoutOperation, DteRow
    <3>2. ~isTerminalDteStatus("SIGNED")
      BY DEF isTerminalDteStatus, TerminalStatus
    <3> QED BY <1>3, <1>8, <2>6, <3>1, <3>2 DEF Complete, completeDocumentTransmissionEnabled
  <2>7. CASE FinalizeAccepted(r)
    BY <1>3, <1>7, <1>8, <2>7 DEF FinalizeAccepted
  <2>8. CASE Fail(r)
    <3>1. PICK row \in {old, WithoutOperation(old)} : SetDocument(r, row)
      BY <1>3, <2>8 DEF Fail, ReleaseFailed
    <3> QED BY <1>7, <1>8, <3>1
  <2> QED BY <2>1, <2>2, <2>3, <2>4, <2>5, <2>6, <2>7, <2>8
<1>10. CASE UNCHANGED dte_documents
  BY <1>4, <1>5, <1>10, SilentStep DEF docVars
<1>11. CASE \E row : Writes(row)
  <2>1. PICK row : Writes(row)
    BY <1>11
  <2> QED BY <1>3, <1>4, <1>5, <2>1, RowRuled
<1> QED BY <1>9, <1>10, <1>11

\* A step that writes its row under the codigo that is on it, of any other handler.
LEMMA OtherRowIsLegal ==
    ASSUME IInv, IInv',
           \/ \E r \in Runs : TxClaim(r) \/ TxTokenFails(r) \/ TxComplete(r) \/ InvComplete(r)
           \/ \E r \in Runs, d \in Docs : StartInvalidate(r, d)
           \/ \E d \in Docs : FinalizeByCron(d) \/ SignElsewhere(d)
    PROVE  [Legal!Next]_(Legal!legalVars)
<1>1. /\ UNCHANGED <<codigo_generacion, mhVars>>
      /\ SourcesStand
  BY OthersKeepSources
     DEF TxClaim, TxTokenFails, TxComplete, InvComplete, StartInvalidate, FinalizeByCron, SignElsewhere
<1> DEFINE Writes(d, row) ==
              /\ dte_documents' = [dte_documents EXCEPT ![d] = row]
              /\ \/ row.status = dte_documents[d].status
                 \/ /\ ~isTerminalDteStatus(dte_documents[d].status)
                    /\ \/ row.status \in {"ACCEPTED", "REJECTED"}
                       \/ row.status \in {"SIGNED", "FAILED"} /\ dte_documents[d] \in DteRow
                 \/ dte_documents[d].status = "ACCEPTED" /\ row.status = "INVALIDATED"
<1>2. UNCHANGED dte_documents \/ \E d \in Docs : \E row : Writes(d, row)
  <2>1. ASSUME NEW r \in Runs, TxClaim(r) \/ TxTokenFails(r) \/ TxComplete(r) \/ InvComplete(r)
        PROVE  UNCHANGED dte_documents \/ \E d \in Docs : \E row : Writes(d, row)
    <3>1. Works(r) /\ Knows(r) /\ run[r].pc # "idle" /\ r \in Ids
      BY <2>1, Names DEF IInv, RunsKnow, TxClaim, TxTokenFails, TxComplete, InvComplete, At
    <3>2. PICK d \in Docs : d = run[r].document
      BY <3>1 DEF Works
    <3>3. dte_documents[d] \in DteRow
      BY Typed DEF IInv
    <3>4. \A row : SetDocument(r, row) => dte_documents' = [dte_documents EXCEPT ![d] = row]
      BY <3>2 DEF SetDocument
    <3>5. CASE TxClaim(r)
      <4>1. ~isTerminalDteStatus(run[r].expected)
        BY <3>1, <3>5 DEF TxClaim, At, Knows
      <4>2. claimDocumentTransmission(dte_documents[d], r).status = "SIGNED"
        BY <3>1, <3>3, ClaimStatements
      <4> QED BY <3>2, <3>3, <3>4, <3>5, <4>1, <4>2
              DEF TxClaim, Document, claimDocumentTransmissionEnabled
    <3>6. CASE TxTokenFails(r)
      <4>1. PICK row \in {markDocumentTransmissionDeferred(dte_documents[d]),
                          WithoutOperation(dte_documents[d])} : SetDocument(r, row)
        BY <3>2, <3>6 DEF TxTokenFails, Document, releaseDocumentFiscalOperation
      <4> QED BY <3>3, <3>4, <4>1, RowStatements
    <3>7. CASE TxComplete(r)
      <4>1. \A b \in BOOLEAN :
               completeDocumentTransmission(dte_documents[d], b).status \in {"ACCEPTED", "REJECTED"}
        BY <3>3 DEF completeDocumentTransmission, WithoutOperation, DteRow
      <4>2. ~isTerminalDteStatus("SIGNED")
        BY DEF isTerminalDteStatus, TerminalStatus
      <4> QED BY <3>2, <3>4, <3>7, <4>1, <4>2
              DEF TxComplete, Document, completeDocumentTransmissionEnabled
    <3>8. CASE InvComplete(r)
      <4>1. PICK row \in {dte_documents[d],
                          completeDocumentInvalidation(dte_documents[d], run[r].verdict = "ACCEPTED")} :
               /\ SetDocument(r, row)
               /\ row = dte_documents[d] \/ dte_documents[d].status = "ACCEPTED"
        BY <3>2, <3>8 DEF InvComplete, Document, completeDocumentInvalidationEnabled, OwnsInvalidation
      <4>2. \/ row.status = dte_documents[d].status
            \/ dte_documents[d].status = "ACCEPTED" /\ row.status = "INVALIDATED"
        <5>1. CASE run[r].verdict = "ACCEPTED"
          BY <3>3, <4>1, <5>1 DEF completeDocumentInvalidation, WithoutOperation, DteRow
        <5>2. CASE run[r].verdict # "ACCEPTED"
          BY <3>3, <4>1, <5>2 DEF completeDocumentInvalidation, WithoutOperation, DteRow
        <5> QED BY <5>1, <5>2
      <4> QED BY <3>4, <4>1, <4>2
    <3> QED BY <2>1, <3>5, <3>6, <3>7, <3>8
  <2>2. ASSUME NEW d \in Docs, FinalizeByCron(d) \/ SignElsewhere(d) \/ \E r \in Runs : StartInvalidate(r, d)
        PROVE  \E row : Writes(d, row)
    <3>1. dte_documents[d] \in DteRow
      BY Typed DEF IInv
    <3>2. CASE FinalizeByCron(d)
      <4>1. markDocumentPostAcceptFinalized(dte_documents[d]).status = dte_documents[d].status
        BY <3>1, RowStatements
      <4> QED BY <3>2, <4>1 DEF FinalizeByCron
    <3>3. CASE SignElsewhere(d)
      <4>1. PICK row \in {updateDocumentSigned(dte_documents[d]), markDocumentFailed(dte_documents[d])} :
               dte_documents' = [dte_documents EXCEPT ![d] = row]
        BY <3>3 DEF SignElsewhere
      <4>2. ~isTerminalDteStatus(dte_documents[d].status)
        BY <3>3 DEF SignElsewhere, isTerminalDteStatus, TerminalStatus
      <4>3. row.status \in {"SIGNED", "FAILED"}
        BY <3>1, <4>1, RowStatements
      <4> QED BY <3>1, <4>1, <4>2, <4>3
    <3>4. CASE \E r \in Runs : StartInvalidate(r, d)
      <4>1. PICK r \in Runs : dte_documents' = [dte_documents EXCEPT ![d] =
               createAndAttachDocumentInvalidationEvent(claimDocumentInvalidation(dte_documents[d], r), r)]
        BY <3>4 DEF StartInvalidate, IInv, TypeOK
      <4>2. createAndAttachDocumentInvalidationEvent(
               claimDocumentInvalidation(dte_documents[d], r), r).status = dte_documents[d].status
        BY <3>1 DEF createAndAttachDocumentInvalidationEvent, claimDocumentInvalidation, DteRow
      <4> QED BY <4>1, <4>2
    <3> QED BY <2>2, <3>2, <3>3, <3>4
  <2> QED BY <2>1, <2>2
<1>3. CASE UNCHANGED dte_documents
  BY <1>1, <1>3, SilentStep DEF docVars
<1>4. CASE \E d \in Docs : \E row : Writes(d, row)
  <2>1. PICK d \in Docs : \E row : Writes(d, row)
    BY <1>4
  <2>2. PICK row : Writes(d, row)
    BY <2>1
  <2> QED BY <1>1, <2>2, RowRuled
<1> QED BY <1>2, <1>3, <1>4

\* The operator's request notes what is still on the row.
LEMMA RequestIsLegal ==
    ASSUME IInv, IInv', NEW r \in Runs, NEW c \in Corrections, NEW d \in Docs, NEW t \in Tokens,
           RequestCorrection(r, c, d, t)
    PROVE  [Legal!Next]_(Legal!legalVars)
<1> DEFINE y == claimDocumentFiscalCorrection(dte_documents[d], d, t, codigo_generacion[d])
<1>1. /\ fiscal_corrections[c] = NoCorrection
      /\ fiscal_corrections' = [fiscal_corrections EXCEPT ![c] = y]
      /\ dte_documents' = [dte_documents EXCEPT ![d] = HoldDocument(dte_documents[d], c)]
      /\ UNCHANGED <<codigo_generacion, mhVars>>
  BY DEF RequestCorrection, IInv, TypeOK
<1>2. fiscal_corrections[c].source.codigo = NULL /\ y.source.codigo = codigo_generacion[d]
  BY <1>1 DEF NoCorrection, claimDocumentFiscalCorrection
<1> HIDE DEF y
<1>3. SourcesKnown
  <2> SUFFICES ASSUME NEW k \in NewCodes, ~Carried(k) PROVE Sourced(k)' = Sourced(k)
    BY DEF SourcesKnown
  <2>1. k # NULL /\ k # codigo_generacion[d]
    BY Names DEF Carried
  <2>2. \A o \in Corrections : fiscal_corrections'[o].source.codigo = k
                                 <=> fiscal_corrections[o].source.codigo = k
    BY <1>1, <1>2, <2>1 DEF IInv, TypeOK
  <2> QED BY <2>2 DEF Sourced
<1>4. \A e \in Docs : dte_documents'[e].status = dte_documents[e].status
  <2>1. HoldDocument(dte_documents[d], c).status = dte_documents[d].status
    BY Typed, Names, ClaimStatements DEF IInv
  <2> QED BY <1>1, <2>1 DEF IInv, TypeOK
<1> QED BY <1>1, <1>3, <1>4, Ruled

\* A codigo that nothing was sent under has not been replaced.
LEMMA UnsentIsNoSource ==
    ASSUME IInv, NEW k \in NewCodes, posts[k] = 0
    PROVE  ~Sourced(k)
  BY DEF IInv, Posts, Sources, Sourced

\* A row gets another codigo: the one that leaves has been noted as replaced, or
\* was never sent, and the one that comes has the status it had in the notes.
LEMMA Rewritten ==
    ASSUME IInv, IInv', SourcesStand, UNCHANGED mhVars,
           NEW d \in Docs, NEW row, NEW k, k # codigo_generacion[d], Placed(k, d),
           dte_documents' = [dte_documents EXCEPT ![d] = row],
           codigo_generacion' = [codigo_generacion EXCEPT ![d] = k],
           codigo_generacion[d] \in NewCodes =>
              Entry(dte_documents[d].status)
                = IF Sourced(codigo_generacion[d]) THEN "RECHAZADO" ELSE "OPEN",
           k \in NewCodes => Entry(row.status) = IF Sourced(k) THEN "RECHAZADO" ELSE "OPEN"
    PROVE  [Legal!Next]_(Legal!legalVars)
<1>1. LedgerIsRead /\ LedgerIsRead'
  BY ReadLedger, ReadLedgerNext
<1>2. \A n : Sourced(n)' = Sourced(n)
  BY DEF SourcesStand, Sourced
<1>3. /\ dte_documents'[d] = row /\ codigo_generacion'[d] = k
      /\ \A e \in Docs \ {d} : /\ dte_documents'[e] = dte_documents[e]
                               /\ codigo_generacion'[e] = codigo_generacion[e]
  BY DEF IInv, TypeOK
<1>4. \A e \in Docs \ {d} :
         /\ codigo_generacion[e] = codigo_generacion[d] => codigo_generacion[d] \notin NewCodes
         /\ codigo_generacion[e] = k => k \notin NewCodes
  <2> TAKE e \in Docs \ {d}
  <2>1. Placed(codigo_generacion[e], e) /\ Placed(codigo_generacion[d], d)
    BY DEF IInv, Places
  <2> QED BY <2>1 DEF Placed, NewCodes
<1>5. \A n \in NewCodes : LedgerOf(n)' = LedgerOf(n)
  <2> TAKE n \in NewCodes
  <2>1. CASE n = k
    <3>1. ~Carried(n)
      BY <1>4, <2>1 DEF Carried
    <3>2. LedgerOf(n)' = Entry(row.status)
      BY <1>1, <1>3, <2>1 DEF LedgerIsRead, Entry
    <3> QED BY <1>1, <2>1, <3>1, <3>2 DEF LedgerIsRead
  <2>2. CASE n = codigo_generacion[d]
    <3>1. ~Carried(n)'
      BY <1>3, <1>4, <2>2 DEF Carried
    <3>2. LedgerOf(n)' = IF Sourced(n) THEN "RECHAZADO" ELSE "OPEN"
      BY <1>1, <1>2, <3>1 DEF LedgerIsRead
    <3> QED BY <1>1, <2>2, <3>2 DEF LedgerIsRead
  <2>3. CASE n # k /\ n # codigo_generacion[d]
    <3>1. CASE Carried(n)
      <4>1. PICK e \in Docs \ {d} : codigo_generacion[e] = n
        BY <2>3, <3>1 DEF Carried
      <4> QED BY <1>1, <1>3, <4>1 DEF LedgerIsRead, Entry
    <3>2. CASE ~Carried(n)
      <4>1. ~Carried(n)'
        BY <1>3, <2>3, <3>2 DEF Carried
      <4> QED BY <1>1, <1>2, <3>2, <4>1 DEF LedgerIsRead
    <3> QED BY <3>1, <3>2
  <2> QED BY <2>1, <2>2, <2>3
<1> QED BY <1>5 DEF Legal!legalVars, mhVars

LEMMA PrepareIsLegal ==
    ASSUME IInv, IInv', NEW r \in Runs, Prepare(r)
    PROVE  [Legal!Next]_(Legal!legalVars)
<1> DEFINE c       == run[r].correction
           enabled == prepareClaimedFiscalCorrectionDocumentEnabled(
                          Correction(r), c, run[r].token, Document(r))
           row     == prepareClaimedFiscalCorrectionDocument(Document(r))
<1>1. run[r].pc \in CorrectionPCs
  BY Plain DEF Prepare, At
<1>2. PICK d \in Docs : d = run[r].document
  BY <1>1, OfCorrection
<1>3. c \in Corrections /\ Document(r) = dte_documents[d] /\ dte_documents[d] \in DteRow
  BY <1>1, <1>2, OfCorrection DEF Document
<1>4. SourcesStand /\ UNCHANGED mhVars
  BY OthersKeepSources DEF Prepare
<1>5. CASE ~enabled
  <2>1. UNCHANGED <<docVars, mhVars>>
    BY <1>5 DEF Prepare
  <2> QED BY <1>4, <2>1, SilentStep
<1>6. CASE enabled
  <2>1. /\ dte_documents' = [dte_documents EXCEPT ![d] = row]
        /\ codigo_generacion' = [codigo_generacion EXCEPT ![d] = c]
    BY <1>2, <1>6 DEF Prepare, SetDocument
  <2>2. dte_documents[d].status = "REJECTED" /\ dte_documents[d].op_claim = c
    BY <1>3, <1>6 DEF prepareClaimedFiscalCorrectionDocumentEnabled, Held
  <2>3. /\ fiscal_corrections[c].kind = "DTE_DOCUMENT" /\ fiscal_corrections[c].document = d
        /\ fiscal_corrections[c].source.codigo = codigo_generacion[d]
        /\ posts[c] = 0
    BY <1>3, <2>2 DEF IInv, Rows, Replaced
  <2>4. c # codigo_generacion[d] /\ c \in NewCodes /\ Placed(c, d)
    BY <1>3, <2>3, Names DEF IInv, Places, Placed
  <2>5. Sourced(codigo_generacion[d]) /\ ~Sourced(c)
    BY <1>3, <2>3, <2>4, UnsentIsNoSource DEF Sourced
  <2>6. row.status = "SIGNED"
    BY <1>3 DEF prepareClaimedFiscalCorrectionDocument, DteRow
  <2>7. Entry(dte_documents[d].status) = "RECHAZADO" /\ Entry(row.status) = "OPEN"
    BY <2>2, <2>6 DEF Entry
  <2> HIDE DEF row
  <2> QED BY <1>4, <2>1, <2>4, <2>5, <2>7, Rewritten
<1> QED BY <1>5, <1>6

LEMMA RetireIsLegal ==
    ASSUME IInv, IInv', NEW r \in Runs, Retire(r)
    PROVE  [Legal!Next]_(Legal!legalVars)
<1> DEFINE c       == run[r].correction
           x       == Correction(r)
           enabled == retireDirectEnabled(x, c, run[r].token, Document(r), Codigo(r))
           row     == RestoredDocument(x, Document(r))
<1>1. run[r].pc \in CorrectionPCs
  BY Plain DEF Retire, At
<1>2. PICK d \in Docs : d = run[r].document
  BY <1>1, OfCorrection
<1>3. /\ c \in Corrections /\ x \in CorrectionRow /\ x = fiscal_corrections[c] /\ x.kind # "NONE"
      /\ x.document = d /\ Document(r) = dte_documents[d] /\ dte_documents[d] \in DteRow
      /\ Codigo(r) = codigo_generacion[d]
  BY <1>1, <1>2, OfCorrection DEF Document, Correction, Codigo
<1>4. SourcesStand /\ UNCHANGED mhVars
  BY SettlersKeepSources DEF Retire
<1>5. CASE ~enabled
  <2>1. UNCHANGED <<docVars, mhVars>>
    BY <1>4, <1>5 DEF Retire
  <2> QED BY <1>4, <2>1, SilentStep
<1>6. CASE enabled
  <2> DEFINE k == x.source.codigo
  <2>1. /\ dte_documents' = [dte_documents EXCEPT ![d] = row]
        /\ codigo_generacion' = [codigo_generacion EXCEPT ![d] = k]
    BY <1>2, <1>6 DEF Retire, SetDocument
  <2>2. /\ ~fiscal_corrections[c].dispatched /\ dte_documents[d].op_claim = c
        /\ \/ dte_documents[d].status = "REJECTED"
           \/ dte_documents[d].status = "SIGNED" /\ codigo_generacion[d] = c
    BY <1>3, <1>6 DEF retireDirectEnabled, Held
  <2>3. row.status = "REJECTED"
    BY <1>3 DEF RestoredDocument, WithoutOperation, DteRow
  <2> HIDE DEF row
  <2>4. CASE dte_documents[d].status = "REJECTED"
    <3>1. k = codigo_generacion[d]
      BY <1>3, <2>2, <2>4 DEF IInv, Rows, Replaced
    <3>2. UNCHANGED codigo_generacion
      BY <2>1, <3>1 DEF IInv, TypeOK
    <3> QED BY <1>4, <2>1, <2>3, <2>4, <3>2, RowRuled
  <2>5. CASE dte_documents[d].status = "SIGNED" /\ codigo_generacion[d] = c
    <3>1. Placed(k, d) /\ k # c
      BY <1>3 DEF IInv, Places
    <3>2. Sourced(k)
      BY <1>3 DEF Sourced
    <3>3. Truthful(d) /\ ~Terminal(d) /\ c \in NewCodes
      BY <1>3, <2>5, Names DEF IInv, Rows, Terminal, isTerminalDteStatus, TerminalStatus
    <3>4. posts[c] = 0
      BY <1>3, <2>2, <2>5, <3>3 DEF Truthful, IInv, TypeOK
    <3>5. ~Sourced(c)
      BY <3>3, <3>4, UnsentIsNoSource
    <3>6. Entry(dte_documents[d].status) = "OPEN" /\ Entry(row.status) = "RECHAZADO"
      BY <2>3, <2>5 DEF Entry
    <3> HIDE DEF k
    <3> QED BY <1>4, <2>1, <2>5, <3>1, <3>2, <3>5, <3>6, Rewritten
  <2> QED BY <2>2, <2>4, <2>5
<1> QED BY <1>5, <1>6

LEMMA SameLedger ==
    ASSUME UNCHANGED tableVars, NEW k \in NewCodes
    PROVE  LedgerOf(k)' = LedgerOf(k)
  BY DEF LedgerOf, DocumentOf, tableVars, docVars

\* The POST.
LEMMA PostIsLegal ==
    ASSUME IInv, NEW r \in Runs, Post(r) \/ TxPost(r)
    PROVE  [Legal!Next]_(Legal!legalVars)
<1>1. run[r].pc \in SendPCs \cup TxPCs /\ run[r].pc \in {"dispatch", "tx_dispatch"}
  BY DEF Post, TxPost, At, SendPCs, TxPCs
<1>2. Knows(r) /\ run[r].codigo \in NewCodes
  BY <1>1, OfSender
<1>3. PICK k \in NewCodes : k = run[r].codigo
  BY <1>2
<1>4. posts[k] = 0 /\ recepcion[k] = "NONE"
  BY <1>1, <1>2, <1>3 DEF Knows, IInv, Posts
<1>5. /\ posts' = [posts EXCEPT ![k] = @ + 1]
      /\ recepcion' = [recepcion EXCEPT ![k] = IF @ = "NONE" THEN "IN_FLIGHT" ELSE @]
      /\ UNCHANGED <<tableVars, annulled>>
  BY <1>3 DEF Post, TxPost, Submit
<1>6. /\ posts'[k] = 1 /\ recepcion'[k] = "IN_FLIGHT"
      /\ \A n \in NewCodes \ {k} : posts'[n] = posts[n] /\ recepcion'[n] = recepcion[n]
  BY <1>4, <1>5 DEF IInv, TypeOK
<1>7. k \notin {n \in NewCodes : posts[n] > 0}
  BY <1>4
<1>8. {n \in NewCodes : posts'[n] > 0} = {n \in NewCodes : posts[n] > 0} \cup {k}
  BY <1>6
<1>9. [n \in NewCodes |-> IF recepcion'[n] = "IN_FLIGHT" THEN "NONE" ELSE recepcion'[n]]
        = [n \in NewCodes |-> IF recepcion[n] = "IN_FLIGHT" THEN "NONE" ELSE recepcion[n]]
  BY <1>4, <1>6
<1>10. \A n \in NewCodes : LedgerOf(n)' = LedgerOf(n)
  BY <1>5, SameLedger
<1>11. Legal!Submit(k)
  BY <1>5, <1>7, <1>8, <1>9, <1>10 DEF Legal!Submit
<1> QED BY <1>11 DEF Legal!Next

\* MH takes what was sent for its verdict.
LEMMA MhDecidesIsLegal ==
    ASSUME IInv, NEW k \in NewCodes, NEW verdict \in {"PROCESADO", "RECHAZADO"},
           MhDecides(k, verdict)
    PROVE  [Legal!Next]_(Legal!legalVars)
<1>1. /\ recepcion[k] = "IN_FLIGHT" /\ recepcion' = [recepcion EXCEPT ![k] = verdict]
      /\ UNCHANGED <<tableVars, posts, annulled>>
  BY DEF MhDecides
<1>2. posts[k] > 0
  BY <1>1 DEF IInv, Posts, TypeOK
<1>3. recepcion'[k] = verdict /\ \A n \in NewCodes \ {k} : recepcion'[n] = recepcion[n]
  BY <1>1 DEF IInv, TypeOK
<1>4. [n \in NewCodes |-> IF recepcion'[n] = "IN_FLIGHT" THEN "NONE" ELSE recepcion'[n]]
        = [[n \in NewCodes |-> IF recepcion[n] = "IN_FLIGHT" THEN "NONE" ELSE recepcion[n]]
             EXCEPT ![k] = verdict]
  BY <1>3
<1>5. \A n \in NewCodes : LedgerOf(n)' = LedgerOf(n)
  BY <1>1, SameLedger
<1>6. Legal!Decide(k, verdict)
  BY <1>1, <1>2, <1>4, <1>5 DEF Legal!Decide
<1> QED BY <1>6 DEF Legal!Next

\* MH is asked for the annulment of what it has accepted.
LEMMA InvPostIsLegal ==
    ASSUME IInv, NEW r \in Runs, InvPost(r)
    PROVE  [Legal!Next]_(Legal!legalVars)
<1>1. run[r].pc = "inv_post" /\ Works(r) /\ Knows(r)
  BY DEF InvPost, At, IInv, RunsKnow
<1>2. run[r].document \in Docs /\ Annuls(r)
  BY <1>1 DEF Works, Knows, InvPCs
<1>3. PICK d \in Docs : d = run[r].document
  BY <1>2
<1>4. dte_documents[d].status = "ACCEPTED" /\ codigo_generacion[d] = run[r].codigo
  BY <1>2, <1>3 DEF Annuls
<1>5. run[r].codigo \in NewCodes
  BY <1>4 DEF IInv, TypeOK, Places, Placed, Codes, NewCodes
<1>6. PICK k \in NewCodes : k = run[r].codigo
  BY <1>5
<1>7. UNCHANGED <<tableVars, posts, recepcion>>
  BY DEF InvPost
<1>8. \A n \in NewCodes : LedgerOf(n)' = LedgerOf(n)
  BY <1>7, SameLedger
<1>9. LedgerOf(k) = "PROCESADO"
  BY <1>4, <1>6, ReadLedger DEF LedgerIsRead, Entry
<1>10. annulled' = annulled \/ annulled' = annulled \cup {k}
  BY <1>6 DEF InvPost
<1>11. CASE annulled' = annulled
  BY <1>7, <1>8, <1>11 DEF Legal!legalVars
<1>12. CASE annulled' = annulled \cup {k} /\ k \notin annulled
  <2>1. Legal!Annul(k)
    BY <1>7, <1>8, <1>9, <1>12 DEF Legal!Annul
  <2> QED BY <2>1 DEF Legal!Next
<1> QED BY <1>10, <1>11, <1>12

LEMMA RunStepIsLegal ==
    ASSUME IInv, IInv', NEW r \in Runs, Step(r)
    PROVE  [Legal!Next]_(Legal!legalVars)
BY SilentStepIsLegal, DeliveryRowIsLegal, OtherRowIsLegal, PrepareIsLegal, RetireIsLegal,
   PostIsLegal, InvPostIsLegal DEF Step

LEMMA EveryStepIsLegal ==
    ASSUME IInv, IInv', [Next]_vars
    PROVE  [Legal!Next]_(Legal!legalVars)
<1>1. CASE UNCHANGED vars
  <2>1. UNCHANGED <<docVars, mhVars>> /\ SourcesStand
    BY <1>1, OthersKeepSources DEF vars, docVars, mhVars
  <2> QED BY <2>1, SilentStep
<1>2. CASE CalmNext
  <2>1. CASE \E r \in Runs : Step(r)
    BY <2>1, RunStepIsLegal
  <2>2. CASE \E r \in Runs, c \in Corrections, d \in Docs, t \in Tokens :
               RequestCorrection(r, c, d, t) \/ RequestPayment(r, c, d, t)
    BY <2>2, RequestIsLegal, StartIsLegal
  <2>3. CASE \E r \in Runs, t \in Tokens : Deliver(r, t) \/ DeadDeliver(r, t)
    BY <2>3, StartIsLegal
  <2>4. CASE \E r \in Runs, c \in Corrections : StartRecovery(r, c)
    BY <2>4, StartIsLegal
  <2>5. CASE \E r \in Runs, d \in Docs :
               StartTransmit(r, d) \/ StartInvalidate(r, d) \/ StartIssue(r, d)
    BY <2>5, StartIsLegal, OtherRowIsLegal
  <2>6. CASE \E c \in Corrections : RecoverVerdict(c) \/ (GoesStale(c) /\ Unattended(c))
    BY <2>6, StartIsLegal
  <2>7. CASE \E k \in NewCodes, verdict \in {"PROCESADO", "RECHAZADO"} : MhDecides(k, verdict)
    BY <2>7, MhDecidesIsLegal
  <2>8. CASE \E d \in Docs : \/ FinalizeByCron(d) \/ SignElsewhere(d)
                             \/ RetryIssuance(d) \/ SweepIssuance(d)
    BY <2>8, OtherRowIsLegal, StartIsLegal
  <2> QED BY <1>2, <2>1, <2>2, <2>3, <2>4, <2>5, <2>6, <2>7, <2>8 DEF CalmNext
<1>3. CASE \E r \in Runs : StatementThrows(r) \/ Crash(r)
  BY <1>3, SilentStepIsLegal
<1>4. CASE \E c \in Corrections : GoesStale(c)
  BY <1>4, StartIsLegal
<1> QED BY <1>1, <1>2, <1>3, <1>4 DEF Next

LEMMA BeginsLegal == Init => Legal!Init
<1> SUFFICES ASSUME Init PROVE Legal!Init
  OBVIOUS
<1>1. IInv /\ LedgerIsRead
  BY InitInv, ReadLedger
<1>2. /\ posts = [k \in NewCodes |-> 0] /\ recepcion = [k \in NewCodes |-> "NONE"]
      /\ annulled = {}
      /\ fiscal_corrections = [c \in Corrections |-> NoCorrection]
  BY DEF Init
<1>3. \A k \in NewCodes : LedgerOf(k) = "OPEN"
  <2> TAKE k \in NewCodes
  <2>1. ~Sourced(k)
    BY <1>2, Names DEF Sourced, NoCorrection
  <2>2. ASSUME NEW d \in Docs, codigo_generacion[d] = k
        PROVE  Entry(dte_documents[d].status) = "OPEN"
    <3>1. PICK kind \in [Docs -> Kinds] :
             /\ dte_documents = [e \in Docs |-> IF kind[e] = "PAYMENT" THEN createDteDocument
                                                                       ELSE RejectedDocument(e)]
             /\ codigo_generacion = [e \in Docs |-> IF kind[e] = "PAYMENT" THEN e ELSE NULL]
      BY DEF Init
    <3>2. dte_documents[d] = createDteDocument
      BY <2>2, <3>1, Names
    <3>3. createDteDocument.status = "PENDING"
      BY DEF createDteDocument
    <3> QED BY <3>2, <3>3 DEF Entry
  <2> QED BY <1>1, <2>1, <2>2 DEF LedgerIsRead, Carried
<1>4. {k \in NewCodes : posts[k] > 0} = {}
  BY <1>2
<1>5. [k \in NewCodes |-> IF recepcion[k] = "IN_FLIGHT" THEN "NONE" ELSE recepcion[k]]
        = [k \in NewCodes |-> "NONE"]
  BY <1>2
<1> QED BY <1>2, <1>3, <1>4, <1>5 DEF Legal!Init

\* The handlers of FiscalCorrections implement LegalSubmission for every codigo that a
\* correction or a payment brings into the world, also after its row was rewritten or put
\* back: it is submitted once, its ledger entry is MH's own verdict, and only an annulment
\* that MH has granted changes that entry afterwards.
THEOREM HandlersAreLegal == Spec => LegalSpec
<1>1. Init => Legal!Init
  BY BeginsLegal
<1>2. IInv /\ IInv' /\ [Next]_vars => [Legal!Next]_(Legal!legalVars)
  BY EveryStepIsLegal
<1> QED BY <1>1, <1>2, InvariantHolds, PTL DEF Spec, LegalSpec, Legal!Spec

-----------------------------------------------------------------------------
(* A second invariant: whose a document is while its correction is open.   *)

Open(c) == fiscal_corrections[c].status \in OpenStatus

NoRivals ==
    \A c, o \in Corrections :
       /\ c # o
       /\ fiscal_corrections[c].document = fiscal_corrections[o].document
       /\ Open(c)
       => ~Blocks(fiscal_corrections[o])

\* A document that a correction claims is claimed for transmission.
HeldRows ==
    \A d \in Docs : LET row == dte_documents[d] IN
       row.op_claim \in Corrections => Held(row, row.op_claim)

\* The CDE of a payment exists, or the document is no payment's.
Exists(event) == event.document \/ (~event.received /\ event.status = "NONE")

Made(d) == Exists(wompi_events[d])

\* A CDE that does not exist yet stands in its table as it will be inserted.
Unmade == \A d \in Docs : ~Made(d) => dte_documents[d] = createDteDocument /\ codigo_generacion[d] = d

\* Where a delivery has a CDE in its hands that need not be claimed.
MadePCs == {"transmit", "sign", "sign_held", "unsigned"}

Making == \A r \in Runs : run[r].pc \in MadePCs => Made(run[r].document)

\* An open correction of a document: unless it may have sent its codigo, it
\* holds the document, which has its codigo once it is signed.
HoldsDocument(c, row, k) ==
    LET x == fiscal_corrections[c] IN
    IF x.dispatched
      THEN k = c
      ELSE /\ row.status \in {"REJECTED", "SIGNED"}
           /\ Held(row, c)
           /\ row.status = "SIGNED" => k = c

\* An open correction of a payment: nobody else can claim the CDE, which has no
\* verdict as long as nothing was sent.
HoldsPayment(c, row) ==
    /\ isTerminalDteStatus(row.status) \/ row.op_claim \in {NULL, c}
    /\ fiscal_corrections[c].dispatched \/ ~isTerminalDteStatus(row.status)

OfEvent(c) == fiscal_corrections[c].kind = "WOMPI_EVENT"

Working(event) == W!Queued(event) \/ event.status = "DOCUMENT_CREATED"

HoldsRow(c) ==
    LET d   == fiscal_corrections[c].document
        row == dte_documents[d]
        k   == codigo_generacion[d]
    IN
    IF OfEvent(c) THEN HoldsPayment(c, row) /\ k = d ELSE HoldsDocument(c, row, k)

HoldsEvent(c) ==
    LET event == wompi_events[fiscal_corrections[c].document] IN
    OfEvent(c) => event.attempt = c /\ Working(event)

Unposted(c) == ~fiscal_corrections[c].dispatched => posts[CodigoOf(c)] = 0

\* A delivery that knows that nothing was sent has what it needs to go back.
GoesBack(r) ==
    LET d   == run[r].document
        row == dte_documents[d]
    IN
    IF OfPayment(r)
      THEN posts[d] = 0 /\ ~isTerminalDteStatus(row.status)
      ELSE row.status = "SIGNED" /\ Held(row, run[r].correction)
             /\ codigo_generacion[d] = run[r].correction

Openings == \A c \in Corrections : Open(c) => HoldsRow(c) /\ HoldsEvent(c) /\ Unposted(c)

Backed(r) ==
    /\ At(r, "undo") => OfPayment(r)
    /\ Undispatched(r) /\ Open(run[r].correction) => GoesBack(r)

Backing == \A r \in Runs : Backed(r)

JInv == NoRivals /\ HeldRows /\ Unmade /\ Making /\ Openings /\ Backing

\* How a correction may change once it is there.
Ages(x, y) ==
    /\ y.kind = x.kind /\ y.document = x.document
    /\ y.status = x.status \/ x.status \in OpenStatus

OnlyAges == \A c \in Corrections : Ages(fiscal_corrections[c], fiscal_corrections'[c])

LEMMA AgesStatements ==
    ASSUME NEW x \in CorrectionRow
    PROVE  /\ Ages(x, x)
           /\ \A b : Ages(x, [x EXCEPT !.dispatched = b])
           /\ \A b : Ages(x, [x EXCEPT !.stale = b])
           /\ Ages(x, Renewed(x)) /\ \A n : Ages(x, [Renewed(x) EXCEPT !.number = n])
           /\ x.status \in OpenStatus => /\ \A status : Ages(x, Finalized(x, status))
                                         /\ Ages(x, claimFiscalCorrectionProcessing(x))
                                         /\ \A t : Ages(x, recoverFiscalCorrectionProcessingClaim(x, t))
  BY DEF Ages, CorrectionRow, Renewed, Finalized, claimFiscalCorrectionProcessing,
         recoverFiscalCorrectionProcessingClaim

LEMMA RivalsStay ==
    ASSUME NoRivals, OnlyAges
    PROVE  NoRivals' /\ \A c \in Corrections : Open(c)' => Open(c)
  BY DEF NoRivals, OnlyAges, Ages, Open, Blocks

\* Every statement that a handler runs on its correction.
LEMMA HandlersAge ==
    ASSUME IInv, NEW r \in Runs,
           \/ ClaimProcessing(r) \/ Reconcile(r) \/ Review(r) \/ Error(r) \/ Clear(r) \/ Finish(r)
           \/ Reserve(r) \/ RenewLease(r) \/ MarkDispatch(r) \/ Recover(r) \/ Fail(r) \/ Retire(r)
    PROVE  OnlyAges
<1> DEFINE x == Correction(r)
<1>1. run[r].pc \in CorrectionPCs
  BY Plain DEF ClaimProcessing, Reconcile, Review, Error, Clear, Finish, Reserve, RenewLease,
               MarkDispatch, Recover, Fail, Retire, At
<1>2. x \in CorrectionRow /\ run[r].correction \in Corrections
  BY <1>1, OfCorrection
<1>3. /\ Ages(x, x) /\ (\A b : Ages(x, [x EXCEPT !.dispatched = b]))
      /\ Ages(x, Renewed(x)) /\ (\A n : Ages(x, [Renewed(x) EXCEPT !.number = n]))
      /\ x.status \in OpenStatus => /\ \A status : Ages(x, Finalized(x, status))
                                    /\ Ages(x, claimFiscalCorrectionProcessing(x))
                                    /\ \A t : Ages(x, recoverFiscalCorrectionProcessingClaim(x, t))
  BY <1>2, AgesStatements
<1>4. \E y : Ages(x, y) /\ (SetCorrection(r, y) \/ (UNCHANGED fiscal_corrections /\ y = x))
  <2>1. CASE ClaimProcessing(r)
    BY <1>3, <2>1 DEF ClaimProcessing, claimFiscalCorrectionProcessingEnabled, OpenStatus
  <2>2. CASE Review(r)
    BY <1>3, <2>2 DEF Review, finalizeReviewEnabled, Owned, OpenStatus
  <2>3. CASE Reconcile(r) \/ Error(r) \/ Finish(r)
    BY <1>3, <2>3 DEF Reconcile, Error, Finish, SettleVerdict, VerdictEnabled, finalizeVerdictEnabled,
                      Owned, OpenStatus
  <2>4. CASE Clear(r) \/ MarkDispatch(r)
    <3>1. PICK b : SetCorrection(r, [x EXCEPT !.dispatched = b])
      BY <1>2, <2>4 DEF Clear, MarkDispatch, CorrectionRow
    <3> QED BY <1>3, <3>1
  <2>5. CASE Reserve(r) \/ RenewLease(r)
    BY <1>3, <2>5 DEF Reserve, RenewLease
  <2>6. CASE Recover(r)
    BY <1>3, <2>6 DEF Recover, recoverFiscalCorrectionProcessingClaimEnabled
  <2>7. CASE Fail(r)
    BY <1>3, <2>7 DEF Fail, finalizeWompiFailureEnabled, finalizeFailedEnabled, Owned, OpenStatus
  <2>8. CASE Retire(r)
    BY <1>3, <2>8 DEF Retire, retireDirectEnabled, Owned, OpenStatus
  <2> QED BY <2>1, <2>2, <2>3, <2>4, <2>5, <2>6, <2>7, <2>8
<1>5. \A c \in Corrections : Ages(fiscal_corrections[c], fiscal_corrections[c])
  BY AgesStatements, Typed DEF IInv
<1> QED BY <1>2, <1>4, <1>5 DEF OnlyAges, SetCorrection, Correction, IInv, TypeOK

LEMMA OthersAge ==
    ASSUME IInv, UNCHANGED fiscal_corrections \/ \E c \in Corrections : RecoverVerdict(c) \/ GoesStale(c)
    PROVE  OnlyAges
<1>1. \A c \in Corrections :
         /\ fiscal_corrections[c] \in CorrectionRow
         /\ Ages(fiscal_corrections[c], fiscal_corrections[c])
  BY AgesStatements, Typed DEF IInv
<1>2. CASE UNCHANGED fiscal_corrections
  BY <1>1, <1>2 DEF OnlyAges
<1>3. ASSUME NEW c \in Corrections, RecoverVerdict(c) \/ GoesStale(c)
      PROVE  OnlyAges
  <2>1. PICK y : /\ fiscal_corrections' = [fiscal_corrections EXCEPT ![c] = y]
                 /\ Ages(fiscal_corrections[c], y)
    <3>1. CASE RecoverVerdict(c)
      BY <1>1, <3>1, AgesStatements DEF RecoverVerdict, RecoverableVerdict, finalizeVerdictEnabled,
                                        Owned, OpenStatus
    <3>2. CASE GoesStale(c)
      <4>1. fiscal_corrections' = [fiscal_corrections EXCEPT
                                     ![c] = [fiscal_corrections[c] EXCEPT !.stale = TRUE]]
        BY <3>2 DEF GoesStale, IInv, TypeOK
      <4> QED BY <1>1, <4>1, AgesStatements
    <3> QED BY <1>3, <3>1, <3>2
  <2> QED BY <1>1, <2>1 DEF OnlyAges, IInv, TypeOK
<1> QED BY <1>2, <1>3

\* A request finds the document without a correction.
LEMMA RequestAlone ==
    ASSUME IInv, NEW r \in Runs, NEW c \in Corrections, NEW d \in Docs, NEW t \in Tokens,
           RequestCorrection(r, c, d, t) \/ RequestPayment(r, c, d, t)
    PROVE  /\ fiscal_corrections[c].status = "NONE"
           /\ \A o \in Corrections : fiscal_corrections[o].document = d => ~Blocks(fiscal_corrections[o])
           /\ \A o \in Corrections \ {c} : fiscal_corrections'[o] = fiscal_corrections[o]
           /\ fiscal_corrections'[c].document = d /\ fiscal_corrections'[c].status = "QUEUED"
           /\ ~fiscal_corrections'[c].dispatched
<1>1. fiscal_corrections \in [Corrections -> CorrectionRow] /\ fiscal_corrections[c] = NoCorrection
  BY DEF IInv, TypeOK, RequestCorrection, RequestPayment
<1>2. \A x \in {fiscal_corrections[o] : o \in {o \in Corrections : fiscal_corrections[o].document = d}} :
         ~Blocks(x)
  BY DEF RequestCorrection, RequestPayment, claimDocumentFiscalCorrectionEnabled,
         claimWompiFiscalCorrectionEnabled
<1>3. PICK y : /\ fiscal_corrections' = [fiscal_corrections EXCEPT ![c] = y]
               /\ y.document = d /\ y.status = "QUEUED" /\ ~y.dispatched
  <2> DEFINE ofDocument == claimDocumentFiscalCorrection(dte_documents[d], d, t, codigo_generacion[d])
             ofPayment  == claimWompiFiscalCorrection(d, t)
  <2>1. /\ ofDocument.document = d /\ ofDocument.status = "QUEUED" /\ ~ofDocument.dispatched
        /\ ofPayment.document = d /\ ofPayment.status = "QUEUED" /\ ~ofPayment.dispatched
    BY DEF claimDocumentFiscalCorrection, claimWompiFiscalCorrection, NoCorrection
  <2>2. \/ fiscal_corrections' = [fiscal_corrections EXCEPT ![c] = ofDocument]
        \/ fiscal_corrections' = [fiscal_corrections EXCEPT ![c] = ofPayment]
    BY DEF RequestCorrection, RequestPayment
  <2> QED BY <2>1, <2>2
<1> QED BY <1>1, <1>2, <1>3 DEF NoCorrection

LEMMA RequestRivals ==
    ASSUME IInv, NoRivals, NEW r \in Runs, NEW c \in Corrections, NEW d \in Docs, NEW t \in Tokens,
           RequestCorrection(r, c, d, t) \/ RequestPayment(r, c, d, t)
    PROVE  NoRivals'
<1>1. \A o \in Corrections \ {c} : fiscal_corrections[o].document = d => ~Open(o)
  BY RequestAlone DEF Open, Blocks
<1> QED BY <1>1, RequestAlone DEF NoRivals, Open

-----------------------------------------------------------------------------
(* How a handler moves, once more.                                         *)

\* Only r moves, and not to where the second invariant speaks of it.
Passes(r) ==
    /\ \A o \in Runs \ {r} : run'[o] = run[o]
    /\ run'[r].pc \notin MadePCs \cup {"undo"}
    /\ ~Undispatched(r)'

\* Only r moves, and goes on with the same work.
Turns(r, pc, error) ==
    /\ \A o \in Runs \ {r} : run'[o] = run[o]
    /\ run'[r].pc = pc /\ run'[r].error = error
    /\ run'[r].correction = run[r].correction
    /\ run'[r].document = run[r].document

LEMMA GotoTurns ==
    ASSUME IInv, NEW r \in Runs, NEW pc, Goto(r, pc)
    PROVE  Turns(r, pc, run[r].error)
<1>1. run[r] \in RunState /\ run \in [Runs -> RunState]
  BY DEF IInv, TypeOK
<1>2. run' = [run EXCEPT ![r] = [run[r] EXCEPT !.pc = pc]]
  BY <1>1 DEF Goto
<1> QED BY <1>1, <1>2 DEF Turns, RunState

LEMMA RaiseTurns ==
    ASSUME IInv, NEW r \in Runs, NEW error, RaiseError(r, error)
    PROVE  Turns(r, "error", error)
<1>1. run[r] \in RunState /\ run \in [Runs -> RunState]
  BY DEF IInv, TypeOK
<1>2. run' = [run EXCEPT ![r] = [run[r] EXCEPT !.pc = "error", !.error = error]]
  BY <1>1 DEF RaiseError
<1> QED BY <1>1, <1>2 DEF Turns, RunState

LEMMA ReleaseTurns ==
    ASSUME IInv, NEW r \in Runs, NEW error, Release(r, error)
    PROVE  Turns(r, "release", error)
<1>1. run[r] \in RunState /\ run \in [Runs -> RunState]
  BY DEF IInv, TypeOK
<1>2. run' = [run EXCEPT ![r] = [run[r] EXCEPT !.pc = "release", !.error = error]]
  BY <1>1 DEF Release
<1> QED BY <1>1, <1>2 DEF Turns, RunState

LEMMA FailInvalidTurns ==
    ASSUME IInv, NEW r \in Runs, FailInvalid(r)
    PROVE  Turns(r, "fail", run[r].error)
<1>1. run[r] \in RunState /\ run \in [Runs -> RunState]
  BY DEF IInv, TypeOK
<1>2. run' = [run EXCEPT ![r] = [run[r] EXCEPT !.pc = "fail", !.seen = run[r].token]]
  BY <1>1 DEF FailInvalid
<1> QED BY <1>1, <1>2 DEF Turns, RunState

LEMMA TurnPasses ==
    ASSUME NEW r \in Runs, NEW pc, NEW error, Turns(r, pc, error),
           pc \notin MadePCs \cup {"undo"},
           pc \notin {"error", "clear"} \/ error # "PRE_DISPATCH"
    PROVE  Passes(r)
  BY DEF Turns, Passes, Undispatched

LEMMA Passing ==
    ASSUME IInv, NEW r \in Runs,
           \/ Ack(r) \/ Redeliver(r) \/ Return(r) \/ Throw(r)
           \/ \E pc : pc \notin MadePCs \cup {"undo", "error", "clear"} /\ Goto(r, pc)
           \/ \E error : error # "PRE_DISPATCH" /\ RaiseError(r, error)
           \/ FailInvalid(r)
           \/ \E error : Release(r, error)
    PROVE  Passes(r)
<1>1. Return(r) => Passes(r)
  BY DEF Return, Passes, IdleRun, MadePCs, Undispatched, IInv, TypeOK
<1>2. "handler" \notin MadePCs \cup {"undo", "error", "clear"}
        /\ "error" \notin MadePCs \cup {"undo"}
        /\ "release" \notin MadePCs \cup {"undo", "error", "clear"}
        /\ "fail" \notin MadePCs \cup {"undo", "error", "clear"}
  BY DEF MadePCs
<1>3. \A pc : pc \notin MadePCs \cup {"undo", "error", "clear"} /\ Goto(r, pc) => Passes(r)
  BY GotoTurns, TurnPasses
<1>4. \A error : error # "PRE_DISPATCH" /\ RaiseError(r, error) => Passes(r)
  BY <1>2, RaiseTurns, TurnPasses
<1>5. \A error : Release(r, error) => Passes(r)
  BY <1>2, ReleaseTurns, TurnPasses
<1>6. FailInvalid(r) => Passes(r)
  BY <1>2, FailInvalidTurns, TurnPasses
<1> QED BY <1>1, <1>2, <1>3, <1>4, <1>5, <1>6 DEF Ack, Redeliver, Throw

\* Each of these ends, or leads to where the second invariant is silent.
LEMMA SettlersPass ==
    ASSUME IInv, NEW r \in Runs,
           \/ Send(r) \/ DeadLoad(r) \/ Handler(r)
           \/ Load(r) \/ ClaimProcessing(r) \/ Reload(r) \/ Reconcile(r) \/ Review(r)
           \/ Clear(r) \/ Fail(r) \/ Retire(r) \/ Reserve(r) \/ RenewLease(r) \/ Finish(r)
           \/ Recover(r)
    PROVE  Passes(r)
<1> DEFINE quiet == MadePCs \cup {"undo", "error", "clear"}
<1>1. \A pc \in {"load", "claim", "reload", "reconcile", "event", "read", "review", "fail", "handler",
                 "renew", "prepare", "send"} : pc \notin quiet
  BY DEF MadePCs
<1>2. \/ Ack(r) \/ Redeliver(r) \/ Return(r) \/ Throw(r)
      \/ \E pc : pc \notin quiet /\ Goto(r, pc)
      \/ \E error : error # "PRE_DISPATCH" /\ RaiseError(r, error)
      \/ Recover(r) /\ ~Return(r)
  <2>1. CASE Send(r) \/ DeadLoad(r) \/ Handler(r)
    BY <1>1, <2>1 DEF Send, DeadLoad, Handler, Proceed
  <2>2. CASE Load(r) \/ Reload(r)
    <3>1. run[r].pc \in CorrectionPCs
      BY Plain, <2>2 DEF Load, Reload, At
    <3>2. Correction(r).status \in {"QUEUED", "PROCESSING"} \/ IsTerminal(Correction(r))
      BY <3>1, OfCorrection DEF CorrectionRow, OpenStatus, IsTerminal
    <3>3. \/ Correction(r).token # run[r].token
          \/ Correction(r).token = run[r].token /\ IsTerminal(Correction(r))
          \/ Correction(r).token = run[r].token /\ Correction(r).status = "QUEUED"
          \/ Owned(Correction(r), run[r].token) /\ Correction(r).dispatched
          \/ Owned(Correction(r), run[r].token) /\ ~Correction(r).dispatched
      BY <3>2 DEF Owned
    <3>4. \/ Throw(r) \/ Ack(r) \/ Proceed(r, "claim") \/ Proceed(r, "reconcile")
          \/ Proceed(r, IF OfPayment(r) THEN "event" ELSE "read")
      BY <2>2, <3>3 DEF Load, Reload, AfterLoad
    <3> QED BY <1>1, <3>4 DEF Proceed
  <2>3. CASE ClaimProcessing(r) \/ Review(r) \/ Clear(r) \/ Reserve(r) \/ RenewLease(r)
    BY <1>1, <2>3 DEF ClaimProcessing, Review, Clear, Reserve, RenewLease, Proceed
  <2>4. CASE Reconcile(r) \/ Finish(r)
    BY <1>1, <2>4 DEF Reconcile, Finish, SettleVerdict, Proceed
  <2>5. CASE Fail(r) \/ Retire(r)
    BY <1>1, <2>5 DEF Fail, FailThrows, Retire
  <2>6. CASE Recover(r)
    BY <2>6
  <2> QED BY <2>1, <2>2, <2>3, <2>4, <2>5, <2>6
<1>3. ASSUME Recover(r), ~Return(r)
      PROVE  Passes(r)
  <2>1. run[r] \in RunState /\ run \in [Runs -> RunState]
    BY DEF IInv, TypeOK
  <2>2. PICK t : run' = [run EXCEPT ![r] = [run[r] EXCEPT !.pc = "send", !.token = t]]
    BY <1>3, <2>1 DEF Recover
  <2>3. run'[r].pc = "send" /\ \A o \in Runs \ {r} : run'[o] = run[o]
    BY <2>1, <2>2 DEF RunState
  <2> QED BY <1>1, <2>3 DEF Passes, Undispatched
<1> QED BY <1>2, <1>3, Passing

LEMMA DispatchersPass ==
    ASSUME IInv, NEW r \in Runs,
           \/ ReleaseEvent(r) \/ Unsigned(r) \/ ClaimDocument(r) \/ MarkDispatch(r) \/ Sign(r)
           \/ Post(r) \/ Reply(r) \/ Complete(r) \/ FinalizeAccepted(r) \/ Catch(r) \/ Crash(r)
           \/ StatementThrows(r) /\ run[r].pc \notin {"sign", "sign_held"}
    PROVE  Passes(r)
<1> DEFINE quiet == MadePCs \cup {"undo", "error", "clear"}
<1>1. \A pc \in {"handler", "finish", "mark", "claim_doc", "dispatch", "fin", "catch", "reply",
                 "complete"} : pc \notin quiet
  BY DEF MadePCs
<1>2. CASE ReleaseEvent(r)
  <2>1. run[r].error # "PRE_DISPATCH"
    BY <1>2 DEF IInv, RunsKnow, Knows, ReleaseEvent, At
  <2>2. Goto(r, "handler") \/ Goto(r, "error")
    BY <1>2 DEF ReleaseEvent
  <2>3. "error" \notin MadePCs \cup {"undo"}
    BY DEF MadePCs
  <2> QED BY <1>1, <2>1, <2>2, <2>3, Passing, GotoTurns, TurnPasses
<1>3. CASE Sign(r)
  <2>1. run[r] \in RunState /\ run \in [Runs -> RunState]
    BY DEF IInv, TypeOK
  <2>2. PICK pc \in {"finish", "mark", "claim_doc"} : \E expected :
           run' = [run EXCEPT ![r] = [run[r] EXCEPT !.pc = pc, !.expected = expected]]
    BY <1>3, <2>1 DEF Sign
  <2>3. run'[r].pc = pc /\ \A o \in Runs \ {r} : run'[o] = run[o]
    BY <2>1, <2>2 DEF RunState
  <2> QED BY <1>1, <2>3 DEF Passes, Undispatched
<1>4. CASE Reply(r)
  <2>1. run[r] \in RunState /\ run \in [Runs -> RunState]
    BY DEF IInv, TypeOK
  <2>2. \/ Goto(r, "catch")
        \/ \E verdict : run' = [run EXCEPT ![r] = [run[r] EXCEPT !.pc = "complete", !.verdict = verdict]]
    BY <1>4, <2>1 DEF Reply, ReadReply
  <2>3. ASSUME NEW verdict,
               run' = [run EXCEPT ![r] = [run[r] EXCEPT !.pc = "complete", !.verdict = verdict]]
        PROVE  Passes(r)
    <3>1. run'[r].pc = "complete" /\ \A o \in Runs \ {r} : run'[o] = run[o]
      BY <2>1, <2>3 DEF RunState
    <3> QED BY <1>1, <3>1 DEF Passes, Undispatched
  <2> QED BY <1>1, <2>2, <2>3, Passing
<1>5. CASE Unsigned(r) \/ ClaimDocument(r) \/ MarkDispatch(r) \/ Post(r) \/ Complete(r)
             \/ FinalizeAccepted(r) \/ Catch(r)
  <2>1. \/ Throw(r)
        \/ \E pc : pc \notin quiet /\ Goto(r, pc)
        \/ \E error : error # "PRE_DISPATCH" /\ RaiseError(r, error)
    BY <1>1, <1>5 DEF Unsigned, ClaimDocument, MarkDispatch, Post, Submit, Complete, FinalizeAccepted,
                      Catch, Proceed
  <2> QED BY <2>1, Passing
<1>6. CASE Crash(r)
  BY <1>6, Passing DEF Crash
<1>7. CASE StatementThrows(r) /\ run[r].pc \notin {"sign", "sign_held"}
  <2>1. \/ RaiseError(r, "OTHER") \/ Release(r, "OTHER") \/ Goto(r, "catch") \/ Goto(r, "handler")
    BY <1>7 DEF StatementThrows, FailThrows
  <2> QED BY <1>1, <2>1, Passing
<1> QED BY <1>2, <1>3, <1>4, <1>5, <1>6, <1>7

LEMMA NeighboursPass ==
    ASSUME IInv, NEW r \in Runs,
           \/ TxClaim(r) \/ TxTokenFails(r) \/ TxPost(r) \/ TxReply(r) \/ TxComplete(r)
           \/ InvPost(r) \/ InvComplete(r)
           \/ IssueCheck(r) \/ IssuePark(r) \/ IssueCreate(r) \/ IssueRelease(r)
    PROVE  Passes(r)
<1> DEFINE quiet == MadePCs \cup {"undo", "error", "clear"}
<1>1. \A pc \in {"tx_dispatch", "tx_reply", "tx_complete", "inv_complete", "iss_park", "iss_create",
                 "iss_release", "idle"} : pc \notin quiet
  BY DEF MadePCs
<1>2. CASE TxReply(r) \/ InvPost(r)
  <2>1. run[r] \in RunState /\ run \in [Runs -> RunState]
    BY DEF IInv, TypeOK
  <2>2. \/ Return(r)
        \/ \E pc \in {"tx_complete", "inv_complete"} : \E verdict :
              run' = [run EXCEPT ![r] = [run[r] EXCEPT !.pc = pc, !.verdict = verdict]]
    BY <1>2, <2>1 DEF TxReply, ReadReply, InvPost, Return
  <2>3. ASSUME NEW pc \in {"tx_complete", "inv_complete"}, NEW verdict,
               run' = [run EXCEPT ![r] = [run[r] EXCEPT !.pc = pc, !.verdict = verdict]]
        PROVE  Passes(r)
    <3>1. run'[r].pc = pc /\ \A o \in Runs \ {r} : run'[o] = run[o]
      BY <2>1, <2>3 DEF RunState
    <3> QED BY <1>1, <3>1 DEF Passes, Undispatched
  <2> QED BY <2>2, <2>3, Passing
<1>3. CASE \/ TxClaim(r) \/ TxTokenFails(r) \/ TxPost(r) \/ TxComplete(r) \/ InvComplete(r)
           \/ IssueCheck(r) \/ IssuePark(r) \/ IssueCreate(r) \/ IssueRelease(r)
  <2>1. Return(r) \/ \E pc : pc \notin quiet /\ Goto(r, pc)
    BY <1>1, <1>3 DEF TxClaim, TxTokenFails, TxPost, Submit, TxComplete, InvComplete, IssueCheck,
                      IssuePark, IssueCreate, CreateDocument, IssueRelease
  <2> QED BY <2>1, Passing
<1> QED BY <1>2, <1>3

\* Those that begin.
LEMMA BeginPasses ==
    ASSUME IInv, NEW r \in Runs, NEW state, Begin(r, state),
           state.pc \in {"send", "load", "dead_load", "recover", "tx_claim", "inv_post", "iss_check"}
    PROVE  Passes(r)
<1>1. run'[r] = state /\ \A o \in Runs \ {r} : run'[o] = run[o]
  BY DEF Begin, IInv, TypeOK
<1> QED BY <1>1 DEF Passes, MadePCs, Undispatched

LEMMA BeginnersPass ==
    ASSUME IInv, NEW r \in Runs,
           \/ \E c \in Corrections, d \in Docs, t \in Tokens :
                 RequestCorrection(r, c, d, t) \/ RequestPayment(r, c, d, t)
           \/ \E t \in Tokens : Deliver(r, t) \/ DeadDeliver(r, t)
           \/ \E c \in Corrections : StartRecovery(r, c)
           \/ \E d \in Docs : StartTransmit(r, d) \/ StartInvalidate(r, d)
    PROVE  Passes(r)
<1>1. ASSUME NEW c \in Corrections, NEW d \in Docs, NEW t \in Tokens,
             RequestCorrection(r, c, d, t) \/ RequestPayment(r, c, d, t)
      PROVE  Passes(r)
  <2> DEFINE state == [IdleRun EXCEPT !.pc = "send", !.correction = c, !.document = d, !.token = t]
  <2>1. Begin(r, state)
    BY <1>1 DEF RequestCorrection, RequestPayment
  <2>2. state.pc = "send"
    BY DEF IdleRun
  <2> QED BY <2>1, <2>2, BeginPasses
<1>2. ASSUME NEW t \in Tokens, Deliver(r, t) \/ DeadDeliver(r, t)
      PROVE  Passes(r)
  <2> DEFINE state(pc, dead) == [IdleRun EXCEPT !.pc = pc, !.token = t, !.dead = dead,
                                   !.correction = messages[t].correction,
                                   !.document = fiscal_corrections[messages[t].correction].document]
  <2>1. Begin(r, state("load", FALSE)) \/ Begin(r, state("dead_load", TRUE))
    BY Zenon, <1>2 DEF Deliver, DeadDeliver, StartDelivery
  <2>2. state("load", FALSE).pc = "load" /\ state("dead_load", TRUE).pc = "dead_load"
    BY DEF IdleRun
  <2> QED BY Zenon, <2>1, <2>2, BeginPasses
<1>3. ASSUME NEW c \in Corrections, StartRecovery(r, c)
      PROVE  Passes(r)
  <2> DEFINE state == [IdleRun EXCEPT !.pc = "recover", !.correction = c,
                         !.document = fiscal_corrections[c].document,
                         !.seen = fiscal_corrections[c].token]
  <2>1. Begin(r, state)
    BY <1>3 DEF StartRecovery
  <2>2. state.pc = "recover"
    BY DEF IdleRun
  <2> QED BY <2>1, <2>2, BeginPasses
<1>4. ASSUME NEW d \in Docs, StartTransmit(r, d)
      PROVE  Passes(r)
  <2> DEFINE state == [IdleRun EXCEPT !.pc = "tx_claim", !.document = d,
                         !.codigo = codigo_generacion[d], !.expected = dte_documents[d].status]
  <2>1. Begin(r, state)
    BY <1>4 DEF StartTransmit
  <2>2. state.pc = "tx_claim"
    BY DEF IdleRun
  <2> QED BY <2>1, <2>2, BeginPasses
<1>5. ASSUME NEW d \in Docs, StartInvalidate(r, d)
      PROVE  Passes(r)
  <2> DEFINE state == [IdleRun EXCEPT !.pc = "inv_post", !.document = d,
                         !.codigo = codigo_generacion[d]]
  <2>1. Begin(r, state)
    BY <1>5 DEF StartInvalidate
  <2>2. state.pc = "inv_post"
    BY DEF IdleRun
  <2> QED BY <2>1, <2>2, BeginPasses
<1> QED BY <1>1, <1>2, <1>3, <1>4, <1>5

LEMMA StartIssuePasses ==
    ASSUME IInv, NEW r \in Runs, NEW d \in Docs, StartIssue(r, d)
    PROVE  Passes(r) \/ UNCHANGED run
<1> DEFINE state == [IdleRun EXCEPT !.pc = "iss_check", !.document = d]
<1>1. Begin(r, state) \/ UNCHANGED run
  BY DEF StartIssue
<1>2. state.pc = "iss_check"
  BY DEF IdleRun
<1> QED BY <1>1, <1>2, BeginPasses

-----------------------------------------------------------------------------
(* The payment's event, as far as the second invariant reads it.           *)

SameWork(e, f) ==
    /\ f.received = e.received /\ f.document = e.document
    /\ f.status = e.status /\ f.attempt = e.attempt

LEMMA EventFields ==
    ASSUME NEW e \in W!WompiRow
    PROVE  /\ SameWork(e, e)
           /\ \A claim : SameWork(e, W!claimWompiEventIssuance(e, claim))
           /\ SameWork(e, W!releaseWompiEventIssuance(e))
           /\ \A n : SameWork(e, [e EXCEPT !.number = n])
           /\ SameWork(e, W!markWompiEventProcessed(e))
           /\ SameWork(e, [e EXCEPT !.stalled = TRUE])
           /\ LET f == W!createClaimedWompiDteDocument(e)
              IN  f.document /\ f.status = "DOCUMENT_CREATED" /\ f.attempt = e.attempt
           /\ LET f == W!markWompiIssuanceProcessing(e)
              IN  f.document = e.document /\ f.status = "PROCESSING" /\ f.attempt = e.attempt
           /\ \A c : W!QueueAttempt(e, c).attempt = c /\ W!QueueAttempt(e, c).status = "RETRY_QUEUED"
           /\ \A c : /\ W!claimWompiIssuanceRetry(e, c).attempt = c
                     /\ W!claimWompiIssuanceRetry(e, c).status = "RETRY_QUEUED"
<1>1. /\ SameWork(e, e)
      /\ \A claim : SameWork(e, W!claimWompiEventIssuance(e, claim))
      /\ SameWork(e, W!releaseWompiEventIssuance(e))
      /\ \A n : SameWork(e, [e EXCEPT !.number = n])
      /\ SameWork(e, W!markWompiEventProcessed(e))
      /\ SameWork(e, [e EXCEPT !.stalled = TRUE])
  BY DEF W!WompiRow, SameWork, W!claimWompiEventIssuance, W!releaseWompiEventIssuance,
         W!markWompiEventProcessed
<1>2. /\ LET f == W!createClaimedWompiDteDocument(e)
         IN  f.document /\ f.status = "DOCUMENT_CREATED" /\ f.attempt = e.attempt
      /\ LET f == W!markWompiIssuanceProcessing(e)
         IN  f.document = e.document /\ f.status = "PROCESSING" /\ f.attempt = e.attempt
  BY DEF W!WompiRow, W!createClaimedWompiDteDocument, W!markWompiIssuanceProcessing
<1>3. /\ \A c : W!QueueAttempt(e, c).attempt = c /\ W!QueueAttempt(e, c).status = "RETRY_QUEUED"
      /\ \A c : /\ W!claimWompiIssuanceRetry(e, c).attempt = c
                /\ W!claimWompiIssuanceRetry(e, c).status = "RETRY_QUEUED"
  BY DEF W!WompiRow, W!QueueAttempt, W!claimWompiIssuanceRetry
<1> QED BY <1>1, <1>2, <1>3

\* The attempt goes on, perhaps with a CDE.
GoesOnWorking(e, f) ==
    \/ SameWork(e, f)
    \/ f.document /\ f.status = "DOCUMENT_CREATED" /\ f.attempt = e.attempt

\* What CreateDocument makes of the event.
LEMMA CreatedFields ==
    ASSUME NEW e \in W!WompiRow, NEW n \in Nat,
           NEW reserved, reserved = e \/ reserved = [e EXCEPT !.number = n],
           NEW f, f = reserved \/ f = W!createClaimedWompiDteDocument(reserved)
    PROVE  GoesOnWorking(e, f)
<1>1. [e EXCEPT !.number = n] \in W!WompiRow /\ SameWork(e, [e EXCEPT !.number = n]) /\ SameWork(e, e)
  BY EventStatements, EventFields
<1>2. reserved \in W!WompiRow /\ SameWork(e, reserved)
  BY <1>1
<1> DEFINE made == W!createClaimedWompiDteDocument(reserved)
<1>3. made.document /\ made.status = "DOCUMENT_CREATED" /\ made.attempt = reserved.attempt
  BY <1>2, EventFields
<1> QED BY <1>2, <1>3 DEF SameWork, GoesOnWorking

\* One event is written, by statement f.
EventWritten(d, f) ==
    /\ d \in Docs
    /\ wompi_events[d] \in W!WompiRow
    /\ wompi_events' = [wompi_events EXCEPT ![d] = f]

LEMMA CorrectionEvents ==
    ASSUME IInv, NEW r \in Runs, ClaimEvent(r) \/ CreateCorrected(r) \/ ReleaseEvent(r)
    PROVE  \E f : EventWritten(run[r].document, f) /\ GoesOnWorking(Event(r), f)
<1>1. run[r].pc \in CorrectionPCs
  BY Plain DEF ClaimEvent, CreateCorrected, ReleaseEvent, At
<1>2. Event(r) \in W!WompiRow /\ run[r].document \in Docs
  BY <1>1, OfCorrection
<1>3. \A f : SetEvent(r, f) => EventWritten(run[r].document, f)
  BY <1>2 DEF SetEvent, EventWritten, Event
<1>4. UNCHANGED wompi_events => EventWritten(run[r].document, Event(r))
  BY <1>2 DEF EventWritten, Event, IInv, TypeOK
<1>5. CASE ClaimEvent(r) \/ ReleaseEvent(r)
  BY <1>2, <1>3, <1>4, <1>5, EventFields DEF ClaimEvent, ReleaseEvent, GoesOnWorking
<1>6. CASE CreateCorrected(r)
  <2>1. PICK reserved \in {Event(r), [Event(r) EXCEPT !.number = document_sequences]} :
          \E f \in {reserved, W!createClaimedWompiDteDocument(reserved)} : SetEvent(r, f)
    BY <1>6 DEF CreateCorrected, CreateDocument
  <2>2. PICK f \in {reserved, W!createClaimedWompiDteDocument(reserved)} : SetEvent(r, f)
    BY <2>1
  <2>3. document_sequences \in Nat
    BY DEF IInv, TypeOK
  <2>4. GoesOnWorking(Event(r), f)
    BY <1>2, <2>3, CreatedFields
  <2> QED BY <1>3, <2>2, <2>4
<1> QED BY <1>5, <1>6

LEMMA IssueEvents ==
    ASSUME IInv, NEW r \in Runs, IssueCheck(r) \/ IssuePark(r) \/ IssueCreate(r) \/ IssueRelease(r)
    PROVE  \E f : /\ EventWritten(run[r].document, f)
                  /\ \/ GoesOnWorking(Event(r), f)
                     \/ W!recordWompiIssuanceFailureEnabled(Event(r), OwnAttempt)
<1>1. run[r].pc \in IssuePCs
  BY DEF IssueCheck, IssuePark, IssueCreate, IssueRelease, At, IssuePCs
<1>2. Event(r) \in W!WompiRow /\ run[r].document \in Docs
  BY <1>1, OfIssue
<1>3. \A f : SetEvent(r, f) => EventWritten(run[r].document, f)
  BY <1>2 DEF SetEvent, EventWritten, Event
<1>4. CASE IssueCheck(r)
  BY <1>2, <1>3, <1>4, EventFields DEF IssueCheck, GoesOnWorking
<1>5. CASE IssuePark(r) \/ IssueRelease(r)
  BY <1>2, <1>3, <1>5, EventFields DEF IssuePark, IssueRelease, GoesOnWorking
<1>6. CASE IssueCreate(r)
  <2>1. PICK reserved \in {Event(r), [Event(r) EXCEPT !.number = document_sequences]} :
          \E f \in {reserved, W!createClaimedWompiDteDocument(reserved)} : SetEvent(r, f)
    BY <1>6 DEF IssueCreate, CreateDocument
  <2>2. PICK f \in {reserved, W!createClaimedWompiDteDocument(reserved)} : SetEvent(r, f)
    BY <2>1
  <2>3. document_sequences \in Nat
    BY DEF IInv, TypeOK
  <2>4. GoesOnWorking(Event(r), f)
    BY <1>2, <2>3, CreatedFields
  <2> QED BY <1>3, <2>2, <2>4
<1> QED BY <1>4, <1>5, <1>6

EventsExist == \A d \in Docs : Made(d) => Made(d)'

LEMMA WrittenExists ==
    ASSUME IInv, NEW d, NEW f, EventWritten(d, f), Exists(wompi_events[d]) => Exists(f)
    PROVE  EventsExist
  BY DEF EventWritten, EventsExist, Made, IInv, TypeOK

LEMMA SameEventsExist == UNCHANGED wompi_events => EventsExist
  BY DEF EventsExist, Made

LEMMA HandlersKeepEvents ==
    ASSUME IInv, NEW r \in Runs,
           \/ ClaimEvent(r) \/ CreateCorrected(r) \/ ReleaseEvent(r)
           \/ IssueCheck(r) \/ IssuePark(r) \/ IssueCreate(r) \/ IssueRelease(r)
    PROVE  EventsExist
<1>1. PICK f : /\ EventWritten(run[r].document, f)
               /\ \/ GoesOnWorking(Event(r), f)
                  \/ W!recordWompiIssuanceFailureEnabled(Event(r), OwnAttempt)
  BY CorrectionEvents, IssueEvents
<1>2. Exists(Event(r)) => Exists(f)
  BY <1>1 DEF GoesOnWorking, SameWork, Exists, W!recordWompiIssuanceFailureEnabled
<1> QED BY <1>1, <1>2, WrittenExists DEF Event

LEMMA FailEvents ==
    ASSUME IInv, NEW r \in Runs, Fail(r)
    PROVE  \/ UNCHANGED wompi_events
           \/ \E f : /\ EventWritten(run[r].document, f)
                     /\ finalizeWompiFailureEnabled(Correction(r), run[r].correction, run[r].seen, Event(r))
<1>1. run[r].pc \in CorrectionPCs
  BY Plain DEF Fail, At
<1>2. Event(r) \in W!WompiRow /\ run[r].document \in Docs
  BY <1>1, OfCorrection
<1>3. CASE finalizeWompiFailureEnabled(Correction(r), run[r].correction, run[r].seen, Event(r))
  <2>1. PICK error : SetEvent(r, FailedEvent(Event(r), error))
    BY <1>3 DEF Fail
  <2>2. EventWritten(run[r].document, FailedEvent(Event(r), error))
    BY <1>2, <2>1 DEF SetEvent, EventWritten, Event
  <2> QED BY <1>3, <2>2
<1> QED BY <1>3 DEF Fail

LEMMA FailKeepsEvents ==
    ASSUME IInv, NEW r \in Runs, Fail(r)
    PROVE  EventsExist
<1>1. ASSUME NEW f, EventWritten(run[r].document, f),
             finalizeWompiFailureEnabled(Correction(r), run[r].correction, run[r].seen, Event(r))
      PROVE  EventsExist
  <2>1. ~Exists(Event(r))
    BY <1>1 DEF finalizeWompiFailureEnabled, W!Queued, Exists
  <2> QED BY <1>1, <2>1, WrittenExists DEF Event
<1> QED BY <1>1, FailEvents, SameEventsExist

\* The statements that queue an attempt, and the one that begins it.
LEMMA QueueEvents ==
    ASSUME IInv, NEW d \in Docs,
           \/ \E r \in Runs, c \in Corrections, t \in Tokens : RequestPayment(r, c, d, t)
           \/ \E r \in Runs : StartIssue(r, d)
           \/ RetryIssuance(d) \/ SweepIssuance(d)
    PROVE  /\ \E f : EventWritten(d, f)
           /\ ~Exists(wompi_events[d])
<1>1. wompi_events[d] \in W!WompiRow
  BY Typed DEF IInv
<1>2. \A f : wompi_events' = [wompi_events EXCEPT ![d] = f] => EventWritten(d, f)
  BY <1>1 DEF EventWritten
<1>3. CASE \E r \in Runs, c \in Corrections, t \in Tokens : RequestPayment(r, c, d, t)
  BY <1>2, <1>3 DEF RequestPayment, claimWompiFiscalCorrectionEnabled,
     W!claimWompiIssuanceRetryEnabled, W!Queued, Exists
<1>4. CASE \E r \in Runs : StartIssue(r, d)
  BY <1>2, <1>4 DEF StartIssue, W!markWompiIssuanceProcessingEnabled, Exists
<1>5. CASE RetryIssuance(d)
  BY <1>2, <1>5 DEF RetryIssuance, W!claimWompiIssuanceRetryEnabled, W!Queued, Exists
<1>6. CASE SweepIssuance(d)
  <2> DEFINE event == [wompi_events[d] EXCEPT !.stalled = TRUE]
  <2>1. SameWork(wompi_events[d], event)
    BY <1>1, EventFields
  <2>2. W!listStalledApprovedWompiEvents(event)
    BY <1>6 DEF SweepIssuance
  <2>3. ~Exists(wompi_events[d])
    BY <2>1, <2>2 DEF SameWork, W!listStalledApprovedWompiEvents, Exists
  <2> QED BY <1>2, <1>6, <2>3 DEF SweepIssuance
<1> QED BY <1>3, <1>4, <1>5, <1>6

LEMMA QueuersKeepEvents ==
    ASSUME IInv, NEW d \in Docs,
           \/ \E r \in Runs, c \in Corrections, t \in Tokens : RequestPayment(r, c, d, t)
           \/ \E r \in Runs : StartIssue(r, d)
           \/ RetryIssuance(d) \/ SweepIssuance(d)
    PROVE  EventsExist
  BY QueueEvents, WrittenExists

-----------------------------------------------------------------------------
(* What a step must show for the second invariant, by what it writes.      *)

\* A handler that stays where it is, or has what the second invariant asks of it.
Minds(r) == (run[r].pc \in MadePCs => Made(run[r].document)) /\ Backed(r)

Minding == \A r \in Runs : run'[r] = run[r] \/ Minds(r)'

LEMMA PassesMinds ==
    ASSUME NEW r \in Runs, Passes(r)
    PROVE  Minding
  BY DEF Passes, Minding, Minds, Backed, At

LEMMA MakingStays ==
    ASSUME IInv, JInv, EventsExist, Minding
    PROVE  Making'
<1> SUFFICES ASSUME NEW r \in Runs, run'[r].pc \in MadePCs
             PROVE  Made(run[r].document)'
  BY DEF Making
<1>1. CASE run'[r] = run[r]
  <2>1. run[r].pc # "idle"
    BY <1>1 DEF MadePCs
  <2>2. run[r].document \in Docs
    BY <2>1 DEF IInv, RunsKnow, Works
  <2> QED BY <1>1, <2>2 DEF JInv, Making, EventsExist
<1> QED BY <1>1 DEF Minding, Minds

LEMMA BackingStays ==
    ASSUME IInv, JInv, OnlyAges, Minding,
           \A r \in Runs : run'[r] = run[r] /\ Undispatched(r) /\ Open(run[r].correction) /\ GoesBack(r)
                              => GoesBack(r)'
    PROVE  Backing'
<1> SUFFICES ASSUME NEW r \in Runs, run'[r] = run[r]
             PROVE  Backed(r)'
  BY DEF Backing, Minding, Minds
<1>1. Backed(r)
  BY DEF JInv, Backing
<1>2. At(r, "undo") \/ Undispatched(r) => run[r].correction \in Corrections
  BY PlainIsApart DEF At, Undispatched, SendPCs, IInv, RunsKnow, Works
<1>3. Open(run[r].correction)' /\ Undispatched(r) => Open(run[r].correction)
  BY <1>2, RivalsStay DEF JInv, Open
<1>4. At(r, "undo") => OfPayment(r)' = OfPayment(r)
  BY <1>2 DEF OfPayment, Correction, OnlyAges, Ages
<1> QED BY <1>1, <1>3, <1>4 DEF Backed, At, Undispatched, Open

LEMMA TablesStay ==
    ASSUME JInv, UNCHANGED docVars, EventsExist
    PROVE  HeldRows' /\ Unmade'
  BY DEF JInv, HeldRows, Unmade, EventsExist, docVars

LEMMA SameBacked ==
    ASSUME IInv, NEW r \in Runs, run'[r] = run[r], OnlyAges, Undispatched(r), GoesBack(r),
           UNCHANGED <<codigo_generacion, posts>>,
           dte_documents'[run[r].document].status = dte_documents[run[r].document].status,
           Held(dte_documents[run[r].document], run[r].correction) =>
              Held(dte_documents[run[r].document], run[r].correction)'
    PROVE  GoesBack(r)'
<1>1. run[r].correction \in Corrections
  BY PlainIsApart DEF Undispatched, IInv, RunsKnow, Works
<1>2. OfPayment(r)' = OfPayment(r)
  BY <1>1 DEF OfPayment, Correction, OnlyAges, Ages
<1> QED BY <1>2 DEF GoesBack, Held

\* The corrections, but for their dispatch markers.
LEMMA QuietlyMinds ==
    ASSUME IInv, JInv, OnlyAges, SameMarks, Minding, UNCHANGED <<docVars, wompi_events, posts>>
    PROVE  JInv'
<1>1. NoRivals' /\ \A c \in Corrections : Open(c)' => Open(c)
  BY RivalsStay DEF JInv
<1>2. HeldRows' /\ Unmade' /\ Making'
  BY SameEventsExist, TablesStay, MakingStays
<1>3. Openings'
  <2>1. ASSUME NEW c \in Corrections, Open(c)'
        PROVE  HoldsRow(c)' /\ HoldsEvent(c)' /\ Unposted(c)'
    <3>1. HoldsRow(c) /\ HoldsEvent(c) /\ Unposted(c)
      BY <1>1, <2>1 DEF JInv, Openings
    <3>2. /\ fiscal_corrections'[c].kind = fiscal_corrections[c].kind
          /\ fiscal_corrections'[c].document = fiscal_corrections[c].document
          /\ fiscal_corrections'[c].dispatched = fiscal_corrections[c].dispatched
      BY DEF OnlyAges, Ages, SameMarks
    <3>3. HoldsRow(c)'
      BY <3>1, <3>2 DEF HoldsRow, OfEvent, HoldsPayment, HoldsDocument, Held, docVars
    <3>4. HoldsEvent(c)'
      BY <3>1, <3>2 DEF HoldsEvent, OfEvent
    <3>5. Unposted(c)'
      BY <3>1, <3>2 DEF Unposted, CodigoOf
    <3> QED BY <3>3, <3>4, <3>5
  <2> QED BY <2>1 DEF Openings
<1>4. Backing'
  BY BackingStays, SameBacked DEF docVars, Held
<1> QED BY <1>1, <1>2, <1>3, <1>4 DEF JInv

-----------------------------------------------------------------------------
(* A document is written, once more.                                       *)

\* Row n suits whoever relies on document d.
Suits(d, n) ==
    /\ \A c \in Corrections : Open(c) /\ fiscal_corrections[c].document = d /\ HoldsRow(c) =>
          IF OfEvent(c) THEN HoldsPayment(c, n) ELSE HoldsDocument(c, n, codigo_generacion[d])
    /\ \A o \in Runs :
          /\ run'[o] = run[o] /\ run[o].document = d
          /\ Undispatched(o) /\ Open(run[o].correction) /\ GoesBack(o)
          => IF OfPayment(o) THEN ~isTerminalDteStatus(n.status)
                             ELSE n.status = "SIGNED" /\ Held(n, run[o].correction)

LEMMA RowMinds ==
    ASSUME IInv, JInv, UNCHANGED <<fiscal_corrections, codigo_generacion, wompi_events, posts>>,
           NEW d \in Docs, NEW n, dte_documents' = [dte_documents EXCEPT ![d] = n],
           n.op_claim \in Corrections => Held(n, n.op_claim),
           Made(d), Suits(d, n), Minding
    PROVE  JInv'
<1>1. /\ dte_documents'[d] = n
      /\ \A e \in Docs \ {d} : dte_documents'[e] = dte_documents[e]
  BY DEF IInv, TypeOK
<1>2. OnlyAges /\ NoRivals' /\ EventsExist
  BY OthersAge, RivalsStay, SameEventsExist DEF JInv
<1>3. HeldRows'
  BY <1>1 DEF JInv, HeldRows
<1>4. Unmade'
  BY <1>1, <1>2 DEF JInv, Unmade, EventsExist
<1>5. Making'
  BY <1>2, MakingStays
<1>6. Openings'
  <2>1. ASSUME NEW c \in Corrections, Open(c)'
        PROVE  HoldsRow(c)' /\ HoldsEvent(c)' /\ Unposted(c)'
    <3>1. Open(c) /\ HoldsRow(c) /\ HoldsEvent(c) /\ Unposted(c)
      BY <2>1 DEF JInv, Openings, Open
    <3>2. fiscal_corrections[c].document \in Docs
      BY <3>1 DEF Open, OpenStatus, IInv, Places
    <3>3. HoldsEvent(c)' /\ Unposted(c)'
      BY <3>1 DEF HoldsEvent, OfEvent, Unposted, CodigoOf
    <3>4. CASE fiscal_corrections[c].document = d
      BY <1>1, <3>1, <3>3, <3>4 DEF Suits, HoldsRow, OfEvent, HoldsPayment, HoldsDocument
    <3>5. CASE fiscal_corrections[c].document # d
      BY <1>1, <3>1, <3>2, <3>3, <3>5 DEF HoldsRow, OfEvent, HoldsPayment, HoldsDocument
    <3> QED BY <3>4, <3>5
  <2> QED BY <2>1 DEF Openings
<1>7. Backing'
  <2>1. ASSUME NEW o \in Runs, run'[o] = run[o], Undispatched(o), Open(run[o].correction), GoesBack(o)
        PROVE  GoesBack(o)'
    <3>1. run[o].document \in Docs /\ run[o].correction \in Corrections
      BY <2>1, PlainIsApart DEF Undispatched, IInv, RunsKnow, Works
    <3>2. OfPayment(o)' = OfPayment(o)
      BY <2>1 DEF OfPayment, Correction
    <3>3. CASE run[o].document = d
      BY <1>1, <2>1, <3>2, <3>3 DEF Suits, GoesBack
    <3>4. CASE run[o].document # d
      BY <1>1, <2>1, <3>1, <3>2, <3>4 DEF GoesBack
    <3> QED BY <3>3, <3>4
  <2> QED BY <1>2, <2>1, BackingStays
<1> QED BY <1>2, <1>3, <1>4, <1>5, <1>6, <1>7 DEF JInv

\* A handler that knows that nothing was sent, of an open correction.
LEMMA GoingBack ==
    ASSUME IInv, JInv, NEW o \in Runs, Undispatched(o), Open(run[o].correction)
    PROVE  /\ run[o].correction \in Corrections
           /\ fiscal_corrections[run[o].correction].document = run[o].document
           /\ HoldsRow(run[o].correction) /\ GoesBack(o)
           /\ OfPayment(o) <=> OfEvent(run[o].correction)
<1>1. Works(o) /\ run[o].pc \in CorrectionPCs
  BY PlainIsApart DEF Undispatched, IInv, RunsKnow
<1> QED BY <1>1 DEF Works, JInv, Openings, Backing, Backed, OfPayment, OfEvent, Correction

LEMMA SuitsKept ==
    ASSUME NEW d \in Docs, NEW n, n.status = dte_documents[d].status,
           n.op_claim = dte_documents[d].op_claim, n.op_kind = dte_documents[d].op_kind,
           n.op_event = dte_documents[d].op_event
    PROVE  Suits(d, n)
  BY DEF Suits, HoldsRow, HoldsPayment, HoldsDocument, Held, GoesBack

\* The claim stays and the row is signed.
LEMMA SuitsSigned ==
    ASSUME NEW d \in Docs, NEW n, ~isTerminalDteStatus(dte_documents[d].status), n.status = "SIGNED",
           n.op_claim = dte_documents[d].op_claim, n.op_kind = dte_documents[d].op_kind,
           n.op_event = dte_documents[d].op_event
    PROVE  Suits(d, n)
  BY DEF Suits, HoldsRow, HoldsPayment, HoldsDocument, Held, GoesBack, isTerminalDteStatus,
         TerminalStatus

\* A document that MH has accepted.
LEMMA SuitsDecided ==
    ASSUME NEW d \in Docs, NEW n, dte_documents[d].status \in {"ACCEPTED", "INVALIDATED"},
           isTerminalDteStatus(n.status)
    PROVE  Suits(d, n)
  BY DEF Suits, HoldsRow, HoldsPayment, HoldsDocument, GoesBack, isTerminalDteStatus, TerminalStatus

\* A document that nobody has claimed: whoever claims it must be the payment's correction.
LEMMA SuitsFree ==
    ASSUME IInv, NEW d \in Docs, NEW n, ~isTerminalDteStatus(dte_documents[d].status),
           dte_documents[d].op_claim = NULL, ~isTerminalDteStatus(n.status),
           \/ n.op_claim = NULL
           \/ \A c \in Corrections :
                 Open(c) /\ fiscal_corrections[c].document = d /\ OfEvent(c) => n.op_claim = c
    PROVE  Suits(d, n)
<1>1. \A c \in Corrections : c # NULL
  BY Names
<1>2. \A o \in Runs : Undispatched(o) => run[o].correction \in Corrections
  BY PlainIsApart DEF Undispatched, IInv, RunsKnow, Works
<1> QED BY <1>1, <1>2 DEF Suits, HoldsRow, HoldsPayment, HoldsDocument, Held, GoesBack

\* A document that is claimed by no correction.
LEMMA SuitsForeign ==
    ASSUME IInv, JInv, NEW d \in Docs, NEW n, ~isTerminalDteStatus(dte_documents[d].status),
           dte_documents[d].op_claim \notin Corrections \cup {NULL}
    PROVE  Suits(d, n)
<1>1. ASSUME NEW c \in Corrections, fiscal_corrections[c].document = d, HoldsRow(c)
      PROVE  ~OfEvent(c) /\ fiscal_corrections[c].dispatched
  BY <1>1 DEF HoldsRow, HoldsPayment, HoldsDocument, Held
<1>2. ASSUME NEW o \in Runs, run[o].document = d, Undispatched(o), Open(run[o].correction)
      PROVE  FALSE
  BY <1>1, <1>2, GoingBack DEF GoesBack, Held
<1> QED BY <1>1, <1>2 DEF Suits, HoldsRow, HoldsDocument

\* A document that a dispatched correction has claimed, written by its sender.
LEMMA SuitsSender ==
    ASSUME IInv, JInv, NEW d \in Docs, NEW n, ~isTerminalDteStatus(dte_documents[d].status),
           NEW c \in Corrections, dte_documents[d].op_claim = c, fiscal_corrections[c].dispatched,
           isTerminalDteStatus(n.status) \/ n.op_claim = NULL,
           \A o \in Runs : run'[o] = run[o] /\ Undispatched(o) => run[o].correction # c
    PROVE  Suits(d, n)
<1>1. c # NULL
  BY Names
<1>2. ASSUME NEW b \in Corrections, fiscal_corrections[b].document = d, HoldsRow(b)
      PROVE  IF OfEvent(b) THEN HoldsPayment(b, n) /\ b = c
                           ELSE HoldsDocument(b, n, codigo_generacion[d]) /\ fiscal_corrections[b].dispatched
  BY <1>1, <1>2 DEF HoldsRow, HoldsPayment, HoldsDocument, Held
<1>3. ASSUME NEW o \in Runs, run'[o] = run[o], run[o].document = d, Undispatched(o),
             Open(run[o].correction)
      PROVE  FALSE
  <2>1. run[o].correction = c
    BY <1>2, <1>3, GoingBack DEF GoesBack, Held
  <2> QED BY <1>3, <2>1
<1> QED BY <1>2, <1>3 DEF Suits

\* The fields of a claim, after each statement that keeps or writes one.
LEMMA ClaimFields ==
    ASSUME NEW row \in DteRow
    PROVE  /\ LET n == updateDocumentSigned(row)
              IN  n.op_claim = row.op_claim /\ n.op_kind = row.op_kind /\ n.op_event = row.op_event
           /\ LET n == markDocumentPostAcceptFinalized(row)
              IN  n.op_claim = row.op_claim /\ n.op_kind = row.op_kind /\ n.op_event = row.op_event
           /\ \A c \in Ids : Held(claimDocumentTransmission(row, c), c)
           /\ \A c \in Ids : Held(HoldDocument(row, c), c)
<1>1. LET n == updateDocumentSigned(row)
      IN  n.op_claim = row.op_claim /\ n.op_kind = row.op_kind /\ n.op_event = row.op_event
  BY DEF DteRow, updateDocumentSigned
<1>2. LET n == markDocumentPostAcceptFinalized(row)
      IN  n.op_claim = row.op_claim /\ n.op_kind = row.op_kind /\ n.op_event = row.op_event
  BY DEF DteRow, markDocumentPostAcceptFinalized
<1>3. \A c \in Ids : Held(claimDocumentTransmission(row, c), c)
  BY DEF DteRow, claimDocumentTransmission, Held
<1>4. \A c \in Ids : Held(HoldDocument(row, c), c)
  BY DEF DteRow, HoldDocument, Held
<1> QED BY <1>1, <1>2, <1>3, <1>4

LEMMA IsMade ==
    ASSUME JInv, NEW d \in Docs,
           \/ dte_documents[d].signed_jws
           \/ dte_documents[d].op_claim # NULL
           \/ dte_documents[d].status # "PENDING"
    PROVE  Made(d)
  BY DEF JInv, Unmade, createDteDocument

\* The step writes nothing but document d, as n.
Writes(d, n) ==
    /\ UNCHANGED <<fiscal_corrections, codigo_generacion, wompi_events, posts>>
    /\ dte_documents' = [dte_documents EXCEPT ![d] = n]

LEMMA OnlyWrites ==
    ASSUME UNCHANGED <<fiscal_corrections, codigo_generacion, otherVars, messages, mhVars>>
    PROVE  UNCHANGED <<fiscal_corrections, codigo_generacion, wompi_events, posts>>
  BY DEF otherVars, mhVars

LEMMA WritesMind ==
    ASSUME IInv, JInv, Minding, NEW d \in Docs, NEW n, Writes(d, n),
           \/ n = dte_documents[d]
           \/ /\ n.op_claim \in Corrections => Held(n, n.op_claim)
              /\ Made(d) /\ Suits(d, n)
    PROVE  JInv'
<1>1. CASE n = dte_documents[d]
  <2>1. UNCHANGED <<docVars, wompi_events, posts, fiscal_corrections>>
    BY <1>1 DEF Writes, docVars, IInv, TypeOK
  <2> QED BY <2>1, OthersAge, Untouched, QuietlyMinds
<1>2. CASE n # dte_documents[d]
  BY <1>2, RowMinds DEF Writes
<1> QED BY <1>1, <1>2

\* A claim that stays is of its kind.
LEMMA ClaimStays ==
    ASSUME JInv, NEW d \in Docs, NEW n,
           n.op_claim = dte_documents[d].op_claim, n.op_kind = dte_documents[d].op_kind,
           n.op_event = dte_documents[d].op_event
    PROVE  n.op_claim \in Corrections => Held(n, n.op_claim)
  BY DEF JInv, HeldRows, Held

LEMMA SignMinds ==
    ASSUME IInv, JInv, NEW r \in Runs, Sign(r)
    PROVE  JInv'
<1> DEFINE d   == run[r].document
           row == dte_documents[d]
           n   == updateDocumentSigned(row)
<1>1. run[r].pc \in {"sign", "sign_held"} /\ run[r].pc \in CorrectionPCs
  BY Plain DEF Sign
<1>2. d \in Docs /\ row \in DteRow
  BY <1>1, OfCorrection DEF Document
<1>3. Minding
  BY DispatchersPass, PassesMinds
<1>4. Writes(d, row) \/ (Writes(d, n) /\ row.status = run[r].expected)
  BY OnlyWrites DEF Sign, Writes, SetDocument, Document, updateDocumentSignedEnabled
<1>5. ~isTerminalDteStatus(run[r].expected)
  BY <1>1 DEF IInv, RunsKnow, Knows
<1>6. Made(d)
  BY <1>1 DEF JInv, Making, MadePCs
<1>7. n.status = "SIGNED" /\ n.op_claim = row.op_claim /\ n.op_kind = row.op_kind
        /\ n.op_event = row.op_event
  BY <1>2, RowStatements, ClaimFields
<1>8. n.op_claim \in Corrections => Held(n, n.op_claim)
  BY <1>2, <1>7, ClaimStays
<1>9. row.status = run[r].expected => Suits(d, n)
  BY <1>2, <1>5, <1>7, SuitsSigned
<1> HIDE DEF n
<1> QED BY <1>2, <1>3, <1>4, <1>6, <1>8, <1>9, WritesMind

LEMMA UnsignedMinds ==
    ASSUME IInv, JInv, NEW r \in Runs, Unsigned(r)
    PROVE  JInv'
<1> DEFINE d   == run[r].document
           row == dte_documents[d]
           n   == markDocumentFailed(row)
<1>1. run[r].pc = "unsigned" /\ run[r].pc \in CorrectionPCs
  BY Plain DEF Unsigned, At
<1>2. d \in Docs /\ row \in DteRow
  BY <1>1, OfCorrection DEF Document
<1>3. Minding
  BY DispatchersPass, PassesMinds
<1>4. Writes(d, row) \/ (Writes(d, n) /\ markDocumentFailedEnabled(row, NULL))
  BY OnlyWrites DEF Unsigned, Writes, SetDocument, Document
<1>6. Made(d)
  BY <1>1 DEF JInv, Making, MadePCs
<1>7. n.status = "FAILED" /\ n.op_claim = NULL
  BY <1>2, RowStatements
<1>8. n.op_claim \notin Corrections /\ ~isTerminalDteStatus(n.status)
  BY <1>7, Names DEF isTerminalDteStatus, TerminalStatus
<1>9. markDocumentFailedEnabled(row, NULL) => Suits(d, n)
  BY <1>2, <1>7, <1>8, SuitsFree DEF markDocumentFailedEnabled
<1> HIDE DEF n
<1> QED BY <1>2, <1>3, <1>4, <1>6, <1>8, <1>9, WritesMind

LEMMA ClaimDocumentMinds ==
    ASSUME IInv, JInv, NEW r \in Runs, ClaimDocument(r)
    PROVE  JInv'
<1> DEFINE d   == run[r].document
           c   == run[r].correction
           row == dte_documents[d]
           n   == claimDocumentTransmission(row, c)
           blocked == TransmissionBlocked(fiscal_corrections, d, c)
<1>1. run[r].pc = "claim_doc" /\ run[r].pc \in CorrectionPCs
  BY Plain DEF ClaimDocument, At
<1>2. d \in Docs /\ row \in DteRow /\ c \in Corrections /\ c \in Ids
  BY <1>1, OfCorrection, Names DEF Document
<1>3. Minding
  BY DispatchersPass, PassesMinds
<1>4. \/ UNCHANGED dte_documents
      \/ /\ dte_documents' = [dte_documents EXCEPT ![d] = n]
         /\ claimDocumentTransmissionEnabled(row, run[r].expected, blocked)
  BY DEF ClaimDocument, SetDocument, Document
<1>5. UNCHANGED dte_documents => Writes(d, row)
  BY <1>2, OnlyWrites DEF ClaimDocument, Writes, IInv, TypeOK
<1>6. ~isTerminalDteStatus(run[r].expected)
  BY <1>1 DEF IInv, RunsKnow, Knows
<1>7. CASE claimDocumentTransmissionEnabled(row, run[r].expected, blocked)
             /\ dte_documents' = [dte_documents EXCEPT ![d] = n]
  <2>1. Writes(d, n)
    BY <1>7, OnlyWrites DEF ClaimDocument, Writes
  <2>2. n.status = "SIGNED" /\ n.op_claim = c /\ Held(n, c) /\ ~isTerminalDteStatus(n.status)
    BY <1>2, ClaimStatements, ClaimFields DEF isTerminalDteStatus, TerminalStatus
  <2>3. /\ row.signed_jws /\ row.op_claim = NULL /\ ~isTerminalDteStatus(row.status) /\ ~blocked
    BY <1>6, <1>7 DEF claimDocumentTransmissionEnabled
  <2>4. ASSUME NEW b \in Corrections, Open(b), fiscal_corrections[b].document = d, OfEvent(b)
        PROVE  n.op_claim = b
    BY <2>2, <2>3, <2>4 DEF TransmissionBlocked, Open, OfEvent, IInv, TypeOK
  <2>5. Suits(d, n)
    BY <1>2, <2>2, <2>3, <2>4, SuitsFree
  <2>6. Made(d)
    BY <1>2, <2>3, IsMade
  <2> HIDE DEF n
  <2> QED BY <1>2, <1>3, <2>1, <2>2, <2>5, <2>6, WritesMind
<1> QED BY <1>2, <1>3, <1>4, <1>5, <1>7, WritesMind

LEMMA TxClaimMinds ==
    ASSUME IInv, JInv, NEW r \in Runs, TxClaim(r)
    PROVE  JInv'
<1> DEFINE d   == run[r].document
           row == dte_documents[d]
           n   == claimDocumentTransmission(row, r)
           blocked == TransmissionBlocked(fiscal_corrections, d, NULL)
<1>1. run[r].pc = "tx_claim"
  BY DEF TxClaim, At
<1>2. d \in Docs /\ row \in DteRow /\ r \in Ids /\ r \notin Corrections
  BY <1>1, Names, Typed DEF IInv, RunsKnow, Works
<1>3. Minding
  BY NeighboursPass, PassesMinds
<1>4. \/ UNCHANGED dte_documents
      \/ /\ dte_documents' = [dte_documents EXCEPT ![d] = n]
         /\ claimDocumentTransmissionEnabled(row, run[r].expected, blocked)
  BY DEF TxClaim, SetDocument, Document
<1>5. UNCHANGED dte_documents => Writes(d, row)
  BY <1>2, OnlyWrites DEF TxClaim, Writes, IInv, TypeOK
<1>6. ~isTerminalDteStatus(run[r].expected)
  BY <1>1 DEF IInv, RunsKnow, Knows
<1>7. CASE claimDocumentTransmissionEnabled(row, run[r].expected, blocked)
             /\ dte_documents' = [dte_documents EXCEPT ![d] = n]
  <2>1. Writes(d, n)
    BY <1>7, OnlyWrites DEF TxClaim, Writes
  <2>2. n.status = "SIGNED" /\ n.op_claim = r /\ ~isTerminalDteStatus(n.status)
    BY <1>2, ClaimStatements DEF isTerminalDteStatus, TerminalStatus
  <2>3. /\ row.signed_jws /\ row.op_claim = NULL /\ ~isTerminalDteStatus(row.status) /\ ~blocked
    BY <1>6, <1>7 DEF claimDocumentTransmissionEnabled
  <2>4. ASSUME NEW b \in Corrections, Open(b), fiscal_corrections[b].document = d, OfEvent(b)
        PROVE  FALSE
    BY <2>3, <2>4, Names DEF TransmissionBlocked, Open, OfEvent, IInv, TypeOK
  <2>5. Suits(d, n)
    BY <1>2, <2>2, <2>3, <2>4, SuitsFree
  <2>6. Made(d)
    BY <1>2, <2>3, IsMade
  <2> HIDE DEF n
  <2> QED BY <1>2, <1>3, <2>1, <2>2, <2>5, <2>6, WritesMind
<1> QED BY <1>2, <1>3, <1>4, <1>5, <1>7, WritesMind

\* The delivery of an open correction finds no other one of its document.
LEMMA OneOpen ==
    ASSUME JInv, NEW c \in Corrections, Open(c), NEW b \in Corrections, Open(b),
           fiscal_corrections[b].document = fiscal_corrections[c].document
    PROVE  b = c
  BY DEF JInv, NoRivals, Open, Blocks

LEMMA HoldPaymentDocumentMinds ==
    ASSUME IInv, JInv, NEW r \in Runs, HoldPaymentDocument(r)
    PROVE  JInv'
<1> DEFINE d   == run[r].document
           c   == run[r].correction
           row == dte_documents[d]
           n   == HoldDocument(row, c)
           enabled == claimWompiFiscalCorrectionDocumentEnabled(
                          Correction(r), c, run[r].token, Document(r), Event(r))
<1>1. run[r].pc = "hold" /\ run[r].pc \in CorrectionPCs
  BY Plain DEF HoldPaymentDocument, At
<1>2. d \in Docs /\ row \in DteRow /\ c \in Corrections /\ c \in Ids
        /\ Correction(r).document = d
  BY <1>1, OfCorrection, Names DEF Document
<1>3. enabled => Made(d)
  BY DEF claimWompiFiscalCorrectionDocumentEnabled, Made, Exists, Event
<1>4. Minding
  <2>1. "handler" \notin MadePCs \cup {"undo", "error", "clear"}
    BY DEF MadePCs
  <2>2. CASE Goto(r, "handler") \/ FailInvalid(r)
    BY <2>1, <2>2, Passing, PassesMinds
  <2>3. CASE Goto(r, "transmit") /\ enabled
    <3>1. Turns(r, "transmit", run[r].error)
      BY <2>3, GotoTurns
    <3>2. UNCHANGED wompi_events
      BY DEF HoldPaymentDocument, otherVars
    <3>3. Minds(r)'
      BY <1>3, <2>3, <3>1, <3>2 DEF Turns, Minds, Made, Backed, At, Undispatched
    <3> QED BY <3>1, <3>3 DEF Turns, Minding
  <2> QED BY <2>2, <2>3 DEF HoldPaymentDocument
<1>5. UNCHANGED dte_documents => Writes(d, row)
  BY <1>2, OnlyWrites DEF HoldPaymentDocument, Writes, IInv, TypeOK
<1>6. CASE enabled /\ dte_documents' = [dte_documents EXCEPT ![d] = n]
  <2>1. Writes(d, n)
    BY <1>6, OnlyWrites DEF HoldPaymentDocument, Writes
  <2>2. /\ row.status \in {"PENDING", "SIGNED", "FAILED"}
        /\ row.op_claim = NULL \/ Held(row, c)
        /\ Open(c)
    BY <1>6 DEF claimWompiFiscalCorrectionDocumentEnabled, Owned, Open, OpenStatus, Document, Correction
  <2>3. n.status = row.status /\ n.op_claim = c /\ Held(n, c)
    BY <1>2, ClaimStatements, ClaimFields
  <2>4. ~isTerminalDteStatus(row.status)
    BY <2>2 DEF isTerminalDteStatus, TerminalStatus
  <2>5. Suits(d, n)
    <3>1. CASE Held(row, c)
      BY <1>2, <2>3, <3>1, SuitsKept DEF Held
    <3>2. CASE row.op_claim = NULL
      <4>1. \A b \in Corrections : Open(b) /\ fiscal_corrections[b].document = d => n.op_claim = b
        BY <1>2, <2>2, <2>3, OneOpen DEF Correction
      <4> HIDE DEF n
      <4> QED BY <1>2, <2>3, <2>4, <3>2, <4>1, SuitsFree
    <3> QED BY <2>2, <3>1, <3>2
  <2>6. n.op_claim \in Corrections => Held(n, n.op_claim)
    BY <2>3
  <2> HIDE DEF n
  <2> QED BY <1>2, <1>3, <1>4, <1>6, <2>1, <2>5, <2>6, WritesMind
<1>7. UNCHANGED dte_documents \/ (enabled /\ dte_documents' = [dte_documents EXCEPT ![d] = n])
  BY DEF HoldPaymentDocument, SetDocument, Document
<1> QED BY <1>2, <1>4, <1>5, <1>6, <1>7, WritesMind

\* What a sender knows of the row it writes.
LEMMA Sending ==
    ASSUME IInv, NEW r \in Runs, run[r].pc \in SendPCs
    PROVE  LET d == run[r].document
               c == run[r].correction
           IN  /\ d \in Docs /\ c \in Corrections /\ dte_documents[d] \in DteRow
               /\ fiscal_corrections[c].document = d /\ fiscal_corrections[c].dispatched
               /\ dte_documents[d].status = "SIGNED" /\ dte_documents[d].op_claim = c
               /\ codigo_generacion[d] = run[r].codigo
               /\ ~isTerminalDteStatus(dte_documents[d].status)
               /\ \A o \in Runs \ {r} : Undispatched(o) => run[o].correction # c
<1>1. run[r].pc \in CorrectionPCs
  BY PlainIsApart
<1>2. Works(r) /\ Knows(r) /\ OneDispatches
  BY DEF IInv, RunsKnow
<1>3. run[r].document \in Docs /\ dte_documents[run[r].document] \in DteRow
  BY <1>1, OfCorrection DEF Document
<1>4. ~isTerminalDteStatus("SIGNED")
  BY DEF isTerminalDteStatus, TerminalStatus
<1> QED BY <1>1, <1>2, <1>3, <1>4 DEF Works, Knows, Owns, OneDispatches, Dispatches

LEMMA UndoMinds ==
    ASSUME IInv, JInv, NEW r \in Runs, Undo(r)
    PROVE  JInv'
<1> DEFINE d   == run[r].document
           c   == run[r].correction
           row == dte_documents[d]
           n   == markDocumentFailed(row)
<1>1. run[r].pc = "undo" /\ run[r].pc \in SendPCs
  BY DEF Undo, At, SendPCs
<1>2. /\ d \in Docs /\ c \in Corrections /\ row \in DteRow
      /\ fiscal_corrections[c].document = d /\ fiscal_corrections[c].dispatched
      /\ row.op_claim = c /\ ~isTerminalDteStatus(row.status)
      /\ codigo_generacion[d] = run[r].codigo
      /\ \A o \in Runs \ {r} : Undispatched(o) => run[o].correction # c
  BY <1>1, Sending
<1>3. Writes(d, n)
  <2>1. markDocumentFailedEnabled(Document(r), c)
    BY <1>2 DEF markDocumentFailedEnabled, Document
  <2>2. dte_documents' = [dte_documents EXCEPT ![d] = n]
    BY <2>1 DEF Undo, SetDocument, Document
  <2> QED BY <2>2, OnlyWrites DEF Undo, Writes
<1>4. Turns(r, "error", "PRE_DISPATCH")
  BY RaiseTurns DEF Undo
<1>5. n.status = "FAILED" /\ n.op_claim = NULL
  BY <1>2, RowStatements
<1>6. n.op_claim \notin Corrections /\ ~isTerminalDteStatus(n.status)
  BY <1>5, Names DEF isTerminalDteStatus, TerminalStatus
<1>7. dte_documents'[d] = n
  BY <1>2, <1>3 DEF Writes, IInv, TypeOK
<1>8. Minding
  <2>1. OfPayment(r)
    BY <1>1 DEF JInv, Backing, Backed, At
  <2>2. posts[run[r].codigo] = 0
    BY <1>1 DEF IInv, RunsKnow, Knows
  <2>3. ASSUME Open(c)
        PROVE  codigo_generacion[d] = d
    BY <1>2, <2>1, <2>3 DEF JInv, Openings, HoldsRow, OfEvent, OfPayment, Correction
  <2>4. OfPayment(r)' /\ (Open(c)' => Open(c))
    BY <1>3, <1>4, <2>1 DEF Turns, OfPayment, Correction, Writes, Open
  <2>5. Open(c)' => GoesBack(r)'
    <3> HIDE DEF n
    <3> QED BY <1>2, <1>3, <1>4, <1>6, <1>7, <2>2, <2>3, <2>4 DEF GoesBack, Turns, Writes
  <2>6. Minds(r)'
    BY <1>4, <2>4, <2>5 DEF Minds, Backed, Turns, At, MadePCs, Open
  <2> QED BY <1>4, <2>6 DEF Turns, Minding
<1>9. Suits(d, n)
  <2>1. run'[r] # run[r]
    BY <1>1, <1>4 DEF Turns
  <2>2. \A o \in Runs : run'[o] = run[o] /\ Undispatched(o) => run[o].correction # c
    BY <1>2, <2>1
  <2> HIDE DEF n
  <2> QED BY <1>2, <1>5, <2>2, SuitsSender
<1>10. Made(d)
  BY <1>2, Names, IsMade
<1> HIDE DEF n
<1> QED BY <1>2, <1>3, <1>6, <1>8, <1>9, <1>10, WritesMind

LEMMA CompleteMinds ==
    ASSUME IInv, JInv, NEW r \in Runs, Complete(r)
    PROVE  JInv'
<1> DEFINE d   == run[r].document
           c   == run[r].correction
           row == dte_documents[d]
           n   == completeDocumentTransmission(row, run[r].verdict = "ACCEPTED")
<1>1. run[r].pc = "complete" /\ run[r].pc \in SendPCs
  BY DEF Complete, At, SendPCs
<1>2. /\ d \in Docs /\ c \in Corrections /\ row \in DteRow
      /\ fiscal_corrections[c].document = d /\ fiscal_corrections[c].dispatched
      /\ row.op_claim = c /\ ~isTerminalDteStatus(row.status) /\ row.status = "SIGNED"
      /\ \A o \in Runs \ {r} : Undispatched(o) => run[o].correction # c
  BY <1>1, Sending
<1>3. Writes(d, n)
  <2>1. completeDocumentTransmissionEnabled(Document(r), c)
    BY <1>2 DEF completeDocumentTransmissionEnabled, Document
  <2>2. dte_documents' = [dte_documents EXCEPT ![d] = n]
    BY <2>1 DEF Complete, SetDocument, Document
  <2> QED BY <2>2, OnlyWrites DEF Complete, Writes
<1>4. Minding
  BY DispatchersPass, PassesMinds
<1>5. n.status \in {"ACCEPTED", "REJECTED"} /\ n.op_claim = NULL
  BY <1>2, CompletedRow
<1>6. n.op_claim \notin Corrections /\ isTerminalDteStatus(n.status)
  BY <1>5, Names DEF isTerminalDteStatus, TerminalStatus
<1>7. Suits(d, n)
  <2>1. ~Undispatched(r)
    BY <1>1 DEF Undispatched
  <2>2. \A o \in Runs : run'[o] = run[o] /\ Undispatched(o) => run[o].correction # c
    BY <1>2, <2>1
  <2> HIDE DEF n
  <2> QED BY <1>2, <1>6, <2>2, SuitsSender
<1>8. Made(d)
  BY <1>2, Names, IsMade
<1> HIDE DEF n
<1> QED BY <1>2, <1>3, <1>4, <1>6, <1>7, <1>8, WritesMind

LEMMA FinalizeMinds ==
    ASSUME IInv, JInv, Minding, NEW d \in Docs,
           \/ Writes(d, dte_documents[d])
           \/ /\ Writes(d, markDocumentPostAcceptFinalized(dte_documents[d]))
              /\ claimDocumentPostAcceptFinalizationEnabled(dte_documents[d], FALSE)
    PROVE  JInv'
<1> DEFINE row == dte_documents[d]
           n   == markDocumentPostAcceptFinalized(row)
<1>1. row \in DteRow
  BY Typed DEF IInv
<1>2. n.status = row.status /\ n.op_claim = row.op_claim /\ n.op_kind = row.op_kind
        /\ n.op_event = row.op_event
  BY <1>1, RowStatements, ClaimFields
<1>3. n.op_claim \in Corrections => Held(n, n.op_claim)
  BY <1>2, ClaimStays
<1>4. Suits(d, n)
  BY <1>2, SuitsKept
<1>5. claimDocumentPostAcceptFinalizationEnabled(row, FALSE) => Made(d)
  BY IsMade DEF claimDocumentPostAcceptFinalizationEnabled
<1> HIDE DEF n
<1> QED BY <1>3, <1>4, <1>5, WritesMind DEF n

LEMMA FinalizeAcceptedMinds ==
    ASSUME IInv, JInv, NEW r \in Runs, FinalizeAccepted(r)
    PROVE  JInv'
<1> DEFINE d == run[r].document
<1>1. run[r].pc \in CorrectionPCs
  BY Plain DEF FinalizeAccepted, At
<1>2. d \in Docs
  BY <1>1, OfCorrection
<1>3. Minding
  BY DispatchersPass, PassesMinds
<1>4. \/ Writes(d, dte_documents[d])
      \/ /\ Writes(d, markDocumentPostAcceptFinalized(dte_documents[d]))
         /\ claimDocumentPostAcceptFinalizationEnabled(dte_documents[d], FALSE)
  BY OnlyWrites DEF FinalizeAccepted, Writes, SetDocument, Document
<1> QED BY <1>2, <1>3, <1>4, FinalizeMinds

LEMMA StillMinds == UNCHANGED run => Minding
  BY DEF Minding

LEMMA FinalizeByCronMinds ==
    ASSUME IInv, JInv, NEW d \in Docs, FinalizeByCron(d)
    PROVE  JInv'
<1>1. /\ Writes(d, markDocumentPostAcceptFinalized(dte_documents[d]))
      /\ claimDocumentPostAcceptFinalizationEnabled(dte_documents[d], FALSE)
  BY DEF FinalizeByCron, Writes, otherVars, mhVars, IInv, TypeOK
<1>2. Minding
  BY StillMinds DEF FinalizeByCron
<1> QED BY <1>1, <1>2, FinalizeMinds

LEMMA SignElsewhereMinds ==
    ASSUME IInv, JInv, NEW d \in Docs, SignElsewhere(d)
    PROVE  JInv'
<1> DEFINE row == dte_documents[d]
<1>1. row \in DteRow
  BY Typed DEF IInv
<1>2. PICK n \in {updateDocumentSigned(row), markDocumentFailed(row)} : Writes(d, n)
  BY DEF SignElsewhere, Writes, otherVars, mhVars
<1>3. Minding
  BY StillMinds DEF SignElsewhere
<1>4. row.status \in {"PENDING", "FAILED"} /\ row.op_claim = NULL /\ ~isTerminalDteStatus(row.status)
  BY DEF SignElsewhere, updateDocumentSignedEnabled, isTerminalDteStatus, TerminalStatus
<1>5. n.status \in {"SIGNED", "FAILED"} /\ n.op_claim = NULL
  BY <1>1, <1>2, <1>4, RowStatements
<1>6. ~isTerminalDteStatus(n.status) /\ n.op_claim \notin Corrections
  BY <1>5, Names DEF isTerminalDteStatus, TerminalStatus
<1>7. Suits(d, n)
  BY <1>4, <1>5, <1>6, SuitsFree
<1>8. Made(d)
  BY DEF SignElsewhere, Made, Exists
<1> QED BY <1>2, <1>3, <1>6, <1>7, <1>8, WritesMind

LEMMA TxTokenFailsMinds ==
    ASSUME IInv, JInv, NEW r \in Runs, TxTokenFails(r) \/ TxComplete(r)
    PROVE  JInv'
<1> DEFINE d   == run[r].document
           row == dte_documents[d]
           done == completeDocumentTransmission(row, run[r].verdict = "ACCEPTED")
<1>1. run[r].pc \in TxPCs
  BY DEF TxTokenFails, TxComplete, At, TxPCs
<1>2. d \in Docs /\ row \in DteRow
  BY <1>1, OfSender, Typed DEF IInv
<1>3. Owns(r, r)
  BY <1>1 DEF IInv, RunsKnow, Knows
<1>4. /\ row.status = "SIGNED" /\ row.op_claim = r /\ ~isTerminalDteStatus(row.status)
      /\ r \notin Corrections \cup {NULL}
  BY <1>3, Names DEF Owns, isTerminalDteStatus, TerminalStatus
<1>5. PICK n \in {markDocumentTransmissionDeferred(row), releaseDocumentFiscalOperation(row), done} :
         Writes(d, n)
  <2>1. completeDocumentTransmissionEnabled(Document(r), r)
    BY <1>4 DEF completeDocumentTransmissionEnabled, Document
  <2> QED BY <2>1, OnlyWrites DEF TxTokenFails, TxComplete, Writes, SetDocument, Document
<1>6. Minding
  BY NeighboursPass, PassesMinds
<1>7. n.op_claim = NULL
  <2>1. markDocumentTransmissionDeferred(row).op_claim = NULL
        /\ releaseDocumentFiscalOperation(row).op_claim = NULL
    BY <1>2, RowStatements DEF releaseDocumentFiscalOperation
  <2>2. done.op_claim = NULL
    <3>1. (run[r].verdict = "ACCEPTED") \in BOOLEAN
      OBVIOUS
    <3> QED BY <1>2, <3>1, CompletedRow
  <2> HIDE DEF done
  <2> QED BY <1>5, <2>1, <2>2
<1>8. n.op_claim \notin Corrections
  BY <1>7, Names
<1>9. Suits(d, n)
  BY <1>2, <1>4, SuitsForeign
<1>10. Made(d)
  BY <1>2, <1>4, IsMade
<1> QED BY <1>2, <1>5, <1>6, <1>8, <1>9, <1>10, WritesMind

LEMMA StartInvalidateMinds ==
    ASSUME IInv, JInv, NEW r \in Runs, NEW d \in Docs, StartInvalidate(r, d)
    PROVE  JInv'
<1> DEFINE row == dte_documents[d]
           n   == createAndAttachDocumentInvalidationEvent(claimDocumentInvalidation(row, r), r)
<1>1. row \in DteRow
  BY Typed DEF IInv
<1>2. Writes(d, n)
  BY OnlyWrites DEF StartInvalidate, Writes, IInv, TypeOK
<1>3. Minding
  BY BeginnersPass, PassesMinds
<1>4. row.status = "ACCEPTED"
  BY DEF StartInvalidate, claimDocumentInvalidationEnabled
<1>5. n.status = row.status /\ n.op_claim = r
  BY <1>1 DEF createAndAttachDocumentInvalidationEvent, claimDocumentInvalidation, DteRow
<1>6. n.op_claim \notin Corrections /\ isTerminalDteStatus(n.status)
  BY <1>4, <1>5, Names DEF isTerminalDteStatus, TerminalStatus
<1>7. Suits(d, n)
  BY <1>4, <1>6, SuitsDecided
<1>8. Made(d)
  BY <1>4, IsMade
<1> HIDE DEF n
<1> QED BY <1>2, <1>3, <1>6, <1>7, <1>8, WritesMind

LEMMA InvCompleteMinds ==
    ASSUME IInv, JInv, NEW r \in Runs, InvComplete(r)
    PROVE  JInv'
<1> DEFINE d   == run[r].document
           row == dte_documents[d]
           n   == completeDocumentInvalidation(row, run[r].verdict = "ACCEPTED")
<1>1. run[r].pc = "inv_complete"
  BY DEF InvComplete, At
<1>2. d \in Docs /\ row \in DteRow
  BY <1>1, Typed DEF IInv, RunsKnow, Works
<1>3. Minding
  BY NeighboursPass, PassesMinds
<1>4. Writes(d, row) \/ (Writes(d, n) /\ row.status = "ACCEPTED")
  BY OnlyWrites DEF InvComplete, Writes, SetDocument, Document, completeDocumentInvalidationEnabled,
                    OwnsInvalidation
<1>5. n.status \in {"ACCEPTED", "INVALIDATED"} /\ n.op_claim = NULL
  BY <1>2 DEF completeDocumentInvalidation, WithoutOperation, DteRow
<1>6. n.op_claim \notin Corrections /\ isTerminalDteStatus(n.status)
  BY <1>5, Names DEF isTerminalDteStatus, TerminalStatus
<1>7. row.status = "ACCEPTED" => Suits(d, n) /\ Made(d)
  BY <1>2, <1>6, SuitsDecided, IsMade
<1> HIDE DEF n
<1> QED BY <1>2, <1>3, <1>4, <1>6, <1>7, WritesMind

-----------------------------------------------------------------------------
(* The steps that write no document, no event and no dispatch marker.      *)

LEMMA SettlersKeepMarks ==
    ASSUME IInv, NEW r \in Runs,
           \/ ClaimProcessing(r) \/ Reconcile(r) \/ Review(r) \/ Error(r) \/ Finish(r)
           \/ Reserve(r) \/ RenewLease(r) \/ Recover(r)
    PROVE  SameMarks
<1> DEFINE x == Correction(r)
<1>1. run[r].pc \in CorrectionPCs
  BY Plain DEF ClaimProcessing, Reconcile, Review, Error, Finish, Reserve, RenewLease, Recover, At
<1>2. x \in CorrectionRow
  BY <1>1, OfCorrection
<1>3. /\ \A status : Finalized(x, status).dispatched = x.dispatched
      /\ claimFiscalCorrectionProcessing(x).dispatched = x.dispatched
      /\ Renewed(x).dispatched = x.dispatched
      /\ \A n : [Renewed(x) EXCEPT !.number = n].dispatched = x.dispatched
      /\ \A t : recoverFiscalCorrectionProcessingClaim(x, t).dispatched = x.dispatched
  BY <1>2 DEF CorrectionRow, Finalized, claimFiscalCorrectionProcessing, Renewed,
              recoverFiscalCorrectionProcessingClaim
<1>4. UNCHANGED fiscal_corrections \/ \E y : y.dispatched = x.dispatched /\ SetCorrection(r, y)
  <2>1. CASE ClaimProcessing(r) \/ Review(r) \/ RenewLease(r)
    BY <1>3, <2>1 DEF ClaimProcessing, Review, RenewLease
  <2>2. CASE Reconcile(r) \/ Error(r) \/ Finish(r)
    BY <1>3, <2>2 DEF Reconcile, Error, Finish, SettleVerdict
  <2>3. CASE Reserve(r) \/ Recover(r)
    BY <1>3, <2>3 DEF Reserve, Recover
  <2> QED BY <2>1, <2>2, <2>3
<1> QED BY <1>4 DEF SameMarks, SetCorrection, Correction, IInv, TypeOK

LEMMA OthersKeepMarks ==
    ASSUME IInv, UNCHANGED fiscal_corrections \/ \E c \in Corrections : RecoverVerdict(c) \/ GoesStale(c)
    PROVE  SameMarks
<1>1. \A c \in Corrections : \A status :
         Finalized(fiscal_corrections[c], status).dispatched = fiscal_corrections[c].dispatched
  BY Typed DEF IInv, CorrectionRow, Finalized
<1>2. ASSUME NEW c \in Corrections, RecoverVerdict(c) \/ GoesStale(c)
      PROVE  SameMarks
  BY <1>1, <1>2, Typed DEF RecoverVerdict, GoesStale, SameMarks, IInv, TypeOK, CorrectionRow
<1> QED BY <1>2 DEF SameMarks

\* The catch block of a delivery that knows that nothing was sent.
LEMMA ErrorMinding ==
    ASSUME IInv, JInv, NEW r \in Runs, Error(r)
    PROVE  Minding
<1> DEFINE handled == IF run[r].error = "PRE_DISPATCH"
                        THEN IF Correction(r).dispatched THEN "clear" ELSE "fail"
                        ELSE IF Correction(r).dispatched THEN "review" ELSE "fail"
           state   == [run[r] EXCEPT !.pc = handled, !.seen = Correction(r).token]
<1>1. run[r] \in RunState /\ run \in [Runs -> RunState] /\ run[r].pc = "error"
  BY DEF IInv, TypeOK, Error, At
<1>2. Ack(r) \/ run' = [run EXCEPT ![r] = state]
  BY <1>1 DEF Error, SettleVerdict
<1>3. ASSUME run' = [run EXCEPT ![r] = state]
      PROVE  Minding
  <2>1. /\ \A o \in Runs \ {r} : run'[o] = run[o]
        /\ run'[r].pc = handled /\ run'[r].error = run[r].error
        /\ run'[r].correction = run[r].correction /\ run'[r].document = run[r].document
    BY <1>1, <1>3 DEF RunState
  <2>2. handled \notin MadePCs \cup {"undo"}
    BY DEF MadePCs
  <2>3. Undispatched(r)' => Undispatched(r)
    BY <1>1, <2>1 DEF Undispatched
  <2>4. Undispatched(r) => run[r].correction \in Corrections
    BY PlainIsApart DEF Undispatched, IInv, RunsKnow, Works
  <2>5. Undispatched(r)' /\ Open(run[r].correction)' => GoesBack(r)'
    <3> SUFFICES ASSUME Undispatched(r)', Open(run[r].correction)'
                 PROVE  GoesBack(r)'
      OBVIOUS
    <3>1. OnlyAges
      BY HandlersAge
    <3>2. Open(run[r].correction)
      BY <2>1, <2>3, <2>4, <3>1, RivalsStay DEF JInv, Open
    <3>3. GoesBack(r)
      BY <2>3, <3>2, GoingBack
    <3>4. OfPayment(r)' = OfPayment(r)
      BY <2>1, <2>3, <2>4, <3>1 DEF OfPayment, Correction, OnlyAges, Ages
    <3>5. UNCHANGED <<dte_documents, codigo_generacion, posts>>
      BY DEF Error, docVars, mhVars
    <3> QED BY <2>1, <3>3, <3>4, <3>5 DEF GoesBack, Held
  <2>6. Minds(r)'
    BY <2>1, <2>2, <2>5 DEF Minds, Backed, At, Open
  <2> QED BY <2>1, <2>6 DEF Minding
<1> QED BY <1>2, <1>3, Passing, PassesMinds

\* Where a delivery takes a CDE in hand, or the last step goes wrong.
LEMMA TakesMinding ==
    ASSUME IInv, JInv, NEW r \in Runs,
           \/ ReadDocument(r) \/ ReadPayment(r) \/ Transmit(r) \/ StatementThrows(r)
    PROVE  Minding
<1> DEFINE d     == run[r].document
           quiet == MadePCs \cup {"undo", "error", "clear"}
<1>1. run[r] \in RunState /\ run \in [Runs -> RunState] /\ UNCHANGED wompi_events
  BY DEF IInv, TypeOK, ReadDocument, ReadPayment, Transmit, StatementThrows, tableVars, otherVars
<1>2. \A pc \in {"retire", "reserve", "hold", "handler", "claim_event", "fin", "finish", "mark",
                 "claim_doc"} : pc \notin quiet
  BY DEF MadePCs
<1>3. ASSUME NEW pc \in MadePCs, Made(d),
             \A o \in Runs \ {r} : run'[o] = run[o], run'[r].pc = pc, run'[r].document = d
      PROVE  Minding
  <2>1. Made(run[r].document)'
    BY <1>1, <1>3 DEF Made
  <2>2. Minds(r)'
    BY <1>1, <1>3 DEF Minds, Made, Backed, At, Undispatched, MadePCs
  <2> QED BY <1>3, <2>2 DEF Minding
<1>4. ASSUME NEW pc \in MadePCs, Made(d), Goto(r, pc)
      PROVE  Minding
  <2>1. Turns(r, pc, run[r].error)
    BY <1>4, GotoTurns
  <2> QED BY <1>3, <1>4, <2>1 DEF Turns
<1>5. CASE ReadDocument(r)
  <2>1. run[r].pc \in CorrectionPCs
    BY <1>5, Plain DEF ReadDocument, At
  <2>2. d \in Docs /\ run[r].correction \in Corrections
    BY <2>1, OfCorrection
  <2>3. Held(Document(r), run[r].correction) => Made(d)
    BY <2>2, Names, IsMade DEF Held, Document
  <2>4. \/ RaiseError(r, "OTHER") \/ FailInvalid(r) \/ Goto(r, "retire") \/ Goto(r, "reserve")
        \/ Goto(r, "transmit") /\ Made(d)
    BY <1>5, <2>3 DEF ReadDocument
  <2>5. "transmit" \in MadePCs
    BY DEF MadePCs
  <2> QED BY <1>2, <1>4, <2>4, <2>5, Passing, PassesMinds
<1>6. CASE ReadPayment(r)
  <2>1. Event(r).document => Made(d)
    BY DEF Event, Made, Exists
  <2>2. \/ FailInvalid(r) \/ Goto(r, "handler") \/ Goto(r, "hold") \/ Goto(r, "claim_event")
        \/ Goto(r, "transmit") /\ Made(d)
    BY <1>6, <2>1 DEF ReadPayment
  <2>3. "transmit" \in MadePCs
    BY DEF MadePCs
  <2> QED BY <1>2, <1>4, <2>2, <2>3, Passing, PassesMinds
<1>7. CASE Transmit(r)
  <2>1. Made(d)
    BY <1>7 DEF Transmit, At, JInv, Making, MadePCs
  <2>2. Document(r) \in DteRow
    <3>1. run[r].pc \in CorrectionPCs
      BY <1>7, Plain DEF Transmit, At
    <3> QED BY <3>1, OfCorrection
  <2>3. PICK pc \in {"fin", "finish", "sign_held", "mark", "sign", "claim_doc"} :
           run' = [run EXCEPT ![r] = [run[r] EXCEPT !.codigo = Codigo(r),
                                                    !.expected = Document(r).status, !.pc = pc]]
    <3> DEFINE row  == Document(r)
               held == Held(row, run[r].correction)
               pc   == IF isTerminalDteStatus(row.status)
                         THEN IF row.status = "ACCEPTED" /\ ~row.finalized_at THEN "fin" ELSE "finish"
                         ELSE CASE held /\ (~row.signed_jws \/ row.status # "SIGNED") -> "sign_held"
                                [] held /\ row.signed_jws /\ row.status = "SIGNED"    -> "mark"
                                [] ~held /\ ~row.signed_jws                           -> "sign"
                                [] ~held /\ row.signed_jws                            -> "claim_doc"
    <3>1. run' = [run EXCEPT ![r] = [run[r] EXCEPT !.codigo = Codigo(r),
                                                   !.expected = row.status, !.pc = pc]]
      BY <1>1, <1>7 DEF Transmit
    <3>2. row.signed_jws \in BOOLEAN /\ held \in BOOLEAN
      BY <2>2 DEF DteRow, Held
    <3>3. pc \in {"fin", "finish", "sign_held", "mark", "sign", "claim_doc"}
      BY <3>2
    <3> QED BY <3>1, <3>3
  <2>4. /\ \A o \in Runs \ {r} : run'[o] = run[o]
        /\ run'[r].pc = pc /\ run'[r].document = d
    BY <1>1, <2>3 DEF RunState
  <2>5. CASE pc \in MadePCs
    BY <1>3, <2>1, <2>4, <2>5
  <2>6. CASE pc \notin MadePCs
    BY <2>4, <2>6, PassesMinds DEF Passes, Undispatched
  <2> QED BY <2>5, <2>6
<1>8. CASE StatementThrows(r)
  <2>1. CASE run[r].pc \notin {"sign", "sign_held"}
    BY <1>8, <2>1, DispatchersPass, PassesMinds
  <2>2. CASE run[r].pc \in {"sign", "sign_held"}
    <3>1. Goto(r, "unsigned")
      BY <1>8, <2>2 DEF StatementThrows, RebuildPCs, DispatchPCs, SettlePCs
    <3>2. Made(d) /\ "unsigned" \in MadePCs
      BY <2>2 DEF JInv, Making, MadePCs
    <3> QED BY <1>4, <3>1, <3>2
  <2> QED BY <2>1, <2>2
<1> QED BY <1>5, <1>6, <1>7, <1>8

LEMMA TokenFailsMinding ==
    ASSUME IInv, JInv, NEW r \in Runs, TokenFails(r)
    PROVE  Minding
<1> DEFINE d == run[r].document
           c == run[r].correction
<1>1. run[r].pc = "dispatch" /\ run[r].pc \in SendPCs
  BY DEF TokenFails, At, SendPCs
<1>2. /\ d \in Docs /\ c \in Corrections
      /\ fiscal_corrections[c].document = d /\ fiscal_corrections[c].dispatched
      /\ dte_documents[d].status = "SIGNED" /\ dte_documents[d].op_claim = c
  BY <1>1, Sending
<1>3. UNCHANGED <<fiscal_corrections, dte_documents, codigo_generacion>>
  BY DEF TokenFails, tableVars, docVars
<1>4. CASE OfPayment(r)
  <2>1. Turns(r, "undo", run[r].error)
    BY <1>4, GotoTurns DEF TokenFails
  <2>2. Minds(r)'
    BY <1>3, <1>4, <2>1 DEF Turns, Minds, Backed, Undispatched, MadePCs, OfPayment, Correction
  <2> QED BY <2>1, <2>2 DEF Turns, Minding
<1>5. CASE ~OfPayment(r)
  <2>1. Turns(r, "error", "PRE_DISPATCH")
    BY <1>5, RaiseTurns DEF TokenFails
  <2>2. Held(dte_documents[d], c)
    BY <1>2 DEF JInv, HeldRows
  <2>3. Open(c) => codigo_generacion[d] = c
    BY <1>2, <1>5 DEF JInv, Openings, HoldsRow, HoldsDocument, OfEvent, OfPayment, Correction
  <2>4. ~OfPayment(r)' /\ (Open(run[r].correction)' => Open(c))
    BY <1>3, <1>5, <2>1 DEF Turns, OfPayment, Correction, Open
  <2>5. Open(run[r].correction)' => GoesBack(r)'
    BY <1>2, <1>3, <2>1, <2>2, <2>3, <2>4 DEF GoesBack, Turns, Held
  <2>6. Minds(r)'
    BY <2>1, <2>5 DEF Minds, Backed, Turns, At, MadePCs, Open
  <2> QED BY <2>1, <2>6 DEF Turns, Minding
<1> QED BY <1>4, <1>5

LEMMA QuietRunMinds ==
    ASSUME IInv, JInv, NEW r \in Runs,
           \/ Send(r) \/ DeadLoad(r) \/ Handler(r)
           \/ Load(r) \/ ClaimProcessing(r) \/ Reload(r) \/ Reconcile(r) \/ Review(r) \/ Error(r)
           \/ ReadDocument(r) \/ Reserve(r) \/ RenewLease(r) \/ ReadPayment(r)
           \/ Transmit(r) \/ TokenFails(r) \/ Reply(r) \/ Catch(r) \/ Finish(r)
           \/ Recover(r) \/ TxReply(r) \/ InvPost(r)
           \/ StatementThrows(r) \/ Crash(r)
           \/ \E t \in Tokens : Deliver(r, t) \/ DeadDeliver(r, t)
           \/ \E c \in Corrections : StartRecovery(r, c)
           \/ \E d \in Docs : StartTransmit(r, d)
    PROVE  JInv'
<1>1. Minding
  BY SettlersPass, DispatchersPass, NeighboursPass, BeginnersPass, PassesMinds, ErrorMinding,
     TakesMinding, TokenFailsMinding
<1>2. CASE \/ ClaimProcessing(r) \/ Reconcile(r) \/ Review(r) \/ Error(r) \/ Finish(r)
           \/ Reserve(r) \/ RenewLease(r) \/ Recover(r)
  <2>1. OnlyAges /\ SameMarks
    BY <1>2, HandlersAge, SettlersKeepMarks
  <2>2. UNCHANGED <<docVars, wompi_events, posts>>
    BY Zenon, <1>2 DEF ClaimProcessing, Reconcile, Review, Error, Finish, Reserve, RenewLease, Recover,
                otherVars, mhVars
  <2> QED BY <1>1, <2>1, <2>2, QuietlyMinds
<1>3. CASE \/ Send(r) \/ DeadLoad(r) \/ Handler(r) \/ Load(r) \/ Reload(r)
           \/ ReadDocument(r) \/ ReadPayment(r)
           \/ Transmit(r) \/ TokenFails(r) \/ Reply(r) \/ Catch(r) \/ TxReply(r) \/ InvPost(r)
           \/ StatementThrows(r) \/ Crash(r)
           \/ \E t \in Tokens : Deliver(r, t) \/ DeadDeliver(r, t)
           \/ \E c \in Corrections : StartRecovery(r, c)
           \/ \E d \in Docs : StartTransmit(r, d)
  <2>1. UNCHANGED <<tableVars, posts>>
    BY Zenon, <1>3 DEF Send, DeadLoad, Handler, Load, Reload, ReadDocument, ReadPayment, Transmit, TokenFails,
                Reply, ReadReply, Catch, TxReply, InvPost, StatementThrows, Crash, Deliver, DeadDeliver,
                StartDelivery, StartRecovery, StartTransmit, mhVars
  <2>2. UNCHANGED <<fiscal_corrections, docVars, wompi_events, posts>>
    BY <2>1 DEF tableVars, otherVars
  <2> QED BY <1>1, <2>2, OthersAge, OthersKeepMarks, QuietlyMinds
<1> QED BY <1>2, <1>3

LEMMA QuietMinds ==
    ASSUME IInv, JInv,
           \/ \E c \in Corrections : RecoverVerdict(c) \/ GoesStale(c)
           \/ \E k \in NewCodes, verdict \in {"PROCESADO", "RECHAZADO"} : MhDecides(k, verdict)
           \/ UNCHANGED vars
    PROVE  JInv'
<1>1. UNCHANGED <<docVars, wompi_events, posts, run>>
  BY DEF RecoverVerdict, GoesStale, MhDecides, vars, tableVars, otherVars, mhVars, docVars
<1>2. UNCHANGED fiscal_corrections \/ \E c \in Corrections : RecoverVerdict(c) \/ GoesStale(c)
  BY DEF MhDecides, vars, tableVars
<1> QED BY <1>1, <1>2, StillMinds, OthersAge, OthersKeepMarks, QuietlyMinds

-----------------------------------------------------------------------------
(* The payment's event is written, once more.                              *)

LEMMA EventMinds ==
    ASSUME IInv, JInv, Minding, UNCHANGED <<fiscal_corrections, docVars, posts>>, EventsExist,
           NEW d, NEW f, EventWritten(d, f),
           \A c \in Corrections :
              /\ Open(c) /\ OfEvent(c) /\ fiscal_corrections[c].document = d
              /\ wompi_events[d].attempt = c /\ Working(wompi_events[d])
              => f.attempt = c /\ Working(f)
    PROVE  JInv'
<1>1. /\ wompi_events'[d] = f
      /\ \A e \in Docs \ {d} : wompi_events'[e] = wompi_events[e]
  BY DEF EventWritten, IInv, TypeOK
<1>2. OnlyAges /\ NoRivals'
  BY OthersAge, RivalsStay DEF JInv
<1>3. HeldRows' /\ Unmade' /\ Making'
  BY TablesStay, MakingStays
<1>4. Openings'
  <2>1. ASSUME NEW c \in Corrections, Open(c)'
        PROVE  HoldsRow(c)' /\ HoldsEvent(c)' /\ Unposted(c)'
    <3>1. Open(c) /\ HoldsRow(c) /\ HoldsEvent(c) /\ Unposted(c)
      BY <2>1 DEF JInv, Openings, Open
    <3>2. fiscal_corrections[c].document \in Docs
      BY <3>1 DEF Open, OpenStatus, IInv, Places
    <3>3. HoldsRow(c)' /\ Unposted(c)'
      BY <3>1 DEF HoldsRow, HoldsPayment, HoldsDocument, OfEvent, Unposted, CodigoOf, docVars
    <3>4. HoldsEvent(c)'
      <4>1. CASE fiscal_corrections[c].document = d
        BY <1>1, <3>1, <4>1 DEF HoldsEvent, OfEvent
      <4>2. CASE fiscal_corrections[c].document # d
        BY <1>1, <3>1, <3>2, <4>2 DEF HoldsEvent, OfEvent
      <4> QED BY <4>1, <4>2
    <3> QED BY <3>3, <3>4
  <2> QED BY <2>1 DEF Openings
<1>5. Backing'
  BY <1>2, BackingStays, SameBacked DEF docVars, Held
<1> QED BY <1>2, <1>3, <1>4, <1>5 DEF JInv

LEMMA StaysWorking ==
    ASSUME NEW e, NEW f, GoesOnWorking(e, f), Working(e)
    PROVE  f.attempt = e.attempt /\ Working(f)
  BY DEF GoesOnWorking, SameWork, Working, W!Queued

LEMMA TransmitMinding ==
    ASSUME IInv, NEW r \in Runs, Goto(r, "transmit"), NEW d, d = run[r].document, Made(d)'
    PROVE  Minding
<1>1. Turns(r, "transmit", run[r].error)
  BY GotoTurns
<1>2. Minds(r)'
  BY <1>1 DEF Turns, Minds, Made, Backed, At, Undispatched
<1> QED BY <1>1, <1>2 DEF Turns, Minding

LEMMA CorrectionEventMinds ==
    ASSUME IInv, JInv, NEW r \in Runs, ClaimEvent(r) \/ CreateCorrected(r) \/ ReleaseEvent(r)
    PROVE  JInv'
<1> PICK d : d = run[r].document
  OBVIOUS
<1>1. EventsExist
  BY HandlersKeepEvents
<1>2. PICK f : EventWritten(d, f) /\ GoesOnWorking(Event(r), f)
  BY CorrectionEvents
<1>3. d \in Docs /\ Event(r) \in W!WompiRow
  BY <1>2 DEF EventWritten, Event
<1>4. Event(r).document => Made(d)'
  BY <1>1, <1>3 DEF Event, Made, Exists, EventsExist
<1>5. Minding
  <2>1. "handler" \notin MadePCs \cup {"undo", "error", "clear"}
        /\ "create" \notin MadePCs \cup {"undo", "error", "clear"}
    BY DEF MadePCs
  <2>2. CASE ReleaseEvent(r)
    BY <2>2, DispatchersPass, PassesMinds
  <2>3. CASE ClaimEvent(r)
    <3>1. Goto(r, "create") \/ Goto(r, "handler") \/ (Goto(r, "transmit") /\ Event(r).document)
      BY <2>3 DEF ClaimEvent
    <3> QED BY <1>4, <2>1, <3>1, Passing, PassesMinds, TransmitMinding
  <2>4. CASE CreateCorrected(r)
    <3> DEFINE first    == W!reserveWompiDocumentIdentifiersEnabled(Event(r))
               reserved == IF first THEN [Event(r) EXCEPT !.number = document_sequences] ELSE Event(r)
               enabled  == W!createClaimedWompiDteDocumentEnabled(reserved, run[r].correction)
    <3>1. enabled => SetEvent(r, W!createClaimedWompiDteDocument(reserved))
      BY <2>4 DEF CreateCorrected, CreateDocument
    <3>2. /\ enabled => Goto(r, "transmit")
          /\ ~enabled => (Goto(r, "transmit") /\ Event(r).document) \/ Release(r, "BUSY")
      BY <2>4 DEF CreateCorrected, CreateDocument
    <3>3. reserved \in W!WompiRow
      BY <1>3, EventStatements DEF IInv, TypeOK
    <3> HIDE DEF reserved
    <3>4. enabled => Made(d)'
      <4>1. W!createClaimedWompiDteDocument(reserved).document
        BY <3>3, EventFields
      <4>2. enabled => wompi_events' = [wompi_events EXCEPT ![d] = W!createClaimedWompiDteDocument(reserved)]
        BY <3>1 DEF SetEvent
      <4>3. enabled => wompi_events'[d] = W!createClaimedWompiDteDocument(reserved)
        BY <1>3, <4>2 DEF IInv, TypeOK
      <4> HIDE DEF enabled
      <4> QED BY <4>1, <4>3 DEF Made, Exists
    <3> QED BY <1>4, <3>2, <3>4, Passing, PassesMinds, TransmitMinding
  <2> QED BY <2>2, <2>3, <2>4
<1>6. UNCHANGED <<fiscal_corrections, docVars, posts>>
  BY DEF ClaimEvent, CreateCorrected, CreateDocument, ReleaseEvent, mhVars
<1>7. ASSUME NEW c \in Corrections, wompi_events[d].attempt = c, Working(wompi_events[d])
      PROVE  f.attempt = c /\ Working(f)
  BY <1>2, <1>7, StaysWorking DEF Event
<1> QED BY <1>1, <1>2, <1>5, <1>6, <1>7, EventMinds

LEMMA IssueMinds ==
    ASSUME IInv, JInv, NEW r \in Runs,
           IssueCheck(r) \/ IssuePark(r) \/ IssueCreate(r) \/ IssueRelease(r)
    PROVE  JInv'
<1> DEFINE d == run[r].document
<1>1. EventsExist
  BY HandlersKeepEvents
<1>2. PICK f : /\ EventWritten(d, f)
               /\ \/ GoesOnWorking(Event(r), f)
                  \/ W!recordWompiIssuanceFailureEnabled(Event(r), OwnAttempt)
  BY IssueEvents
<1>3. Minding
  BY NeighboursPass, PassesMinds
<1>4. UNCHANGED <<fiscal_corrections, docVars, posts>>
  BY DEF IssueCheck, IssuePark, IssueCreate, CreateDocument, IssueRelease, mhVars
<1>5. ASSUME NEW c \in Corrections, wompi_events[d].attempt = c, Working(wompi_events[d])
      PROVE  f.attempt = c /\ Working(f)
  <2>1. GoesOnWorking(Event(r), f)
    BY <1>2, <1>5, OwnAttemptIsNoCorrection DEF W!recordWompiIssuanceFailureEnabled, Event
  <2> QED BY <1>5, <2>1, StaysWorking DEF Event
<1> QED BY <1>1, <1>2, <1>3, <1>4, <1>5, EventMinds

LEMMA QueueMinds ==
    ASSUME IInv, JInv, NEW d \in Docs,
           (\E r \in Runs : StartIssue(r, d)) \/ RetryIssuance(d) \/ SweepIssuance(d)
    PROVE  JInv'
<1>1. EventsExist /\ \E f : EventWritten(d, f)
  BY QueueEvents, QueuersKeepEvents
<1>2. PICK f : EventWritten(d, f)
  BY <1>1
<1>3. Minding
  BY StartIssuePasses, PassesMinds, StillMinds DEF RetryIssuance, SweepIssuance
<1>4. UNCHANGED <<fiscal_corrections, docVars, posts>>
  BY DEF StartIssue, RetryIssuance, SweepIssuance, mhVars
<1>5. ASSUME NEW c \in Corrections, Open(c), OfEvent(c), fiscal_corrections[c].document = d,
             wompi_events[d].attempt = c
      PROVE  FALSE
  <2>1. CASE \E r \in Runs : StartIssue(r, d)
    BY <1>5, <2>1, OwnAttemptIsNoCorrection DEF StartIssue, W!markWompiIssuanceProcessingEnabled
  <2>2. CASE RetryIssuance(d)
    BY <1>5, <2>2 DEF RetryIssuance, RetryExcluded, Open, OfEvent, Blocks
  <2>3. CASE SweepIssuance(d)
    <3> DEFINE mine == {b \in Corrections : fiscal_corrections[b].document = d}
               seen == [b \in mine |-> fiscal_corrections[b]]
    <3>1. ~SweepExcluded([wompi_events[d] EXCEPT !.stalled = TRUE], seen)
      BY <2>3 DEF SweepIssuance
    <3>2. c \in DOMAIN seen /\ seen[c] = fiscal_corrections[c]
      BY <1>5
    <3> HIDE DEF seen
    <3> QED BY <1>5, <3>1, <3>2 DEF SweepExcluded, Open, OfEvent, Blocks
  <2> QED BY <2>1, <2>2, <2>3
<1> QED BY <1>1, <1>2, <1>3, <1>4, <1>5, EventMinds

-----------------------------------------------------------------------------
(* The dispatch marker.                                                    *)

LEMMA MarkMinds ==
    ASSUME IInv, JInv, OnlyAges, Minding, UNCHANGED <<docVars, wompi_events, posts>>,
           NEW c \in Corrections, NEW b \in BOOLEAN,
           fiscal_corrections' = [fiscal_corrections EXCEPT
                                    ![c] = [fiscal_corrections[c] EXCEPT !.dispatched = b]],
           Open(c) /\ HoldsRow(c) /\ Unposted(c) => HoldsRow(c)' /\ Unposted(c)'
    PROVE  JInv'
<1>1. NoRivals' /\ \A o \in Corrections : Open(o)' => Open(o)
  BY RivalsStay DEF JInv
<1>2. HeldRows' /\ Unmade' /\ Making'
  BY SameEventsExist, TablesStay, MakingStays
<1>3. Openings'
  <2>1. ASSUME NEW o \in Corrections, Open(o)'
        PROVE  HoldsRow(o)' /\ HoldsEvent(o)' /\ Unposted(o)'
    <3>1. HoldsRow(o) /\ HoldsEvent(o) /\ Unposted(o) /\ Open(o)
      BY <1>1, <2>1 DEF JInv, Openings
    <3>2. HoldsEvent(o)'
      BY <3>1 DEF HoldsEvent, OfEvent, OnlyAges, Ages
    <3>3. CASE o = c
      BY <3>1, <3>2, <3>3
    <3>4. CASE o # c
      <4>1. fiscal_corrections'[o] = fiscal_corrections[o]
        BY <3>4 DEF IInv, TypeOK
      <4>2. HoldsRow(o)' /\ Unposted(o)'
        BY <3>1, <4>1 DEF HoldsRow, OfEvent, HoldsPayment, HoldsDocument, Held, docVars, Unposted,
                          CodigoOf
      <4> QED BY <3>2, <4>2
    <3> QED BY <3>3, <3>4
  <2> QED BY <2>1 DEF Openings
<1>4. Backing'
  BY BackingStays, SameBacked DEF docVars, Held
<1> QED BY <1>1, <1>2, <1>3, <1>4 DEF JInv

LEMMA MarkDispatchMinds ==
    ASSUME IInv, JInv, NEW r \in Runs, MarkDispatch(r)
    PROVE  JInv'
<1> PICK c, d : c = run[r].correction /\ d = run[r].document
  OBVIOUS
<1> DEFINE x       == fiscal_corrections[c]
           enabled == /\ markFiscalCorrectionMhDispatchStartedEnabled(
                             x, c, run[r].token, dte_documents[d], wompi_events[d])
                      /\ codigo_generacion[d] = run[r].codigo
           b       == x.dispatched \/ enabled
<1>1. run[r].pc \in CorrectionPCs
  BY Plain DEF MarkDispatch, At
<1>2. c \in Corrections /\ x \in CorrectionRow /\ x.document = d
  BY <1>1, OfCorrection DEF Correction, IInv, RunsKnow, Works
<1>3. fiscal_corrections' = [fiscal_corrections EXCEPT ![c] = [x EXCEPT !.dispatched = b]]
  BY <1>2 DEF MarkDispatch, SetCorrection, Correction, Document, Event, Codigo, CorrectionRow
<1>4. b \in BOOLEAN
  BY <1>2 DEF CorrectionRow, markFiscalCorrectionMhDispatchStartedEnabled, Owned
<1>5. OnlyAges /\ Minding /\ UNCHANGED <<docVars, wompi_events, posts>>
  BY HandlersAge, DispatchersPass, PassesMinds DEF MarkDispatch, otherVars, mhVars
<1>6. ASSUME Open(c), HoldsRow(c), Unposted(c)
      PROVE  HoldsRow(c)' /\ Unposted(c)'
  <2>1. /\ fiscal_corrections'[c].kind = x.kind /\ fiscal_corrections'[c].document = d
        /\ fiscal_corrections'[c].dispatched = b
    BY <1>2, <1>3 DEF IInv, TypeOK, CorrectionRow
  <2>2. enabled => /\ ~x.dispatched /\ dte_documents[d].status = "SIGNED"
    BY DEF markFiscalCorrectionMhDispatchStartedEnabled
  <2>3. enabled /\ ~OfEvent(c) => codigo_generacion[d] = c
    BY <1>2, <1>6, <2>2 DEF HoldsRow, HoldsDocument
  <2> HIDE DEF enabled
  <2>4. HoldsRow(c)'
    BY <1>2, <1>5, <1>6, <2>1, <2>3 DEF HoldsRow, OfEvent, HoldsPayment, HoldsDocument, Held, docVars
  <2>5. Unposted(c)'
    BY <1>2, <1>5, <1>6, <2>1 DEF Unposted, CodigoOf
  <2> QED BY <2>4, <2>5
<1> HIDE DEF b
<1> QED BY <1>2, <1>3, <1>4, <1>5, <1>6, MarkMinds

LEMMA ClearMinds ==
    ASSUME IInv, JInv, NEW r \in Runs, Clear(r)
    PROVE  JInv'
<1> PICK c, d : c = run[r].correction /\ d = run[r].document
  OBVIOUS
<1> DEFINE x       == fiscal_corrections[c]
           enabled == clearFiscalCorrectionMhDispatchStartedEnabled(x, run[r].token)
           b       == x.dispatched /\ ~enabled
<1>1. run[r].pc = "clear" /\ run[r].pc \in CorrectionPCs
  BY Plain DEF Clear, At
<1>2. c \in Corrections /\ x \in CorrectionRow /\ x.document = d /\ d \in Docs
  BY <1>1, OfCorrection DEF Correction, IInv, RunsKnow, Works
<1>3. fiscal_corrections' = [fiscal_corrections EXCEPT ![c] = [x EXCEPT !.dispatched = b]]
  BY <1>2 DEF Clear, SetCorrection, Correction, CorrectionRow
<1>4. b \in BOOLEAN
  BY <1>2 DEF CorrectionRow, clearFiscalCorrectionMhDispatchStartedEnabled, Owned
<1>5. OnlyAges /\ Minding /\ UNCHANGED <<docVars, wompi_events, posts>>
  BY HandlersAge, SettlersPass, PassesMinds DEF Clear, otherVars, mhVars
<1>6. ASSUME Open(c), HoldsRow(c), Unposted(c)
      PROVE  HoldsRow(c)' /\ Unposted(c)'
  <2>1. /\ fiscal_corrections'[c].kind = x.kind /\ fiscal_corrections'[c].document = d
        /\ fiscal_corrections'[c].dispatched = b
    BY <1>2, <1>3 DEF IInv, TypeOK, CorrectionRow
  <2>2. Undispatched(r)
    BY <1>1 DEF Undispatched, IInv, RunsKnow, Knows
  <2>3. GoesBack(r) /\ (OfPayment(r) <=> OfEvent(c))
    BY <1>6, <2>2, GoingBack
  <2>4. OfEvent(c) => posts[d] = 0 /\ ~isTerminalDteStatus(dte_documents[d].status)
    BY <2>3 DEF GoesBack
  <2>5. ~OfEvent(c) => /\ dte_documents[d].status = "SIGNED" /\ Held(dte_documents[d], c)
                       /\ codigo_generacion[d] = c
    BY <2>3 DEF GoesBack
  <2>6. ~OfEvent(c) => posts[c] = 0
    BY <1>2, <2>2, <2>5, Names DEF IInv, RunsKnow, Knows, Held
  <2>7. HoldsRow(c)'
    BY <1>2, <1>5, <1>6, <2>1, <2>4, <2>5 DEF HoldsRow, OfEvent, HoldsPayment, HoldsDocument, Held,
                                              docVars
  <2>8. Unposted(c)'
    BY <1>2, <1>5, <2>1, <2>4, <2>6 DEF Unposted, CodigoOf, OfEvent
  <2> QED BY <2>7, <2>8
<1> HIDE DEF b
<1> QED BY <1>2, <1>3, <1>4, <1>5, <1>6, MarkMinds

-----------------------------------------------------------------------------
(* A codigo is submitted.                                                  *)

LEMMA PostMinds ==
    ASSUME IInv, JInv, Minding, UNCHANGED tableVars,
           NEW k \in NewCodes, posts' = [posts EXCEPT ![k] = @ + 1],
           \A c \in Corrections : Open(c) /\ ~fiscal_corrections[c].dispatched => CodigoOf(c) # k,
           \A o \in Runs : /\ run'[o] = run[o] /\ Undispatched(o) /\ Open(run[o].correction)
                           /\ OfPayment(o)
                           => run[o].document # k
    PROVE  JInv'
<1>1. UNCHANGED <<fiscal_corrections, docVars, wompi_events>>
  BY DEF tableVars, otherVars
<1>2. OnlyAges /\ NoRivals' /\ EventsExist
  BY <1>1, OthersAge, RivalsStay, SameEventsExist DEF JInv
<1>3. HeldRows' /\ Unmade' /\ Making'
  BY <1>1, <1>2, TablesStay, MakingStays
<1>4. \A l : l # k => posts'[l] = posts[l]
  BY DEF IInv, TypeOK
<1>5. Openings'
  <2>1. ASSUME NEW c \in Corrections, Open(c)'
        PROVE  HoldsRow(c)' /\ HoldsEvent(c)' /\ Unposted(c)'
    <3>1. Open(c) /\ HoldsRow(c) /\ HoldsEvent(c) /\ Unposted(c)
      BY <1>1, <2>1 DEF JInv, Openings, Open
    <3>2. HoldsRow(c)' /\ HoldsEvent(c)'
      BY <1>1, <3>1 DEF HoldsRow, HoldsPayment, HoldsDocument, Held, HoldsEvent, OfEvent, docVars
    <3>3. CodigoOf(c)' = CodigoOf(c) /\ fiscal_corrections'[c] = fiscal_corrections[c]
      BY <1>1 DEF CodigoOf
    <3>4. Unposted(c)'
      BY <1>4, <3>1, <3>3 DEF Unposted
    <3> QED BY <3>2, <3>4
  <2> QED BY <2>1 DEF Openings
<1>6. Backing'
  <2>1. ASSUME NEW o \in Runs, run'[o] = run[o], Undispatched(o), Open(run[o].correction), GoesBack(o)
        PROVE  GoesBack(o)'
    <3>1. OfPayment(o)' = OfPayment(o)
      BY <1>1, <2>1 DEF OfPayment, Correction
    <3>2. OfPayment(o) => posts'[run[o].document] = posts[run[o].document]
      BY <1>4, <2>1
    <3> QED BY <1>1, <2>1, <3>1, <3>2 DEF GoesBack, docVars, Held
  <2> QED BY <1>2, <2>1, BackingStays
<1> QED BY <1>2, <1>3, <1>5, <1>6 DEF JInv

LEMMA SubmitMinds ==
    ASSUME IInv, JInv, NEW r \in Runs, Post(r) \/ TxPost(r)
    PROVE  JInv'
<1> PICK k, d : k = run[r].codigo /\ d = run[r].document
  OBVIOUS
<1> PICK claim : claim = IF Post(r) THEN run[r].correction ELSE r
  OBVIOUS
<1>1. Owns(r, claim) /\ d \in Docs
  BY DEF Post, TxPost, At, SendPCs, TxPCs, IInv, RunsKnow, Works, Knows
<1>2. /\ k \in NewCodes /\ dte_documents[d].status = "SIGNED" /\ dte_documents[d].op_claim = claim
      /\ codigo_generacion[d] = k
  BY <1>1 DEF Owns
<1>3. Placed(k, d)
  BY <1>1, <1>2 DEF IInv, Places
<1>4. ~isTerminalDteStatus(dte_documents[d].status) /\ claim # NULL
  <2>1. Post(r) => run[r].correction \in Corrections
    BY Plain DEF Post, At, IInv, RunsKnow, Works, CorrectionPCs, ConsumerPCs, DispatchPCs
  <2> QED BY <1>2, <2>1, Names DEF isTerminalDteStatus, TerminalStatus
<1>5. claim \in Corrections => Post(r) /\ fiscal_corrections[claim].dispatched
  <2>1. Post(r) => fiscal_corrections[run[r].correction].dispatched
    BY DEF Post, At, Dispatches, SendPCs, IInv, RunsKnow, Knows
  <2> QED BY <2>1, Names
<1>6. UNCHANGED tableVars /\ posts' = [posts EXCEPT ![k] = @ + 1]
  BY DEF Post, TxPost, Submit
<1>7. Minding
  BY DispatchersPass, NeighboursPass, PassesMinds
<1>8. ASSUME NEW c \in Corrections, Open(c), ~fiscal_corrections[c].dispatched, CodigoOf(c) = k
      PROVE  FALSE
  <2>1. HoldsRow(c) /\ c # claim
    BY <1>5, <1>8 DEF JInv, Openings
  <2>2. fiscal_corrections[c].document \in Docs
    BY <1>8 DEF Open, OpenStatus, IInv, Places
  <2>3. fiscal_corrections[c].document = d
    BY <1>3, <1>8, <2>2, Names DEF CodigoOf, Placed
  <2> QED BY <1>2, <1>4, <1>8, <2>1, <2>3 DEF HoldsRow, HoldsPayment, HoldsDocument, Held
<1>9. ASSUME NEW o \in Runs, Undispatched(o), Open(run[o].correction), OfPayment(o),
             run[o].document = k
      PROVE  FALSE
  <2>1. /\ run[o].correction \in Corrections
        /\ fiscal_corrections[run[o].correction].document = k
        /\ HoldsRow(run[o].correction) /\ OfEvent(run[o].correction)
    BY <1>9, GoingBack
  <2>2. k \in Docs
    BY <2>1, <1>9 DEF Open, OpenStatus, IInv, Places
  <2>3. k = d
    BY <1>3, <2>2 DEF Placed
  <2>4. run[o].correction = claim
    BY <1>2, <1>4, <2>1, <2>3 DEF HoldsRow, HoldsPayment
  <2>5. Post(r) /\ run[r].correction = run[o].correction
    BY <1>5, <2>1, <2>4
  <2>6. Dispatches(r) /\ Dispatches(o) /\ ~Undispatched(r)
    BY <1>9, <2>5 DEF Dispatches, SendPCs, Post, At, Undispatched
  <2> QED BY <1>9, <2>5, <2>6 DEF IInv, OneDispatches
<1> QED BY <1>2, <1>6, <1>7, <1>8, <1>9, PostMinds

-----------------------------------------------------------------------------
(* A correction and its document, or its payment, are written together.    *)

\* The correction was there before the step, and is open only if it was.
Stays(c) ==
    /\ fiscal_corrections'[c].kind = fiscal_corrections[c].kind
    /\ fiscal_corrections'[c].document = fiscal_corrections[c].document
    /\ fiscal_corrections'[c].dispatched = fiscal_corrections[c].dispatched
    /\ Open(c)' => Open(c)

LEMMA ChangeMinds ==
    ASSUME IInv, JInv, NoRivals', EventsExist, Minding, UNCHANGED posts,
           NEW d \in Docs,
           \A e \in Docs \ {d} : /\ dte_documents'[e] = dte_documents[e]
                                 /\ codigo_generacion'[e] = codigo_generacion[e]
                                 /\ wompi_events'[e] = wompi_events[e],
           \A c \in Corrections : fiscal_corrections[c].kind # "NONE" => Stays(c),
           \A c \in Corrections : Open(c)' /\ fiscal_corrections'[c].document # d =>
                                     fiscal_corrections[c].kind # "NONE",
           dte_documents'[d].op_claim \in Corrections =>
              Held(dte_documents[d], dte_documents[d].op_claim)',
           ~Made(d)' => dte_documents'[d] = createDteDocument /\ codigo_generacion'[d] = d,
           \A c \in Corrections : Open(c)' /\ fiscal_corrections'[c].document = d =>
                                     HoldsRow(c)' /\ HoldsEvent(c)' /\ Unposted(c)',
           \A o \in Runs : /\ run'[o] = run[o] /\ run[o].document = d
                           /\ Undispatched(o) /\ Open(run[o].correction)'
                           => GoesBack(o)'
    PROVE  JInv'
<1>1. HeldRows'
  BY DEF JInv, HeldRows, Held
<1>2. Unmade'
  <2>1. ASSUME NEW e \in Docs, e # d, ~Made(e)'
        PROVE  dte_documents'[e] = createDteDocument /\ codigo_generacion'[e] = e
    BY <2>1 DEF JInv, Unmade, Made
  <2> QED BY <2>1 DEF Unmade
<1>3. Making'
  BY MakingStays
<1>4. Openings'
  <2>1. ASSUME NEW c \in Corrections, Open(c)', fiscal_corrections'[c].document # d
        PROVE  HoldsRow(c)' /\ HoldsEvent(c)' /\ Unposted(c)'
    <3>1. Stays(c)
      BY <2>1
    <3>2. Open(c) /\ HoldsRow(c) /\ HoldsEvent(c) /\ Unposted(c)
      BY <2>1, <3>1 DEF Stays, JInv, Openings
    <3>3. fiscal_corrections[c].document \in Docs \ {d}
      BY <2>1, <3>1, <3>2 DEF Stays, Open, OpenStatus, IInv, Places
    <3>4. HoldsRow(c)'
      BY <3>1, <3>2, <3>3 DEF Stays, HoldsRow, OfEvent, HoldsPayment, HoldsDocument, Held
    <3>5. HoldsEvent(c)'
      BY <3>1, <3>2, <3>3 DEF Stays, HoldsEvent, OfEvent
    <3>6. Unposted(c)'
      BY <3>1, <3>2 DEF Stays, Unposted, CodigoOf
    <3> QED BY <3>4, <3>5, <3>6
  <2> QED BY <2>1 DEF Openings
<1>5. Backing'
  <2>1. ASSUME NEW o \in Runs, run'[o] = run[o]
        PROVE  Backed(o)'
    <3>1. Backed(o)
      BY DEF JInv, Backing
    <3>2. At(o, "undo") \/ Undispatched(o) =>
             /\ run[o].correction \in Corrections /\ Stays(run[o].correction)
             /\ run[o].document \in Docs
      BY PlainIsApart DEF At, Undispatched, SendPCs, IInv, RunsKnow, Works
    <3>3. (At(o, "undo") \/ Undispatched(o)) => OfPayment(o)' = OfPayment(o)
      BY <2>1, <3>2 DEF Stays, OfPayment, Correction
    <3>4. ASSUME Undispatched(o), Open(run[o].correction)', run[o].document # d
          PROVE  GoesBack(o)'
      <4>1. GoesBack(o) /\ run[o].document \in Docs \ {d}
        BY <3>1, <3>2, <3>4 DEF Backed, Stays
      <4> QED BY <2>1, <3>3, <3>4, <4>1 DEF GoesBack, Held
    <3>5. (Open(run[o].correction))' /\ run'[o] = run[o] => Open(run[o].correction)'
      OBVIOUS
    <3> QED BY <2>1, <3>1, <3>3, <3>4, <3>5 DEF Backed, At, Undispatched, Open
  <2> QED BY <2>1 DEF Backing, Minding, Minds
<1> QED BY <1>1, <1>2, <1>3, <1>4, <1>5 DEF JInv

\* Whoever works on document d while correction c of it is open, works for c.
LEMMA WorksForOpen ==
    ASSUME IInv, JInv, NEW d \in Docs, NEW c \in Corrections, Open(c),
           fiscal_corrections[c].document = d
    PROVE  /\ \A b \in Corrections : Open(b) /\ fiscal_corrections[b].document = d => b = c
           /\ \A o \in Runs : /\ Undispatched(o) /\ run[o].document = d
                              /\ Open(run[o].correction)
                              => run[o].correction = c /\ GoesBack(o)
<1>1. \A b \in Corrections : Open(b) /\ fiscal_corrections[b].document = d => b = c
  BY OneOpen
<1> QED BY <1>1, GoingBack

LEMMA PrepareMinds ==
    ASSUME IInv, JInv, NEW r \in Runs, Prepare(r)
    PROVE  JInv'
<1> PICK c, d : c = run[r].correction /\ d = run[r].document
  OBVIOUS
<1> DEFINE x       == fiscal_corrections[c]
           row     == dte_documents[d]
           n       == prepareClaimedFiscalCorrectionDocument(row)
           enabled == prepareClaimedFiscalCorrectionDocumentEnabled(x, c, run[r].token, row)
<1>1. run[r].pc \in CorrectionPCs
  BY Plain DEF Prepare, At
<1>2. c \in Corrections /\ x.document = d /\ d \in Docs /\ row \in DteRow
  BY <1>1, OfCorrection DEF Document, IInv, RunsKnow, Works
<1>3. UNCHANGED <<fiscal_corrections, wompi_events, posts>>
  BY DEF Prepare, otherVars, mhVars
<1>4. OnlyAges /\ SameMarks /\ NoRivals' /\ EventsExist
  BY <1>3, OthersAge, OthersKeepMarks, RivalsStay, SameEventsExist DEF JInv
<1>5. CASE ~enabled
  <2>1. Minding
    BY <1>5, Passing, PassesMinds DEF Prepare, Correction, Document
  <2>2. UNCHANGED docVars
    BY <1>5 DEF Prepare, Correction, Document
  <2> QED BY <1>3, <1>4, <2>1, <2>2, QuietlyMinds
<1>6. CASE enabled
  <2>1. /\ row.status = "REJECTED" /\ Held(row, c) /\ Open(c)
        /\ dte_documents' = [dte_documents EXCEPT ![d] = n]
        /\ codigo_generacion' = [codigo_generacion EXCEPT ![d] = c]
        /\ Goto(r, "transmit")
    BY <1>6 DEF Prepare, Correction, Document, SetDocument, Proceed, Open, OpenStatus, Owned,
                prepareClaimedFiscalCorrectionDocumentEnabled
  <2>2. /\ dte_documents'[d] = n /\ codigo_generacion'[d] = c
        /\ \A e \in Docs \ {d} : /\ dte_documents'[e] = dte_documents[e]
                                 /\ codigo_generacion'[e] = codigo_generacion[e]
    BY <1>2, <2>1 DEF IInv, TypeOK
  <2>3. Made(d)' /\ Minding
    <3>1. Made(d)
      BY <1>2, <2>1, IsMade
    <3>2. Made(d)'
      BY <1>2, <1>4, <3>1 DEF EventsExist
    <3> QED BY <2>1, <3>2, TransmitMinding
  <2>4. n.status = "SIGNED" /\ Held(n, c)
    BY <1>2, <2>1 DEF prepareClaimedFiscalCorrectionDocument, DteRow, Held
  <2>5. ~OfEvent(c)
    BY <1>2, <2>1 DEF IInv, Rows, Replaced, Held, OfEvent
  <2>6. HoldsRow(c)' /\ HoldsEvent(c)' /\ Unposted(c)'
    <3>1. HoldsRow(c)'
      BY <1>2, <1>3, <2>2, <2>4, <2>5 DEF HoldsRow, HoldsDocument, OfEvent, Held
    <3>2. HoldsEvent(c)' /\ Unposted(c)'
      BY <1>2, <1>3, <2>1, <2>5 DEF HoldsEvent, OfEvent, JInv, Openings, Unposted, CodigoOf
    <3> QED BY <3>1, <3>2
  <2>7. \A b \in Corrections : Stays(b) /\ (Open(b)' => fiscal_corrections[b].kind # "NONE")
    BY <1>3 DEF Stays, Open, OpenStatus, IInv, Places
  <2>8. \A b \in Corrections : Open(b)' /\ fiscal_corrections'[b].document = d => b = c
    BY <1>2, <1>3, <2>1, WorksForOpen DEF Open
  <2>9. ASSUME NEW o \in Runs, run'[o] = run[o], run[o].document = d, Undispatched(o),
               Open(run[o].correction)'
        PROVE  FALSE
    <3>1. Open(run[o].correction)
      BY <1>3, <2>9 DEF Open
    <3>2. run[o].correction = c /\ GoesBack(o)
      BY <1>2, <2>1, <2>9, <3>1, WorksForOpen
    <3> QED BY <2>1, <2>5, <2>9, <3>2 DEF GoesBack, OfPayment, OfEvent, Correction
  <2>10. dte_documents'[d].op_claim \in Corrections =>
              Held(dte_documents[d], dte_documents[d].op_claim)'
    BY <2>2, <2>4 DEF Held
  <2> HIDE DEF n
  <2> QED BY <1>2, <1>3, <1>4, <2>2, <2>3, <2>6, <2>7, <2>8, <2>9, <2>10, ChangeMinds
<1> QED BY <1>5, <1>6

LEMMA RetireMinds ==
    ASSUME IInv, JInv, NEW r \in Runs, Retire(r)
    PROVE  JInv'
<1> PICK c, d : c = run[r].correction /\ d = run[r].document
  OBVIOUS
<1> DEFINE x       == fiscal_corrections[c]
           row     == dte_documents[d]
           n       == RestoredDocument(x, row)
           k       == x.source.codigo
           enabled == retireDirectEnabled(x, c, run[r].token, row, codigo_generacion[d])
<1>1. run[r].pc \in CorrectionPCs
  BY Plain DEF Retire, At
<1>2. c \in Corrections /\ x \in CorrectionRow /\ x.document = d /\ d \in Docs /\ row \in DteRow
  BY <1>1, OfCorrection DEF Correction, Document, IInv, RunsKnow, Works
<1>3. UNCHANGED <<wompi_events, posts>> /\ Minding
  BY SettlersPass, PassesMinds DEF Retire, otherVars, mhVars
<1>4. OnlyAges /\ NoRivals' /\ EventsExist
  BY <1>3, HandlersAge, RivalsStay, SameEventsExist DEF JInv
<1>5. CASE ~enabled
  <2>1. UNCHANGED <<fiscal_corrections, docVars>>
    BY <1>5 DEF Retire, Correction, Document, Codigo
  <2> QED BY <1>3, <1>4, <2>1, OthersKeepMarks, QuietlyMinds
<1>6. CASE enabled
  <2>1. /\ Held(row, c) /\ Open(c)
        /\ fiscal_corrections' = [fiscal_corrections EXCEPT ![c] = Finalized(x, "FAILED")]
        /\ dte_documents' = [dte_documents EXCEPT ![d] = n]
        /\ codigo_generacion' = [codigo_generacion EXCEPT ![d] = k]
    BY <1>6 DEF Retire, Correction, Document, Codigo, SetCorrection, SetDocument, Open, OpenStatus,
                Owned, retireDirectEnabled
  <2>2. /\ dte_documents'[d] = n
        /\ \A e \in Docs \ {d} : /\ dte_documents'[e] = dte_documents[e]
                                 /\ codigo_generacion'[e] = codigo_generacion[e]
    BY <1>2, <2>1 DEF IInv, TypeOK
  <2>3. n.op_claim = NULL
    BY <1>2 DEF RestoredDocument, WithoutOperation, DteRow
  <2>4. Made(d)'
    <3>1. Made(d)
      BY <1>2, <2>1, Names, IsMade DEF Held
    <3> QED BY <1>2, <1>4, <3>1 DEF EventsExist
  <2>5. Finalized(x, "FAILED").status = "FAILED" /\ Finalized(x, "FAILED").dispatched = x.dispatched
    BY <1>2 DEF Finalized, CorrectionRow
  <2>6. ~Open(c)'
    BY <1>2, <2>1, <2>5 DEF Open, OpenStatus, IInv, TypeOK
  <2>7. \A b \in Corrections : Stays(b) /\ (Open(b)' => fiscal_corrections[b].kind # "NONE")
    <3>1. \A b \in Corrections : Open(b)' => Open(b)
      BY <1>4, RivalsStay DEF JInv
    <3>2. \A b \in Corrections : fiscal_corrections'[b].dispatched = fiscal_corrections[b].dispatched
      BY <1>2, <2>1, <2>5 DEF IInv, TypeOK
    <3>3. \A b \in Corrections : Open(b) => fiscal_corrections[b].kind # "NONE"
      BY DEF Open, OpenStatus, IInv, Places
    <3> QED BY <1>4, <3>1, <3>2, <3>3 DEF Stays, OnlyAges, Ages
  <2>8. \A b \in Corrections : ~(Open(b)' /\ fiscal_corrections'[b].document = d)
    BY <1>2, <2>1, <2>6, <2>7, WorksForOpen DEF Stays
  <2>9. ASSUME NEW o \in Runs, run'[o] = run[o], run[o].document = d, Undispatched(o),
               Open(run[o].correction)'
        PROVE  FALSE
    <3>1. run[o].correction \in Corrections
      BY <2>9, PlainIsApart DEF Undispatched, IInv, RunsKnow, Works
    <3>2. fiscal_corrections[run[o].correction].document = d
      BY <2>9, PlainIsApart DEF Undispatched, IInv, RunsKnow, Works
    <3> QED BY <2>7, <2>8, <2>9, <3>1, <3>2 DEF Stays, Open
  <2>10. NULL \notin Corrections
    BY Names
  <2> HIDE DEF n
  <2> QED BY <1>2, <1>3, <1>4, <2>2, <2>3, <2>4, <2>7, <2>8, <2>9, <2>10, ChangeMinds
<1> QED BY <1>5, <1>6

\* The correction closes, with its payment's event or without it.
LEMMA FailClosesMinds ==
    ASSUME IInv, JInv, NEW r \in Runs, Fail(r),
           \/ finalizeWompiFailureEnabled(Correction(r), run[r].correction, run[r].seen, Event(r))
           \/ finalizeFailedEnabled(Correction(r), run[r].seen)
    PROVE  JInv'
<1> PICK c, d : c = run[r].correction /\ d = run[r].document
  OBVIOUS
<1> DEFINE x     == fiscal_corrections[c]
           row   == dte_documents[d]
           after == Finalized(x, "FAILED")
           n     == ReleaseFailed(after, c, run[r].seen, row)
<1>1. run[r].pc \in CorrectionPCs
  BY Plain DEF Fail, At
<1>2. c \in Corrections /\ x \in CorrectionRow /\ x.document = d /\ d \in Docs /\ row \in DteRow
  BY <1>1, OfCorrection DEF Correction, Document, IInv, RunsKnow, Works
<1>3. UNCHANGED <<codigo_generacion, posts>> /\ Minding
  BY SettlersPass, PassesMinds DEF Fail, mhVars
<1>4. OnlyAges /\ NoRivals' /\ EventsExist
  BY HandlersAge, RivalsStay, FailKeepsEvents DEF JInv
<1>5. /\ Open(c)
      /\ fiscal_corrections' = [fiscal_corrections EXCEPT ![c] = after]
      /\ dte_documents' = [dte_documents EXCEPT ![d] = n]
  BY DEF Fail, Correction, Document, SetCorrection, SetDocument, Open, OpenStatus, Owned,
         finalizeWompiFailureEnabled, finalizeFailedEnabled
<1>6. /\ dte_documents'[d] = n
      /\ \A e \in Docs \ {d} : dte_documents'[e] = dte_documents[e]
  BY <1>2, <1>5 DEF IInv, TypeOK
<1>7. \A e \in Docs \ {d} : wompi_events'[e] = wompi_events[e]
  <2>1. \A f : EventWritten(d, f) => \A e \in Docs \ {d} : wompi_events'[e] = wompi_events[e]
    BY DEF EventWritten, IInv, TypeOK
  <2> QED BY <2>1, FailEvents
<1>8. \/ n = row
      \/ row.op_claim = c /\ n.op_claim = NULL
  BY <1>2 DEF ReleaseFailed, WithoutOperation, DteRow
<1>9. NULL \notin Corrections
  BY Names
<1>10. n.op_claim \in Corrections => Held(n, n.op_claim)
  BY <1>2, <1>8, <1>9 DEF JInv, HeldRows
<1>11. ~Made(d)' => n = createDteDocument /\ codigo_generacion'[d] = d
  <2>1. ~Made(d)' => ~Made(d)
    BY <1>2, <1>4 DEF EventsExist
  <2>2. row.op_claim = c => Made(d)
    BY <1>2, <1>9, IsMade
  <2> HIDE DEF n
  <2> QED BY <1>2, <1>3, <1>8, <2>1, <2>2 DEF JInv, Unmade
<1>12. after.status = "FAILED" /\ after.dispatched = x.dispatched
  BY <1>2 DEF Finalized, CorrectionRow
<1>13. ~Open(c)'
  BY <1>2, <1>5, <1>12 DEF Open, OpenStatus, IInv, TypeOK
<1>14. \A b \in Corrections : Stays(b) /\ (Open(b)' => fiscal_corrections[b].kind # "NONE")
  <2>1. \A b \in Corrections : Open(b)' => Open(b)
    BY <1>4, RivalsStay DEF JInv
  <2>2. \A b \in Corrections : fiscal_corrections'[b].dispatched = fiscal_corrections[b].dispatched
    BY <1>2, <1>5, <1>12 DEF IInv, TypeOK
  <2>3. \A b \in Corrections : Open(b) => fiscal_corrections[b].kind # "NONE"
    BY DEF Open, OpenStatus, IInv, Places
  <2> QED BY <1>4, <2>1, <2>2, <2>3 DEF Stays, OnlyAges, Ages
<1>15. \A b \in Corrections : ~(Open(b)' /\ fiscal_corrections'[b].document = d)
  BY <1>2, <1>5, <1>13, <1>14, WorksForOpen DEF Stays
<1>16. ASSUME NEW o \in Runs, run'[o] = run[o], run[o].document = d, Undispatched(o),
              Open(run[o].correction)'
       PROVE  FALSE
  <2>1. /\ run[o].correction \in Corrections
        /\ fiscal_corrections[run[o].correction].document = d
    BY <1>16, PlainIsApart DEF Undispatched, IInv, RunsKnow, Works
  <2> QED BY <1>14, <1>15, <1>16, <2>1 DEF Stays, Open
<1>17. dte_documents'[d].op_claim \in Corrections =>
          Held(dte_documents[d], dte_documents[d].op_claim)'
  BY <1>6, <1>10 DEF Held
<1> HIDE DEF n
<1> QED BY <1>2, <1>3, <1>4, <1>6, <1>7, <1>11, <1>14, <1>15, <1>16, <1>17, ChangeMinds

\* A former step has closed it: the document is released now.
LEMMA FailReleasesMinds ==
    ASSUME IInv, JInv, NEW r \in Runs, Fail(r),
           ~finalizeWompiFailureEnabled(Correction(r), run[r].correction, run[r].seen, Event(r)),
           ~finalizeFailedEnabled(Correction(r), run[r].seen)
    PROVE  JInv'
<1> PICK c, d : c = run[r].correction /\ d = run[r].document
  OBVIOUS
<1> DEFINE x   == fiscal_corrections[c]
           row == dte_documents[d]
           n   == ReleaseFailed(x, c, run[r].seen, row)
<1>1. run[r].pc \in CorrectionPCs
  BY Plain DEF Fail, At
<1>2. c \in Corrections /\ x \in CorrectionRow /\ x.document = d /\ d \in Docs /\ row \in DteRow
  BY <1>1, OfCorrection DEF Correction, Document, IInv, RunsKnow, Works
<1>3. Minding
  BY SettlersPass, PassesMinds
<1>4. Writes(d, n)
  <2>1. fiscal_corrections' = [fiscal_corrections EXCEPT ![c] = x]
    BY DEF Fail, SetCorrection, Correction
  <2>2. UNCHANGED fiscal_corrections
    BY <1>2, <2>1 DEF IInv, TypeOK
  <2>3. dte_documents' = [dte_documents EXCEPT ![d] = n] /\ UNCHANGED <<codigo_generacion, wompi_events, posts>>
    BY DEF Fail, SetDocument, Correction, Document, mhVars
  <2> QED BY <2>2, <2>3 DEF Writes
<1>5. ASSUME n # row
      PROVE  /\ n.op_claim \in Corrections => Held(n, n.op_claim)
             /\ Made(d) /\ Suits(d, n)
  <2>1. /\ x.status = "FAILED" /\ row.op_claim = c /\ n.op_claim = NULL /\ n.status = row.status
    BY <1>2, <1>5 DEF ReleaseFailed, WithoutOperation, DteRow
  <2>2. NULL \notin Corrections /\ Made(d)
    BY <1>2, <2>1, Names, IsMade
  <2>3. ~Open(c)
    BY <2>1 DEF Open, OpenStatus
  <2> HIDE DEF n
  <2>4. ASSUME NEW b \in Corrections, Open(b), fiscal_corrections[b].document = d, HoldsRow(b)
        PROVE  IF OfEvent(b) THEN HoldsPayment(b, n) /\ isTerminalDteStatus(row.status)
                             ELSE /\ HoldsDocument(b, n, codigo_generacion[d])
                                  /\ fiscal_corrections[b].dispatched
    <3>1. b # c
      BY <2>3, <2>4
    <3>2. OfEvent(b) => isTerminalDteStatus(row.status) /\ fiscal_corrections[b].dispatched
      BY <1>2, <2>1, <2>2, <2>4, <3>1 DEF HoldsRow, HoldsPayment
    <3>3. ~OfEvent(b) => fiscal_corrections[b].dispatched /\ codigo_generacion[d] = b
      BY <2>1, <2>4, <3>1 DEF HoldsRow, HoldsDocument, Held
    <3> QED BY <2>1, <3>2, <3>3 DEF HoldsPayment, HoldsDocument
  <2>5. ASSUME NEW o \in Runs, run[o].document = d, Undispatched(o), Open(run[o].correction), GoesBack(o)
        PROVE  FALSE
    <3>1. /\ run[o].correction \in Corrections
          /\ fiscal_corrections[run[o].correction].document = d /\ HoldsRow(run[o].correction)
          /\ OfPayment(o) <=> OfEvent(run[o].correction)
      BY <2>5, GoingBack
    <3>2. run[o].correction # c
      BY <2>3, <2>5
    <3> QED BY <2>1, <2>4, <2>5, <3>1, <3>2 DEF GoesBack, Held
  <2> QED BY <2>2, <2>1, <2>4, <2>5 DEF Suits
<1> HIDE DEF n
<1> QED BY <1>2, <1>3, <1>4, <1>5, WritesMind

LEMMA FailMinds ==
    ASSUME IInv, JInv, NEW r \in Runs, Fail(r)
    PROVE  JInv'
  BY FailClosesMinds, FailReleasesMinds
-----------------------------------------------------------------------------
(* A correction comes into the world.                                      *)

LEMMA RequestOpens ==
    ASSUME IInv, JInv, NEW r \in Runs, NEW c \in Corrections, NEW d \in Docs, NEW t \in Tokens,
           RequestCorrection(r, c, d, t) \/ RequestPayment(r, c, d, t), EventsExist,
           \A e \in Docs \ {d} : /\ dte_documents'[e] = dte_documents[e]
                                 /\ wompi_events'[e] = wompi_events[e],
           UNCHANGED codigo_generacion,
           dte_documents'[d].op_claim \in Corrections =>
              Held(dte_documents[d], dte_documents[d].op_claim)',
           ~Made(d)' => dte_documents'[d] = createDteDocument /\ codigo_generacion'[d] = d,
           HoldsRow(c)' /\ HoldsEvent(c)' /\ Unposted(c)'
    PROVE  JInv'
<1>1. NoRivals' /\ Minding /\ UNCHANGED posts
  BY RequestRivals, BeginnersPass, PassesMinds DEF JInv, RequestCorrection, RequestPayment, mhVars
<1>2. /\ fiscal_corrections[c].status = "NONE"
      /\ \A o \in Corrections : fiscal_corrections[o].document = d => ~Open(o)
      /\ \A o \in Corrections \ {c} : fiscal_corrections'[o] = fiscal_corrections[o]
      /\ fiscal_corrections'[c].document = d
  BY RequestAlone DEF Open, Blocks
<1>3. fiscal_corrections[c].kind = "NONE"
  BY <1>2 DEF IInv, Places
<1>4. \A b \in Corrections : fiscal_corrections[b].kind # "NONE" => Stays(b)
  BY <1>2, <1>3 DEF Stays, Open
<1>5. \A b \in Corrections : Open(b)' /\ fiscal_corrections'[b].document # d =>
                                fiscal_corrections[b].kind # "NONE"
  BY <1>2 DEF Open, OpenStatus, IInv, Places
<1>6. \A b \in Corrections : Open(b)' /\ fiscal_corrections'[b].document = d => b = c
  BY <1>2 DEF Open
<1>7. ASSUME NEW o \in Runs, run'[o] = run[o], run[o].document = d, Undispatched(o),
             Open(run[o].correction)'
      PROVE  FALSE
  <2>1. /\ run[o].correction \in Corrections
        /\ fiscal_corrections[run[o].correction].document = d
        /\ fiscal_corrections[run[o].correction].kind # "NONE"
    BY <1>7, PlainIsApart DEF Undispatched, IInv, RunsKnow, Works
  <2> QED BY <1>2, <1>3, <1>7, <2>1 DEF Open
<1> QED BY <1>1, <1>4, <1>5, <1>6, <1>7, ChangeMinds

LEMMA RequestCorrectionMinds ==
    ASSUME IInv, JInv, NEW r \in Runs, NEW c \in Corrections, NEW d \in Docs, NEW t \in Tokens,
           RequestCorrection(r, c, d, t)
    PROVE  JInv'
<1> DEFINE row == dte_documents[d]
           n   == HoldDocument(row, c)
           y   == claimDocumentFiscalCorrection(row, d, t, codigo_generacion[d])
<1>1. row.status = "REJECTED" /\ row \in DteRow /\ fiscal_corrections[c] = NoCorrection
  BY DEF RequestCorrection, claimDocumentFiscalCorrectionEnabled, IInv, TypeOK
<1>2. /\ fiscal_corrections' = [fiscal_corrections EXCEPT ![c] = y]
      /\ dte_documents' = [dte_documents EXCEPT ![d] = n]
      /\ UNCHANGED <<codigo_generacion, wompi_events, posts>>
  BY DEF RequestCorrection, otherVars, mhVars
<1>3. fiscal_corrections'[c] = y /\ dte_documents'[d] = n
        /\ \A e \in Docs \ {d} : dte_documents'[e] = dte_documents[e]
  BY <1>2 DEF IInv, TypeOK
<1>4. Held(n, c) /\ n.status = "REJECTED"
  BY <1>1 DEF HoldDocument, Held, DteRow
<1>5. y.kind = "DTE_DOCUMENT" /\ y.document = d /\ ~y.dispatched
  BY DEF claimDocumentFiscalCorrection
<1>6. Made(d)'
  <2>1. Made(d)
    BY <1>1, IsMade
  <2> QED BY <1>2, <2>1 DEF Made
<1>7. posts[c] = 0
  BY <1>1, Unborn
<1> HIDE DEF y, n
<1>8. HoldsRow(c)' /\ HoldsEvent(c)' /\ Unposted(c)'
  BY <1>2, <1>3, <1>4, <1>5, <1>7 DEF HoldsRow, HoldsDocument, OfEvent, Held, HoldsEvent, Unposted,
                                      CodigoOf
<1>9. Held(dte_documents[d], dte_documents[d].op_claim)'
  BY <1>3, <1>4 DEF Held
<1> QED BY <1>2, <1>3, <1>6, <1>8, <1>9, SameEventsExist, RequestOpens

LEMMA RequestPaymentMinds ==
    ASSUME IInv, JInv, NEW r \in Runs, NEW c \in Corrections, NEW d \in Docs, NEW t \in Tokens,
           RequestPayment(r, c, d, t)
    PROVE  JInv'
<1> DEFINE row == dte_documents[d]
           y   == claimWompiFiscalCorrection(d, t)
           f   == QueueCorrection(wompi_events[d], c)
<1>1. EventsExist /\ ~Made(d) /\ wompi_events[d] \in W!WompiRow
  BY QueueEvents, QueuersKeepEvents, Typed DEF Made, IInv
<1>2. row = createDteDocument /\ codigo_generacion[d] = d
  BY <1>1 DEF JInv, Unmade
<1>3. /\ fiscal_corrections' = [fiscal_corrections EXCEPT ![c] = y]
      /\ wompi_events' = [wompi_events EXCEPT ![d] = f]
      /\ UNCHANGED <<dte_documents, codigo_generacion, posts>>
  BY DEF RequestPayment, docVars, mhVars
<1>4. /\ fiscal_corrections'[c] = y /\ wompi_events'[d] = f
      /\ \A e \in Docs \ {d} : wompi_events'[e] = wompi_events[e]
  BY <1>3 DEF IInv, TypeOK
<1>5. y.kind = "WOMPI_EVENT" /\ y.document = d /\ ~y.dispatched
  BY DEF claimWompiFiscalCorrection, NoCorrection
<1>6. f.attempt = c /\ f.status = "RETRY_QUEUED"
  BY <1>1, EventFields DEF QueueCorrection
<1>7. Working(f)
  BY <1>6 DEF Working, W!Queued
<1>8. row.op_claim = NULL /\ row.status = "PENDING" /\ ~isTerminalDteStatus(row.status)
  BY <1>2 DEF createDteDocument, isTerminalDteStatus, TerminalStatus
<1>9. posts[d] = 0
  BY <1>2, <1>8, StillUnsent DEF Unsent
<1> HIDE DEF y, f
<1>10. HoldsRow(c)' /\ HoldsEvent(c)' /\ Unposted(c)'
  BY <1>2, <1>3, <1>4, <1>5, <1>6, <1>7, <1>8, <1>9
     DEF HoldsRow, HoldsPayment, OfEvent, HoldsEvent, Unposted, CodigoOf
<1>11. dte_documents'[d].op_claim \notin Corrections
  BY <1>3, <1>8, Names
<1> QED BY <1>1, <1>2, <1>3, <1>4, <1>10, <1>11, RequestOpens

-----------------------------------------------------------------------------
(* The second invariant, and what it gives.                                *)

LEMMA BeginsMinding == Init => JInv
<1> SUFFICES ASSUME Init PROVE JInv
  OBVIOUS
<1>1. /\ \A c \in Corrections : fiscal_corrections[c] = NoCorrection
      /\ \A r \in Runs : run[r] = IdleRun
  BY DEF Init
<1>2. PICK kind \in [Docs -> Kinds] :
         /\ dte_documents = [d \in Docs |-> IF kind[d] = "PAYMENT" THEN createDteDocument
                                                                  ELSE RejectedDocument(d)]
         /\ codigo_generacion = [d \in Docs |-> IF kind[d] = "PAYMENT" THEN d ELSE NULL]
         /\ wompi_events = [d \in Docs |-> IF kind[d] = "PAYMENT" THEN QueuedPayment ELSE W!NoEvent]
  BY DEF Init
<1>3. \A c \in Corrections : ~Open(c) /\ fiscal_corrections[c].status = "NONE"
  BY <1>1 DEF Open, OpenStatus, NoCorrection
<1>4. NoRivals /\ Openings
  BY <1>3 DEF NoRivals, Openings
<1>5. HeldRows
  <2>1. \A d \in Docs : RejectedDocument(d).op_claim = NULL /\ createDteDocument.op_claim = NULL
    BY DEF RejectedDocument, completeDocumentTransmission, updateDocumentSigned, createDteDocument,
           WithoutOperation
  <2> QED BY <1>2, <2>1, Names DEF HeldRows
<1>6. Unmade
  <2>1. Exists(W!NoEvent)
    BY DEF Exists, W!NoEvent
  <2> QED BY <1>2, <2>1 DEF Unmade, Made
<1>7. Making /\ Backing
  BY <1>1 DEF Making, Backing, Backed, IdleRun, MadePCs, At, Undispatched
<1> QED BY <1>4, <1>5, <1>6, <1>7 DEF JInv

LEMMA RunStepMinds ==
    ASSUME IInv, JInv, NEW r \in Runs, Step(r)
    PROVE  JInv'
<1>1. CASE \/ Send(r) \/ DeadLoad(r) \/ Handler(r)
           \/ Load(r) \/ ClaimProcessing(r) \/ Reload(r) \/ Reconcile(r) \/ Review(r) \/ Error(r)
           \/ ReadDocument(r) \/ Reserve(r) \/ RenewLease(r) \/ ReadPayment(r)
           \/ Transmit(r) \/ TokenFails(r) \/ Reply(r) \/ Catch(r) \/ Finish(r)
           \/ Recover(r) \/ TxReply(r) \/ InvPost(r)
  BY <1>1, QuietRunMinds
<1>2. CASE Clear(r) \/ Fail(r) \/ Retire(r) \/ Prepare(r) \/ MarkDispatch(r)
  BY <1>2, ClearMinds, FailMinds, RetireMinds, PrepareMinds, MarkDispatchMinds
<1>3. CASE \/ HoldPaymentDocument(r) \/ Sign(r) \/ Unsigned(r) \/ ClaimDocument(r) \/ Undo(r)
           \/ Complete(r) \/ FinalizeAccepted(r)
           \/ TxClaim(r) \/ TxTokenFails(r) \/ TxComplete(r) \/ InvComplete(r)
  BY <1>3, HoldPaymentDocumentMinds, SignMinds, UnsignedMinds, ClaimDocumentMinds, UndoMinds,
     CompleteMinds, FinalizeAcceptedMinds, TxClaimMinds, TxTokenFailsMinds, InvCompleteMinds
<1>4. CASE ClaimEvent(r) \/ CreateCorrected(r) \/ ReleaseEvent(r)
  BY <1>4, CorrectionEventMinds
<1>5. CASE IssueCheck(r) \/ IssuePark(r) \/ IssueCreate(r) \/ IssueRelease(r)
  BY <1>5, IssueMinds
<1>6. CASE Post(r) \/ TxPost(r)
  BY <1>6, SubmitMinds
<1> QED BY <1>1, <1>2, <1>3, <1>4, <1>5, <1>6 DEF Step

LEMMA EveryStepMinds ==
    ASSUME IInv, JInv, [Next]_vars
    PROVE  JInv'
<1>1. CASE UNCHANGED vars
  BY <1>1, QuietMinds
<1>2. CASE CalmNext
  <2>1. CASE \E r \in Runs : Step(r)
    BY <2>1, RunStepMinds
  <2>2. CASE \E r \in Runs, c \in Corrections, d \in Docs, t \in Tokens :
               RequestCorrection(r, c, d, t) \/ RequestPayment(r, c, d, t)
    BY <2>2, RequestCorrectionMinds, RequestPaymentMinds
  <2>3. CASE \E r \in Runs, t \in Tokens : Deliver(r, t) \/ DeadDeliver(r, t)
    BY <2>3, QuietRunMinds
  <2>4. CASE \E r \in Runs, c \in Corrections : StartRecovery(r, c)
    BY <2>4, QuietRunMinds
  <2>5. CASE \E r \in Runs, d \in Docs :
               StartTransmit(r, d) \/ StartInvalidate(r, d) \/ StartIssue(r, d)
    BY <2>5, QuietRunMinds, StartInvalidateMinds, QueueMinds
  <2>6. CASE \E c \in Corrections : RecoverVerdict(c) \/ (GoesStale(c) /\ Unattended(c))
    BY <2>6, QuietMinds
  <2>7. CASE \E k \in NewCodes, verdict \in {"PROCESADO", "RECHAZADO"} : MhDecides(k, verdict)
    BY <2>7, QuietMinds
  <2>8. CASE \E d \in Docs : \/ FinalizeByCron(d) \/ SignElsewhere(d)
                             \/ RetryIssuance(d) \/ SweepIssuance(d)
    BY <2>8, FinalizeByCronMinds, SignElsewhereMinds, QueueMinds
  <2> QED BY <1>2, <2>1, <2>2, <2>3, <2>4, <2>5, <2>6, <2>7, <2>8 DEF CalmNext
<1>3. CASE \E r \in Runs : StatementThrows(r) \/ Crash(r)
  BY <1>3, QuietRunMinds
<1>4. CASE \E c \in Corrections : GoesStale(c)
  BY <1>4, QuietMinds
<1> QED BY <1>1, <1>2, <1>3, <1>4 DEF Next

\* In every behaviour of the handlers an open correction has its target to itself: the
\* document stays under its fiscal claim, or the payment under its attempt, nothing of it
\* has been sent before its dispatch marker, and a delivery that takes the marker back
\* still has what it marked.
THEOREM OpeningsHold == Spec => []JInv
<1>1. Init => JInv
  BY BeginsMinding
<1>2. IInv /\ JInv /\ [Next]_vars => JInv'
  BY EveryStepMinds
<1> QED BY <1>1, <1>2, InvariantHolds, PTL DEF Spec

\* A document, with its payment, is in the hands of one correction at a time, however
\* often the queue redelivers, the sweep rotates the processing claim, a delivery crashes
\* and an operator asks again; an open correction that was not dispatched keeps its target
\* as the sweep asks for it.
THEOREM OneAtATime == Spec => []OneCorrectionAtATime
<1>1. IInv /\ JInv => OneCorrectionAtATime
  <2> SUFFICES ASSUME IInv, JInv PROVE OneCorrectionAtATime
    OBVIOUS
  <2>1. ASSUME NEW c \in Corrections, Open(c), ~fiscal_corrections[c].dispatched
        PROVE  InReach(fiscal_corrections[c], c, dte_documents[fiscal_corrections[c].document],
                       wompi_events[fiscal_corrections[c].document])
    <3>1. HoldsRow(c) /\ HoldsEvent(c)
      BY <2>1 DEF JInv, Openings
    <3> QED BY <2>1, <3>1 DEF HoldsRow, HoldsDocument, HoldsEvent, OfEvent, Working, InReach
  <2>2. OpenHoldsTarget
    BY <2>1 DEF OpenHoldsTarget, Open
  <2> QED BY <2>2 DEF OneCorrectionAtATime, JInv, NoRivals, Open
<1> QED BY <1>1, InvariantHolds, OpeningsHold, PTL

-----------------------------------------------------------------------------
(* A correction is settled with the verdict on its own codigo.             *)

\* What a step that settles correction c has found in the tables.
FindsVerdict(c) ==
    LET x  == fiscal_corrections[c]
        is == fiscal_corrections'[c].status
    IN
    is # x.status =>
       /\ is \in {"ACCEPTED", "REJECTED"} => /\ x.document \in Docs
                                             /\ dte_documents[x.document].status = is
                                             /\ codigo_generacion[x.document] = CodigoOf(c)
       /\ is = "FAILED" => Open(c) /\ ~x.dispatched

LEMMA VerdictFound ==
    ASSUME IInv, NEW c \in Corrections, NEW token, NEW d \in Docs, d = fiscal_corrections[c].document,
           finalizeVerdictEnabled(fiscal_corrections[c], c, token, dte_documents[d],
                                  codigo_generacion[d], wompi_events[d]),
           fiscal_corrections' = [fiscal_corrections EXCEPT
                                    ![c] = Finalized(fiscal_corrections[c], dte_documents[d].status)]
    PROVE  \A b \in Corrections : FindsVerdict(b)
<1>1. fiscal_corrections'[c].status = dte_documents[d].status
        /\ \A b \in Corrections \ {c} : fiscal_corrections'[b] = fiscal_corrections[b]
  BY DEF Finalized, IInv, TypeOK, CorrectionRow
<1>2. dte_documents[d].status # "FAILED" /\ codigo_generacion[d] = CodigoOf(c)
  BY DEF finalizeVerdictEnabled, CodigoOf
<1> QED BY <1>1, <1>2 DEF FindsVerdict

LEMMA HandlersSettle ==
    ASSUME IInv, NEW r \in Runs,
           \/ ClaimProcessing(r) \/ Reconcile(r) \/ Review(r) \/ Error(r) \/ Clear(r) \/ Finish(r)
           \/ Reserve(r) \/ RenewLease(r) \/ MarkDispatch(r) \/ Recover(r) \/ Fail(r) \/ Retire(r)
    PROVE  \A b \in Corrections : FindsVerdict(b)
<1> PICK c, d : c = run[r].correction /\ d = run[r].document
  OBVIOUS
<1> DEFINE x == fiscal_corrections[c]
<1>1. run[r].pc \in CorrectionPCs
  BY Plain DEF ClaimProcessing, Reconcile, Review, Error, Clear, Finish, Reserve, RenewLease,
               MarkDispatch, Recover, Fail, Retire, At
<1>2. c \in Corrections /\ x \in CorrectionRow /\ x.document = d /\ d \in Docs
  BY <1>1, OfCorrection DEF Correction, IInv, RunsKnow, Works
<1>3. ASSUME NEW y, fiscal_corrections' = [fiscal_corrections EXCEPT ![c] = y],
             \/ y.status \in {x.status, "PROCESSING", "REVIEW_REQUIRED"}
             \/ y.status = "FAILED" /\ Open(c) /\ ~x.dispatched
      PROVE  \A b \in Corrections : FindsVerdict(b)
  <2>1. fiscal_corrections'[c] = y
          /\ \A b \in Corrections \ {c} : fiscal_corrections'[b] = fiscal_corrections[b]
    BY <1>2, <1>3 DEF IInv, TypeOK
  <2> QED BY <1>3, <2>1 DEF FindsVerdict
<1>4. ASSUME UNCHANGED fiscal_corrections
      PROVE  \A b \in Corrections : FindsVerdict(b)
  BY <1>4 DEF FindsVerdict
<1>5. /\ \A status : Finalized(x, status).status = status
      /\ claimFiscalCorrectionProcessing(x).status = "PROCESSING"
      /\ \A t : recoverFiscalCorrectionProcessingClaim(x, t).status = "PROCESSING"
      /\ Renewed(x).status = x.status
      /\ \A n : [Renewed(x) EXCEPT !.number = n].status = x.status
      /\ \A b : [x EXCEPT !.dispatched = b].status = x.status
  BY <1>2 DEF Finalized, claimFiscalCorrectionProcessing, recoverFiscalCorrectionProcessingClaim,
              Renewed, CorrectionRow
<1>6. CASE Reconcile(r) \/ Error(r) \/ Finish(r)
  <2>1. \/ UNCHANGED fiscal_corrections
        \/ fiscal_corrections' = [fiscal_corrections EXCEPT ![c] = x]
        \/ /\ VerdictEnabled(r)
           /\ fiscal_corrections' = [fiscal_corrections EXCEPT
                                       ![c] = Finalized(x, dte_documents[d].status)]
    BY <1>6 DEF Reconcile, Error, Finish, SettleVerdict, SetCorrection, Correction, Document
  <2>2. VerdictEnabled(r) <=> finalizeVerdictEnabled(x, c, run[r].token, dte_documents[d],
                                                     codigo_generacion[d], wompi_events[d])
    BY DEF VerdictEnabled, Correction, Document, Codigo, Event
  <2> QED BY <1>2, <1>3, <1>4, <2>1, <2>2, VerdictFound
<1>7. CASE ClaimProcessing(r) \/ Review(r) \/ Recover(r)
  <2>1. \/ UNCHANGED fiscal_corrections
        \/ \E y : /\ fiscal_corrections' = [fiscal_corrections EXCEPT ![c] = y]
                  /\ y.status \in {x.status, "PROCESSING", "REVIEW_REQUIRED"}
    BY <1>5, <1>7 DEF ClaimProcessing, Review, Recover, SetCorrection, Correction
  <2> QED BY <1>3, <1>4, <2>1
<1>8. CASE Clear(r) \/ Reserve(r) \/ RenewLease(r) \/ MarkDispatch(r)
  <2>1. \E y : /\ fiscal_corrections' = [fiscal_corrections EXCEPT ![c] = y]
               /\ y.status = x.status
    <3>1. CASE Clear(r) \/ MarkDispatch(r)
      <4>1. PICK b : SetCorrection(r, [Correction(r) EXCEPT !.dispatched = b])
        BY <1>2, <3>1 DEF Clear, MarkDispatch, Correction, CorrectionRow
      <4> QED BY <1>5, <4>1 DEF SetCorrection, Correction
    <3>2. CASE Reserve(r) \/ RenewLease(r)
      <4> DEFINE first == reserveIdentifiersEnabled(Correction(r), run[r].correction, run[r].token,
                                                    Document(r))
                 again == reuseIdentifiersEnabled(Correction(r), run[r].correction, run[r].token,
                                                  Document(r))
      <4>1. CASE RenewLease(r)
        BY <1>5, <4>1 DEF RenewLease, SetCorrection, Correction
      <4>2. CASE Reserve(r)
        <5>1. \/ SetCorrection(r, [Renewed(Correction(r)) EXCEPT !.number = document_sequences])
              \/ SetCorrection(r, Renewed(Correction(r)))
              \/ SetCorrection(r, Correction(r))
          <6>1. first \in BOOLEAN /\ again \in BOOLEAN
            BY DEF reserveIdentifiersEnabled, reuseIdentifiersEnabled
          <6>2. SetCorrection(r, CASE first -> [Renewed(Correction(r)) EXCEPT !.number = document_sequences]
                                   [] ~first /\ again -> Renewed(Correction(r))
                                   [] ~first /\ ~again -> Correction(r))
            BY <4>2 DEF Reserve
          <6> HIDE DEF first, again
          <6> QED BY <6>1, <6>2
        <5>2. PICK y : /\ y \in {[Renewed(x) EXCEPT !.number = document_sequences], Renewed(x), x}
                       /\ fiscal_corrections' = [fiscal_corrections EXCEPT ![c] = y]
          BY <5>1 DEF SetCorrection, Correction
        <5>3. y.status = x.status
          BY <1>2, <5>2 DEF Renewed, CorrectionRow
        <5> QED BY <5>2, <5>3
      <4> QED BY <3>2, <4>1, <4>2
    <3> QED BY <1>8, <3>1, <3>2
  <2> QED BY <1>3, <2>1
<1>9. CASE Fail(r) \/ Retire(r)
  <2>1. \/ UNCHANGED fiscal_corrections
        \/ \E y : /\ fiscal_corrections' = [fiscal_corrections EXCEPT ![c] = y]
                  /\ y.status = x.status \/ (y.status = "FAILED" /\ Open(c) /\ ~x.dispatched)
    <3>1. CASE Fail(r)
      BY Zenon, <1>5, <3>1 DEF Fail, SetCorrection, Correction, finalizeWompiFailureEnabled,
                        finalizeFailedEnabled, Owned, Open, OpenStatus
    <3>2. CASE Retire(r)
      BY <1>5, <3>2 DEF Retire, SetCorrection, Correction, retireDirectEnabled, Owned, Open, OpenStatus
    <3> QED BY <1>9, <3>1, <3>2
  <2> QED BY <1>3, <1>4, <2>1
<1> QED BY <1>6, <1>7, <1>8, <1>9

LEMMA OthersSettle ==
    ASSUME IInv,
           \/ UNCHANGED fiscal_corrections
           \/ \E c \in Corrections : RecoverVerdict(c) \/ GoesStale(c)
           \/ \E r \in Runs, c \in Corrections, d \in Docs, t \in Tokens :
                 RequestCorrection(r, c, d, t) \/ RequestPayment(r, c, d, t)
    PROVE  \A b \in Corrections : FindsVerdict(b)
<1>1. CASE UNCHANGED fiscal_corrections
  BY <1>1 DEF FindsVerdict
<1>2. ASSUME NEW c \in Corrections, RecoverVerdict(c)
      PROVE  \A b \in Corrections : FindsVerdict(b)
  <2> DEFINE x == fiscal_corrections[c]
             d == x.document
  <2>1. /\ finalizeVerdictEnabled(x, c, x.token, dte_documents[d], codigo_generacion[d], wompi_events[d])
        /\ fiscal_corrections' = [fiscal_corrections EXCEPT ![c] = Finalized(x, dte_documents[d].status)]
    BY <1>2 DEF RecoverVerdict, RecoverableVerdict
  <2>2. d \in Docs
    BY <2>1 DEF finalizeVerdictEnabled, Owned, IInv, Places
  <2> QED BY <2>1, <2>2, VerdictFound
<1>3. ASSUME NEW c \in Corrections, GoesStale(c)
      PROVE  \A b \in Corrections : FindsVerdict(b)
  <2>1. \A b \in Corrections : fiscal_corrections'[b].status = fiscal_corrections[b].status
    BY <1>3, Typed DEF GoesStale, IInv, TypeOK, CorrectionRow
  <2> QED BY <2>1 DEF FindsVerdict
<1>4. ASSUME NEW r \in Runs, NEW c \in Corrections, NEW d \in Docs, NEW t \in Tokens,
             RequestCorrection(r, c, d, t) \/ RequestPayment(r, c, d, t)
      PROVE  \A b \in Corrections : FindsVerdict(b)
  <2>1. /\ fiscal_corrections'[c].status = "QUEUED"
        /\ \A o \in Corrections \ {c} : fiscal_corrections'[o] = fiscal_corrections[o]
    BY <1>4, RequestAlone
  <2> QED BY <2>1 DEF FindsVerdict
<1> QED BY <1>1, <1>2, <1>3, <1>4

LEMMA EveryStepFindsVerdict ==
    ASSUME IInv, [Next]_vars
    PROVE  \A c \in Corrections : FindsVerdict(c)
<1> DEFINE settler(r) ==
              \/ ClaimProcessing(r) \/ Reconcile(r) \/ Review(r) \/ Error(r) \/ Clear(r) \/ Finish(r)
              \/ Reserve(r) \/ RenewLease(r) \/ MarkDispatch(r) \/ Recover(r) \/ Fail(r) \/ Retire(r)
<1>1. CASE UNCHANGED vars
  BY <1>1, OthersSettle DEF vars, tableVars
<1>2. CASE CalmNext
  <2>1. CASE \E r \in Runs : Step(r)
    <3>1. PICK r \in Runs : Step(r)
      BY <2>1
    <3>2. CASE settler(r)
      BY <3>2, HandlersSettle
    <3>3. CASE ~settler(r)
      <4>1. UNCHANGED fiscal_corrections
        BY Zenon, <3>1, <3>3
           DEF Step, Send, DeadLoad, Handler, Load, Reload, ReadDocument, Prepare, ReadPayment,
               HoldPaymentDocument, ClaimEvent, CreateCorrected, CreateDocument, ReleaseEvent,
               Transmit, Sign, Unsigned, ClaimDocument, TokenFails, Undo, Post, Submit, Reply,
               ReadReply, Complete, FinalizeAccepted, Catch, TxClaim, TxTokenFails, TxPost, TxReply,
               TxComplete, InvPost, InvComplete, IssueCheck, IssuePark, IssueCreate, IssueRelease,
               tableVars
      <4> QED BY Zenon, <4>1, OthersSettle
    <3> QED BY <3>2, <3>3
  <2>2. CASE \E r \in Runs, c \in Corrections, d \in Docs, t \in Tokens :
               RequestCorrection(r, c, d, t) \/ RequestPayment(r, c, d, t)
    BY <2>2, OthersSettle
  <2>3. CASE \E r \in Runs, t \in Tokens : Deliver(r, t) \/ DeadDeliver(r, t)
    BY <2>3, OthersSettle DEF Deliver, DeadDeliver, StartDelivery, tableVars
  <2>4. CASE \E r \in Runs, c \in Corrections : StartRecovery(r, c)
    BY <2>4, OthersSettle DEF StartRecovery, tableVars
  <2>5. CASE \E r \in Runs, d \in Docs :
               StartTransmit(r, d) \/ StartInvalidate(r, d) \/ StartIssue(r, d)
    BY <2>5, OthersSettle DEF StartTransmit, StartInvalidate, StartIssue, tableVars
  <2>6. CASE \E c \in Corrections : RecoverVerdict(c) \/ (GoesStale(c) /\ Unattended(c))
    BY <2>6, OthersSettle
  <2>7. CASE \E k \in NewCodes, verdict \in {"PROCESADO", "RECHAZADO"} : MhDecides(k, verdict)
    BY <2>7, OthersSettle DEF MhDecides, tableVars
  <2>8. CASE \E d \in Docs : \/ FinalizeByCron(d) \/ SignElsewhere(d)
                             \/ RetryIssuance(d) \/ SweepIssuance(d)
    BY <2>8, OthersSettle DEF FinalizeByCron, SignElsewhere, RetryIssuance, SweepIssuance, tableVars
  <2> QED BY <1>2, <2>1, <2>2, <2>3, <2>4, <2>5, <2>6, <2>7, <2>8 DEF CalmNext
<1>3. CASE \E r \in Runs : StatementThrows(r) \/ Crash(r)
  BY <1>3, OthersSettle DEF StatementThrows, Crash, tableVars
<1>4. CASE \E c \in Corrections : GoesStale(c)
  BY <1>4, OthersSettle
<1> QED BY <1>1, <1>2, <1>3, <1>4 DEF Next

\* What has a status of a settled correction afterwards, and had not before, was settled
\* by a step that asks MH nothing and sends nothing.
LEMMA SettlingIsSilent ==
    ASSUME IInv, [Next]_vars, NEW c \in Corrections,
           fiscal_corrections'[c].status # fiscal_corrections[c].status
    PROVE  UNCHANGED mhVars
<1>1. ASSUME UNCHANGED fiscal_corrections
      PROVE  FALSE
  BY <1>1
<1>2. CASE CalmNext
  <2>1. ASSUME NEW r \in Runs, Step(r)
        PROVE  UNCHANGED mhVars
    BY Zenon, <1>1, <2>1
       DEF Step, Send, DeadLoad, Handler, Load, Reload, ReadDocument, Prepare, ReadPayment,
           HoldPaymentDocument, ClaimEvent, CreateCorrected, CreateDocument, ReleaseEvent,
           Transmit, Sign, Unsigned, ClaimDocument, TokenFails, Undo, Post, Submit, Reply,
           ReadReply, Complete, FinalizeAccepted, Catch, TxClaim, TxTokenFails, TxPost, TxReply,
           TxComplete, InvPost, InvComplete, IssueCheck, IssuePark, IssueCreate, IssueRelease,
           ClaimProcessing, Reconcile, Review, Error, Clear, Finish, Reserve, RenewLease,
           MarkDispatch, Recover, Fail, Retire, tableVars
  <2>2. ASSUME NEW r \in Runs, NEW e \in Corrections, NEW d \in Docs, NEW t \in Tokens,
               RequestCorrection(r, e, d, t) \/ RequestPayment(r, e, d, t)
        PROVE  UNCHANGED mhVars
    BY Zenon, <2>2 DEF RequestCorrection, RequestPayment
  <2>3. ASSUME \/ \E r \in Runs, t \in Tokens : Deliver(r, t) \/ DeadDeliver(r, t)
               \/ \E r \in Runs, e \in Corrections : StartRecovery(r, e)
               \/ \E r \in Runs, d \in Docs : \/ StartTransmit(r, d) \/ StartInvalidate(r, d)
                                             \/ StartIssue(r, d)
               \/ \E k \in NewCodes, verdict \in {"PROCESADO", "RECHAZADO"} : MhDecides(k, verdict)
               \/ \E d \in Docs : \/ FinalizeByCron(d) \/ SignElsewhere(d)
                                  \/ RetryIssuance(d) \/ SweepIssuance(d)
        PROVE  UNCHANGED fiscal_corrections
    BY Zenon, <2>3 DEF Deliver, DeadDeliver, StartDelivery, StartRecovery, StartTransmit, StartInvalidate,
                StartIssue, MhDecides, FinalizeByCron, SignElsewhere, RetryIssuance, SweepIssuance,
                tableVars
  <2>4. ASSUME NEW e \in Corrections, RecoverVerdict(e) \/ GoesStale(e)
        PROVE  UNCHANGED mhVars
    BY <2>4 DEF RecoverVerdict, GoesStale
  <2> QED BY Zenon, <1>1, <1>2, <2>1, <2>2, <2>3, <2>4 DEF CalmNext
<1>3. CASE \E r \in Runs : StatementThrows(r) \/ Crash(r)
  BY <1>1, <1>3 DEF StatementThrows, Crash, tableVars
<1>4. CASE \E e \in Corrections : GoesStale(e)
  BY <1>4 DEF GoesStale
<1>5. CASE UNCHANGED vars
  BY <1>5 DEF vars
<1> QED BY <1>2, <1>3, <1>4, <1>5 DEF Next

\* A correction is settled with MH's verdict on the codigo that it, or its payment, has
\* reserved, and fails only while nothing was sent under that codigo, whichever handler
\* settles it: its own delivery, one that overlaps, the catch block or the cron.
THEOREM VerdictIsItsOwn == Spec => VerdictIsOfThisCorrection
<1>1. IInv /\ JInv /\ [Next]_vars =>
        [\A c \in Corrections :
           LET was == fiscal_corrections[c].status
               is  == fiscal_corrections'[c].status
               k   == CodigoOf(c)
           IN  was # is => /\ is = "ACCEPTED" => recepcion'[k] = "PROCESADO"
                           /\ is = "REJECTED" => recepcion'[k] = "RECHAZADO"
                           /\ is = "FAILED"   => posts'[k] = 0]_vars
  <2> SUFFICES ASSUME IInv, JInv, [Next]_vars, NEW c \in Corrections,
                      fiscal_corrections[c].status # fiscal_corrections'[c].status
               PROVE  LET is == fiscal_corrections'[c].status
                          k  == CodigoOf(c)
                      IN  /\ is = "ACCEPTED" => recepcion'[k] = "PROCESADO"
                          /\ is = "REJECTED" => recepcion'[k] = "RECHAZADO"
                          /\ is = "FAILED"   => posts'[k] = 0
    OBVIOUS
  <2> DEFINE is == fiscal_corrections'[c].status
             d  == fiscal_corrections[c].document
  <2>1. UNCHANGED <<posts, recepcion>>
    BY SettlingIsSilent DEF mhVars
  <2>2. FindsVerdict(c)
    BY EveryStepFindsVerdict
  <2>3. ASSUME is \in {"ACCEPTED", "REJECTED"}
        PROVE  recepcion[CodigoOf(c)] = IF is = "ACCEPTED" THEN "PROCESADO" ELSE "RECHAZADO"
    <3>1. d \in Docs /\ dte_documents[d].status = is /\ codigo_generacion[d] = CodigoOf(c)
      BY <2>2, <2>3 DEF FindsVerdict
    <3>2. CodigoOf(c) \in NewCodes
      BY <3>1 DEF CodigoOf, NewCodes, IInv, Places, Placed
    <3>3. Truthful(d)
      BY <3>1 DEF IInv, Rows
    <3> QED BY <2>3, <3>1, <3>2, <3>3 DEF Truthful
  <2>4. is = "FAILED" => posts[CodigoOf(c)] = 0
    BY <2>2 DEF FindsVerdict, JInv, Openings, Unposted
  <2> QED BY <2>1, <2>3, <2>4
<1> QED BY <1>1, InvariantHolds, OpeningsHold, PTL DEF Spec, VerdictIsOfThisCorrection

=============================================================================
