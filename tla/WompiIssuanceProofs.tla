------------------------ MODULE WompiIssuanceProofs ------------------------
(***************************************************************************)
(* Proofs about WompiIssuance, for any number of payments, runs, attempts, *)
(* retries and requeues.                                                   *)
(***************************************************************************)
EXTENDS WompiIssuance, SequenceTheorems, TLAPS

-----------------------------------------------------------------------------
(* The inductive invariant.                                                *)

Rows == wompi_events \in [Events -> WompiRow]

\* A number that was given out is below the counter, and no two events have
\* the same.
Numbers ==
    /\ document_sequences \in Nat \ {0}
    /\ \A e \in Events : wompi_events[e].number < document_sequences
    /\ \A e, f \in Events :
          wompi_events[e].number # 0 /\ wompi_events[e].number = wompi_events[f].number => e = f
    /\ \A n \in 1..(document_sequences - 1) : \E e \in Events : wompi_events[e].number = n

\* A document carries the number of its event, which has one.
Carried ==
    /\ documents \in Seq([event : Events, number : Nat])
    /\ \A i \in DOMAIN documents :
          /\ documents[i].number = wompi_events[documents[i].event].number
          /\ documents[i].number # 0

\* A message in a queue is of an event.
Queue ==
    /\ messages \in [Attempts -> Message]
    /\ \A a \in Attempts : messages[a].at # "none" => messages[a].event \in Events

\* A run has an event, those on a message have its attempt, and a run that is
\* about to create the document has reserved its number.
Sound(k) ==
    /\ k.pc # "idle" => k.event \in Events
    /\ k.pc \in ConsumerPCs \cup DeadPCs \cup {"send"} => k.attempt \in Attempts
    /\ k.pc = "create" => wompi_events[k.event].number # 0

Handlers ==
    /\ run \in [Runs -> RunState]
    /\ \A r \in Runs : Sound(run[r])

Aside ==
    /\ requeues \in [Events -> Nat]
    /\ audits \subseteq {"ISSUANCE_DEAD_LETTERED", "WOMPI_EVENT_STALLED"} \X Events
    /\ observed \subseteq Runs

IInv == Rows /\ Numbers /\ Carried /\ OneCdePerPayment /\ Queue /\ Handlers /\ Aside

-----------------------------------------------------------------------------
(* Facts that the steps share.                                             *)

LEMMA Known ==
    ASSUME IInv
    PROVE  /\ wompi_events \in [Events -> WompiRow]
           /\ run \in [Runs -> RunState]
           /\ messages \in [Attempts -> Message]
           /\ \A e \in Events : wompi_events[e] \in WompiRow
           /\ \A r \in Runs : run[r] \in RunState /\ Sound(run[r])
  BY DEF IInv, Rows, Handlers, Queue

\* A step that gives out no number and creates no document.
Steady ==
    /\ \A e \in Events : /\ wompi_events'[e].number = wompi_events[e].number
                         /\ wompi_events'[e].document = wompi_events[e].document
    /\ UNCHANGED <<documents, document_sequences>>

LEMMA Quiet ==
    ASSUME IInv, Steady, Rows', Queue', Handlers', Aside'
    PROVE  IInv'
<1>1. Numbers'
  BY DEF IInv, Steady, Numbers
<1>2. Carried'
  <2>1. ASSUME NEW i \in DOMAIN documents
        PROVE  documents[i].number = wompi_events'[documents[i].event].number
    <3>1. documents[i] \in [event : Events, number : Nat]
      <4>1. documents \in Seq([event : Events, number : Nat])
        BY DEF IInv, Carried
      <4>2. i \in 1..Len(documents)
        BY <4>1, LenProperties
      <4> QED BY <4>1, <4>2, ElementOfSeq
    <3> QED BY <3>1 DEF IInv, Steady, Carried
  <2> QED BY <2>1 DEF IInv, Steady, Carried
<1>3. OneCdePerPayment'
  BY DEF IInv, Steady, OneCdePerPayment
<1> QED BY <1>1, <1>2, <1>3 DEF IInv

\* Numbers are not taken back.
NumbersKept == \A e \in Events : wompi_events[e].number # 0 => wompi_events'[e].number # 0

LEMMA RunStep ==
    ASSUME IInv, NumbersKept, NEW r \in Runs, NEW k \in RunState, run' = [run EXCEPT ![r] = k], Sound(k)'
    PROVE  Handlers'
<1>1. run' \in [Runs -> RunState] /\ run'[r] = k /\ \A s \in Runs \ {r} : run'[s] = run[s]
  BY Known
<1>2. ASSUME NEW s \in Runs PROVE Sound(run[s])'
  <2>1. CASE s = r
    BY <1>1, <2>1 DEF Sound
  <2>2. CASE s # r
    <3>1. Sound(run[s])
      BY Known
    <3> QED BY <1>1, <2>2, <3>1 DEF Sound, NumbersKept, ConsumerPCs
  <2> QED BY <2>1, <2>2
<1> QED BY <1>1, <1>2 DEF Handlers

LEMMA Returns ==
    ASSUME IInv, NumbersKept, NEW r \in Runs, Return(r)
    PROVE  Handlers'
<1>1. IdleRun \in RunState
  BY DEF IdleRun, RunState
<1>2. Sound(IdleRun)'
  BY DEF Sound, IdleRun, ConsumerPCs, DeadPCs
<1> QED BY <1>1, <1>2, RunStep DEF Return

LEMMA SameHandlers ==
    ASSUME IInv, NumbersKept, UNCHANGED run
    PROVE  Handlers'
<1>1. ASSUME NEW s \in Runs PROVE Sound(run[s])'
  <2>1. Sound(run[s])
    BY Known
  <2> QED BY <2>1 DEF Sound, NumbersKept, ConsumerPCs
<1> QED BY <1>1, Known DEF Handlers

\* A handler goes on with the same event and attempt.
LEMMA Goes ==
    ASSUME IInv, NumbersKept, NEW r \in Runs, NEW pc \in ConsumerPCs \cup DeadPCs \cup OtherPCs,
           Goto(r, pc), run[r].pc # "idle", pc # "create",
           pc \in ConsumerPCs \cup DeadPCs \cup {"send"} => run[r].attempt \in Attempts
    PROVE  Handlers'
<1>1. PICK k : k = [run[r] EXCEPT !.pc = pc]
  OBVIOUS
<1>2. run[r] \in RunState /\ Sound(run[r])
  BY Known
<1>3. k \in RunState /\ k.pc = pc /\ k.event = run[r].event /\ k.attempt = run[r].attempt
  BY <1>1, <1>2 DEF RunState
<1>4. run' = [run EXCEPT ![r] = k]
  BY <1>1 DEF Goto
<1>5. Sound(k)'
  BY <1>2, <1>3 DEF Sound
<1> QED BY <1>3, <1>4, <1>5, RunStep

\* A statement on the row of a run.
LEMMA Writes ==
    ASSUME IInv, NEW r \in Runs, NEW e \in Events, e = run[r].event,
           NEW row \in WompiRow, NEW touches \in BOOLEAN, Write(r, row, touches),
           row.number = wompi_events[e].number, row.document = wompi_events[e].document,
           UNCHANGED <<documents, document_sequences>>
    PROVE  Rows' /\ Steady /\ NumbersKept /\ observed' \subseteq Runs
<1>1. wompi_events' = [wompi_events EXCEPT ![e] = row]
  BY DEF Write
<1>2. observed' \subseteq observed
  BY DEF Write
<1>3. Rows' /\ wompi_events'[e] = row /\ \A f \in Events \ {e} : wompi_events'[f] = wompi_events[f]
  BY <1>1, Known DEF Rows
<1> QED BY <1>2, <1>3 DEF Steady, NumbersKept, IInv, Aside

LEMMA SameRows ==
    ASSUME IInv, UNCHANGED <<wompi_events, documents, document_sequences>>
    PROVE  Rows' /\ Steady /\ NumbersKept
  BY DEF IInv, Rows, Steady, NumbersKept

LEMMA SameQueue ==
    ASSUME IInv, UNCHANGED messages PROVE Queue'
  BY DEF IInv, Queue

LEMMA SameAside ==
    ASSUME IInv, UNCHANGED <<requeues, audits>>, observed' \subseteq Runs
    PROVE  Aside'
  BY DEF IInv, Aside

\* A delivery ends.
LEMMA Ends ==
    ASSUME IInv, NEW r \in Runs, run[r].attempt \in Attempts, Ack(r) \/ Redeliver(r)
    PROVE  Queue'
<1>1. PICK a \in Attempts : a = run[r].attempt
  OBVIOUS
<1>2. messages[a] \in Message /\ (messages[a].at # "none" => messages[a].event \in Events)
  BY DEF IInv, Queue
<1>3. NoMessage \in Message /\ NoMessage.at = "none"
  BY LimitsAreNumbers DEF NoMessage, Message
<1>4. \E m \in Message : /\ messages' = [messages EXCEPT ![a] = m]
                         /\ m.at # "none" => m.event \in Events
  <2>1. CASE Ack(r)
    BY <1>1, <1>3, <2>1 DEF Ack
  <2>2. CASE Redeliver(r)
    <3>1. CASE messages[a].at # "queue"
      <4>1. messages' = [messages EXCEPT ![a] = messages[a]]
        BY <1>1, <2>2, <3>1 DEF Redeliver
      <4> QED BY <1>2, <4>1
    <3>2. CASE messages[a].at = "queue" /\ messages[a].tries < MaxRetries
      <4>1. PICK m : m = [messages[a] EXCEPT !.tries = messages[a].tries + 1]
        OBVIOUS
      <4>2. messages' = [messages EXCEPT ![a] = m]
        <5>1. ~(messages[a].tries >= MaxRetries) /\ messages[a].at = "queue"
          BY <1>2, <3>2, LimitsAreNumbers DEF Message
        <5> QED BY <1>1, <2>2, <3>2, <4>1, <5>1 DEF Redeliver
      <4>3. messages[a].tries + 1 \in 0..MaxRetries
        BY <1>2, <3>2, LimitsAreNumbers DEF Message
      <4>4. m \in Message /\ m.event = messages[a].event
        BY <1>2, <4>1, <4>3 DEF Message
      <4> QED BY <1>2, <3>2, <4>2, <4>4
    <3>3. CASE messages[a].at = "queue" /\ ~(messages[a].tries < MaxRetries)
      <4>1. PICK m : m = [messages[a] EXCEPT !.at = "dlq", !.tries = 0]
        OBVIOUS
      <4>2. messages' = [messages EXCEPT ![a] = m]
        <5>1. messages[a].tries >= MaxRetries
          BY <1>2, <3>3, LimitsAreNumbers DEF Message
        <5> QED BY <1>1, <2>2, <3>3, <4>1, <5>1 DEF Redeliver
      <4>3. 0 \in 0..MaxRetries
        BY LimitsAreNumbers
      <4>4. m \in Message /\ m.event = messages[a].event
        BY <1>2, <4>1, <4>3 DEF Message
      <4> QED BY <1>2, <3>3, <4>2, <4>4
    <3> QED BY <3>1, <3>2, <3>3
  <2> QED BY <2>1, <2>2
<1>5. PICK m \in Message : /\ messages' = [messages EXCEPT ![a] = m]
                           /\ m.at # "none" => m.event \in Events
  BY <1>4
<1>6. messages' \in [Attempts -> Message] /\ messages'[a] = m
      /\ \A b \in Attempts \ {a} : messages'[b] = messages[b]
  BY <1>5, Known
<1> QED BY <1>5, <1>6 DEF IInv, Queue

\* The run gets a new attempt for its event, which is not sent yet.
LEMMA GetsAttempt ==
    ASSUME IInv, NEW r \in Runs, NEW e \in Events, e = run[r].event,
           NEW row \in WompiRow, NEW a \in Attempts, NEW next \in {"idle", "sweep_audit"},
           NewAttempt(r, row, a, next),
           row.number = wompi_events[e].number, row.document = wompi_events[e].document,
           UNCHANGED <<documents, document_sequences>>
    PROVE  /\ Rows' /\ Steady /\ Handlers' /\ observed' \subseteq Runs
           /\ audits' \subseteq audits
<1>1. Rows' /\ Steady /\ NumbersKept /\ observed' \subseteq Runs
  BY Writes DEF NewAttempt
<1>2. PICK k : k = [run[r] EXCEPT !.pc = "send", !.attempt = a, !.next = next]
  OBVIOUS
<1>3. run[r] \in RunState
  BY Known
<1>4. k \in RunState /\ k.pc = "send" /\ k.event = e /\ k.attempt = a
  BY <1>2, <1>3 DEF RunState, OtherPCs
<1>5. run' = [run EXCEPT ![r] = k]
  BY <1>2, <1>3, Known DEF NewAttempt, RunState
<1>6. Sound(k)'
  BY <1>4 DEF Sound
<1>7. Handlers'
  BY <1>1, <1>4, <1>5, <1>6, RunStep
<1> QED BY <1>1, <1>7 DEF NewAttempt

\* A handler starts on an event.
LEMMA Begins ==
    ASSUME IInv, NumbersKept, NEW r \in Runs, NEW e \in Events, NEW pc \in ConsumerPCs \cup DeadPCs \cup OtherPCs,
           NEW attempt \in Attempts \cup {NULL}, Begin(r, e, pc, attempt),
           pc \notin {"create", "send"},
           pc \in ConsumerPCs \cup DeadPCs => attempt \in Attempts
    PROVE  Handlers'
<1>1. PICK k : k = [IdleRun EXCEPT !.pc = pc, !.event = e, !.attempt = attempt]
  OBVIOUS
<1>2. k \in RunState /\ k.pc = pc /\ k.event = e /\ k.attempt = attempt
  BY <1>1 DEF IdleRun, RunState
<1>3. run' = [run EXCEPT ![r] = k]
  BY <1>1 DEF Begin
<1>4. Sound(k)'
  BY <1>2 DEF Sound
<1> QED BY <1>2, <1>3, <1>4, RunStep

\* The event of a run that is at work.
LEMMA Working ==
    ASSUME IInv, NEW r \in Runs, run[r].pc # "idle"
    PROVE  /\ run[r].event \in Events
           /\ Row(r) = wompi_events[run[r].event] /\ Row(r) \in WompiRow
           /\ run[r] \in RunState
           /\ run[r].pc \in ConsumerPCs \cup DeadPCs \cup {"send"} => run[r].attempt \in Attempts
  BY Known DEF Sound, Row

LEMMA InitInv == Init => IInv
<1> SUFFICES ASSUME Init PROVE IInv
  OBVIOUS
<1>1. Rows
  BY DEF Init, Rows, NoEvent, WompiRow, Errors
<1>2. Numbers
  BY DEF Init, Numbers, NoEvent
<1>3. Carried
  BY DEF Init, Carried
<1>4. OneCdePerPayment
  BY DEF Init, OneCdePerPayment, NoEvent
<1>5. Queue
  BY LimitsAreNumbers DEF Init, Queue, NoMessage, Message
<1>6. Handlers
  BY DEF Init, Handlers, IdleRun, RunState, Sound, ConsumerPCs, DeadPCs
<1>7. Aside
  BY DEF Init, Aside
<1> QED BY <1>1, <1>2, <1>3, <1>4, <1>5, <1>6, <1>7 DEF IInv

-----------------------------------------------------------------------------
(* The steps that begin and queue an attempt.                              *)

LEMMA IngestStep ==
    ASSUME IInv, NEW r \in Runs, NEW e \in Events, Ingest(r, e) PROVE IInv'
<1>1. PICK row : row = insertWompiEvent(wompi_events[e])
  OBVIOUS
<1>2. row \in WompiRow /\ row.number = wompi_events[e].number /\ row.document = wompi_events[e].document
  BY <1>1, Known DEF insertWompiEvent, WompiRow
<1>3. wompi_events' = [wompi_events EXCEPT ![e] = row]
  BY <1>1 DEF Ingest
<1>4. Rows' /\ wompi_events'[e] = row /\ \A f \in Events \ {e} : wompi_events'[f] = wompi_events[f]
  BY <1>2, <1>3, Known DEF Rows
<1>5. Steady /\ NumbersKept
  BY <1>2, <1>4 DEF Ingest, Steady, NumbersKept
<1>6. Handlers'
  BY <1>5, Begins DEF Ingest, OtherPCs, ConsumerPCs, DeadPCs
<1> QED BY <1>4, <1>5, <1>6, SameQueue, SameAside, Quiet DEF Ingest, IInv, Aside

LEMMA IngestClaimStep ==
    ASSUME IInv, NEW r \in Runs, IngestClaim(r) PROVE IInv'
<1>0. run[r].pc = "ingest_claim" /\ UNCHANGED <<document_sequences, documents, messages, requeues>>
  BY DEF IngestClaim, At
<1>1. PICK e \in Events : e = run[r].event /\ Row(r) = wompi_events[e] /\ Row(r) \in WompiRow
  BY <1>0, Working
<1>2. CASE claimInitialWompiIssuanceAttemptEnabled(Row(r))
  <2>1. PICK a \in Attempts : NewAttempt(r, QueueAttempt(Row(r), a), a, "idle")
    BY <1>2 DEF IngestClaim
  <2>2. PICK row : row = QueueAttempt(Row(r), a)
    OBVIOUS
  <2>3. row \in WompiRow /\ row.number = wompi_events[e].number /\ row.document = wompi_events[e].document
    BY <1>1, <2>2 DEF QueueAttempt, WompiRow
  <2>4. Rows' /\ Steady /\ Handlers' /\ observed' \subseteq Runs /\ audits' \subseteq audits
    BY <1>0, <1>1, <2>1, <2>2, <2>3, GetsAttempt
  <2>5. Aside'
    BY <1>0, <2>4 DEF IInv, Aside
  <2> QED BY <1>0, <2>4, <2>5, SameQueue, Quiet
<1>3. CASE ~claimInitialWompiIssuanceAttemptEnabled(Row(r))
  <2>1. Return(r) /\ UNCHANGED <<wompi_events, observed, audits>>
    BY <1>3 DEF IngestClaim
  <2>2. Rows' /\ Steady /\ NumbersKept
    BY <1>0, <2>1, SameRows
  <2> QED BY <1>0, <2>1, <2>2, Returns, SameQueue, SameAside, Quiet DEF IInv, Aside
<1> QED BY <1>2, <1>3

LEMMA SendStep ==
    ASSUME IInv, NEW r \in Runs, Send(r) PROVE IInv'
<1>0. run[r].pc = "send" /\ UNCHANGED <<wompi_events, document_sequences, documents, requeues, audits, observed>>
  BY DEF Send, At, tableVars
<1>1. PICK e \in Events : e = run[r].event
  BY <1>0, Working
<1>2. PICK a \in Attempts : a = run[r].attempt
  BY <1>0, Working
<1>3. PICK m : m = [NoMessage EXCEPT !.at = "queue", !.event = e]
  OBVIOUS
<1>4. m \in Message /\ m.event = e
  <2>1. 0 \in 0..MaxRetries
    BY LimitsAreNumbers
  <2> QED BY <1>3, <2>1 DEF NoMessage, Message
<1>5. messages' = [messages EXCEPT ![a] = m]
  BY <1>1, <1>2, <1>3 DEF Send
<1>6. messages' \in [Attempts -> Message] /\ messages'[a] = m
      /\ \A b \in Attempts \ {a} : messages'[b] = messages[b]
  BY <1>4, <1>5, Known
<1>7. Queue'
  BY <1>4, <1>6 DEF IInv, Queue
<1>8. Rows' /\ Steady /\ NumbersKept
  BY <1>0, SameRows
<1>9. Handlers'
  <2>1. CASE run[r].next = "idle"
    BY <1>8, <2>1, Returns DEF Send
  <2>2. CASE run[r].next # "idle"
    <3>1. run[r].next = "sweep_audit"
      BY <2>2, Known DEF RunState
    <3> QED BY <1>0, <1>8, <2>2, <3>1, Goes DEF Send, OtherPCs, ConsumerPCs, DeadPCs
  <2> QED BY <2>1, <2>2
<1> QED BY <1>0, <1>7, <1>8, <1>9, SameAside, Quiet DEF IInv, Aside

LEMMA DeliverStep ==
    ASSUME IInv, NEW r \in Runs, NEW a \in Attempts, Deliver(r, a) \/ DeadDeliver(r, a) PROVE IInv'
<1>1. UNCHANGED <<messages, wompi_events, document_sequences, documents, requeues, audits, observed>>
  BY DEF Deliver, DeadDeliver, tableVars
<1>2. messages[a].event \in Events
  BY DEF IInv, Queue, Deliver, DeadDeliver
<1>3. Rows' /\ Steady /\ NumbersKept
  BY <1>1, SameRows
<1>4. Handlers'
  <2>1. CASE Begin(r, messages[a].event, "mark", a)
    BY <1>2, <1>3, <2>1, Begins DEF ConsumerPCs, DeadPCs, OtherPCs
  <2>2. CASE Begin(r, messages[a].event, "dead_mark", a)
    BY <1>2, <1>3, <2>2, Begins DEF ConsumerPCs, DeadPCs, OtherPCs
  <2> QED BY <2>1, <2>2 DEF Deliver, DeadDeliver
<1> QED BY <1>1, <1>3, <1>4, SameQueue, SameAside, Quiet DEF IInv, Aside

-----------------------------------------------------------------------------
(* The consumer.                                                           *)

LEMMA MarkProcessingStep ==
    ASSUME IInv, NEW r \in Runs, MarkProcessing(r) PROVE IInv'
<1>0. run[r].pc = "mark" /\ UNCHANGED <<document_sequences, documents, requeues, audits>>
  BY DEF MarkProcessing, At
<1>1. /\ run[r].event \in Events /\ Row(r) = wompi_events[run[r].event] /\ Row(r) \in WompiRow
      /\ run[r].attempt \in Attempts /\ run[r] \in RunState
  BY <1>0, Working DEF ConsumerPCs
<1>2. CASE /\ Write(r, markWompiIssuanceProcessing(Row(r)), TRUE)
           /\ run' = [run EXCEPT ![r].pc = "load", ![r].current = TRUE]
           /\ UNCHANGED messages
  <2>1. Rows' /\ Steady /\ NumbersKept /\ observed' \subseteq Runs
    <3>1. PICK row : row = markWompiIssuanceProcessing(Row(r))
      OBVIOUS
    <3>2. row \in WompiRow /\ row.number = Row(r).number /\ row.document = Row(r).document
      BY <1>1, <3>1 DEF markWompiIssuanceProcessing, WompiRow
    <3> QED BY <1>0, <1>1, <1>2, <3>1, <3>2, Writes
  <2>2. PICK k : k = [run[r] EXCEPT !.pc = "load", !.current = TRUE]
    OBVIOUS
  <2>3. k \in RunState /\ k.pc = "load" /\ k.event = run[r].event /\ k.attempt = run[r].attempt
    BY <1>1, <2>2 DEF RunState, ConsumerPCs
  <2>4. run' = [run EXCEPT ![r] = k]
    BY <1>1, <1>2, <2>2, Known DEF RunState
  <2>5. Sound(k)'
    BY <1>1, <2>3 DEF Sound
  <2>6. Handlers'
    BY <2>1, <2>3, <2>4, <2>5, RunStep
  <2> QED BY <1>0, <1>2, <2>1, <2>6, SameQueue, SameAside, Quiet
<1>3. CASE /\ IF Row(r).document THEN Goto(r, "process") /\ UNCHANGED messages
                                 ELSE Return(r) /\ Ack(r)
           /\ UNCHANGED <<wompi_events, observed>>
  <2>1. Rows' /\ Steady /\ NumbersKept
    BY <1>0, <1>3, SameRows
  <2>2. Aside'
    BY <1>0, <1>3, SameAside DEF IInv, Aside
  <2>3. CASE Row(r).document
    BY <1>0, <1>1, <1>3, <2>1, <2>2, <2>3, Goes, SameQueue, Quiet DEF ConsumerPCs
  <2>4. CASE ~Row(r).document
    BY <1>1, <1>3, <2>1, <2>2, <2>4, Returns, Ends, Quiet
  <2> QED BY <2>3, <2>4
<1> QED BY <1>2, <1>3 DEF MarkProcessing

\* The steps of the consumer that write one row, if any, and go on or end.
LEMMA ConsumerStep ==
    ASSUME IInv, NEW r \in Runs, run[r].pc \in ConsumerPCs,
           UNCHANGED <<document_sequences, documents, requeues, audits>>,
           \/ UNCHANGED <<wompi_events, observed>>
           \/ \E row \in WompiRow, touches \in BOOLEAN :
                 /\ Write(r, row, touches)
                 /\ row.number = Row(r).number /\ row.document = Row(r).document,
           \/ \E pc \in ConsumerPCs \ {"create"} : Goto(r, pc) /\ UNCHANGED messages
           \/ Return(r) /\ (Ack(r) \/ Redeliver(r))
    PROVE  IInv'
<1>0. run[r].pc # "idle"
  BY DEF ConsumerPCs
<1>1. /\ run[r].event \in Events /\ Row(r) = wompi_events[run[r].event] /\ run[r].attempt \in Attempts
  BY <1>0, Working
<1>2. Rows' /\ Steady /\ NumbersKept /\ observed' \subseteq Runs
  <2>1. CASE UNCHANGED <<wompi_events, observed>>
    BY <2>1, SameRows DEF IInv, Aside
  <2>2. CASE \E row \in WompiRow, touches \in BOOLEAN :
                 /\ Write(r, row, touches)
                 /\ row.number = Row(r).number /\ row.document = Row(r).document
    BY <1>1, <2>2, Writes
  <2> QED BY <2>1, <2>2
<1>3. Queue' /\ Handlers'
  <2>1. CASE \E pc \in ConsumerPCs \ {"create"} : Goto(r, pc) /\ UNCHANGED messages
    BY <1>0, <1>1, <1>2, <2>1, Goes, SameQueue
  <2>2. CASE Return(r) /\ (Ack(r) \/ Redeliver(r))
    BY <1>1, <1>2, <2>2, Returns, Ends
  <2> QED BY <2>1, <2>2
<1> QED BY <1>2, <1>3, SameAside, Quiet

LEMMA LoadStep ==
    ASSUME IInv, NEW r \in Runs, Load(r) PROVE IInv'
<1>0. /\ run[r].pc = "load" /\ run[r].pc \in ConsumerPCs
      /\ {"process", "correlate"} \subseteq ConsumerPCs \ {"create"}
      /\ UNCHANGED <<document_sequences, documents, requeues, audits>>
  BY DEF Load, At, ConsumerPCs
<1>1. Row(r) \in WompiRow
  BY <1>0, Working
<1>2. CASE Row(r).document
  <2>1. PICK row : row = markWompiDocumentCreated(Row(r))
    OBVIOUS
  <2>2. row \in WompiRow /\ row.number = Row(r).number /\ row.document = Row(r).document
    BY <1>1, <1>2, <2>1 DEF markWompiDocumentCreated, WompiRow
  <2>3. Write(r, row, FALSE) /\ Goto(r, "process") /\ UNCHANGED messages
    BY <1>2, <2>1 DEF Load
  <2> QED BY <1>0, <2>2, <2>3, ConsumerStep
<1>3. CASE ~Row(r).document /\ Row(r).processed
  <2>1. Return(r) /\ Ack(r) /\ UNCHANGED <<wompi_events, observed>>
    BY <1>3 DEF Load
  <2> QED BY <1>0, <2>1, ConsumerStep
<1>4. CASE ~Row(r).document /\ ~Row(r).processed
  <2>1. Goto(r, "correlate") /\ UNCHANGED <<wompi_events, observed, messages>>
    BY <1>4 DEF Load
  <2> QED BY <1>0, <2>1, ConsumerStep
<1> QED BY <1>2, <1>3, <1>4

LEMMA CorrelateStep ==
    ASSUME IInv, NEW r \in Runs, Correlate(r) PROVE IInv'
<1>0. /\ run[r].pc \in ConsumerPCs
      /\ {"claim", "quarantine", "invalid_fail"} \subseteq ConsumerPCs \ {"create"}
      /\ UNCHANGED <<wompi_events, document_sequences, documents, requeues, audits, observed, messages>>
  BY DEF Correlate, At, ConsumerPCs, tableVars
<1>1. PICK pc \in {"claim", "quarantine", "invalid_fail"} : Goto(r, pc)
  BY DEF Correlate
<1> QED BY <1>0, <1>1, ConsumerStep

LEMMA QuarantineStep ==
    ASSUME IInv, NEW r \in Runs, Quarantine(r) PROVE IInv'
<1>0. /\ run[r].pc = "quarantine" /\ run[r].pc \in ConsumerPCs
      /\ "quarantine_fail" \in ConsumerPCs \ {"create"}
      /\ UNCHANGED <<document_sequences, documents, requeues, audits, messages>>
  BY DEF Quarantine, At, ConsumerPCs
<1>1. PICK row : row = markWompiEventProcessed(Row(r))
  OBVIOUS
<1>2. row \in WompiRow /\ row.number = Row(r).number /\ row.document = Row(r).document
  BY <1>0, <1>1, Working DEF markWompiEventProcessed, WompiRow
<1>3. Write(r, row, FALSE) /\ Goto(r, "quarantine_fail")
  BY <1>1 DEF Quarantine
<1> QED BY <1>0, <1>2, <1>3, ConsumerStep

LEMMA RecordFailureStep ==
    ASSUME IInv, NEW r \in Runs, RecordFailure(r) PROVE IInv'
<1>0. /\ run[r].pc \in ConsumerPCs /\ run[r].pc # "idle"
      /\ "invalid_processed" \in ConsumerPCs \ {"create"}
      /\ UNCHANGED <<document_sequences, documents, requeues, audits>>
  BY DEF RecordFailure, ConsumerPCs
<1>1. Row(r) \in WompiRow
  BY <1>0, Working
<1>2. \/ UNCHANGED <<wompi_events, observed>>
      \/ \E row \in WompiRow, touches \in BOOLEAN :
            /\ Write(r, row, touches)
            /\ row.number = Row(r).number /\ row.document = Row(r).document
  <2>1. PICK error \in {"OTHER", "RECEPTOR"} :
             \/ Write(r, recordWompiIssuanceFailure(Row(r), error), TRUE)
             \/ UNCHANGED <<wompi_events, observed>>
    BY DEF RecordFailure
  <2>2. PICK row : row = recordWompiIssuanceFailure(Row(r), error)
    OBVIOUS
  <2>3. row \in WompiRow /\ row.number = Row(r).number /\ row.document = Row(r).document
    BY <1>1, <2>2 DEF recordWompiIssuanceFailure, WompiRow, Errors
  <2> QED BY <2>1, <2>2, <2>3
<1>3. \/ Goto(r, "invalid_processed") /\ UNCHANGED messages
      \/ Return(r) /\ Ack(r)
  BY DEF RecordFailure
<1>4. \/ \E pc \in ConsumerPCs \ {"create"} : Goto(r, pc) /\ UNCHANGED messages
      \/ Return(r) /\ (Ack(r) \/ Redeliver(r))
  BY <1>0, <1>3
<1> QED BY <1>0, <1>2, <1>4, ConsumerStep

LEMMA InvalidProcessedStep ==
    ASSUME IInv, NEW r \in Runs, InvalidProcessed(r) PROVE IInv'
<1>0. /\ run[r].pc = "invalid_processed" /\ run[r].pc \in ConsumerPCs
      /\ UNCHANGED <<document_sequences, documents, requeues, audits>>
  BY DEF InvalidProcessed, At, ConsumerPCs
<1>1. PICK row : row = markWompiEventProcessed(Row(r))
  OBVIOUS
<1>2. row \in WompiRow /\ row.number = Row(r).number /\ row.document = Row(r).document
  BY <1>0, <1>1, Working DEF markWompiEventProcessed, WompiRow
<1>3. Write(r, row, FALSE) /\ Return(r) /\ Ack(r)
  BY <1>1 DEF InvalidProcessed
<1> QED BY <1>0, <1>2, <1>3, ConsumerStep

LEMMA ClaimStep ==
    ASSUME IInv, NEW r \in Runs, Claim(r) PROVE IInv'
<1>0. /\ run[r].pc = "claim" /\ run[r].pc \in ConsumerPCs /\ "reserve" \in ConsumerPCs \ {"create"}
      /\ UNCHANGED <<document_sequences, documents, requeues, audits>>
  BY DEF Claim, At, ConsumerPCs
<1>1. PICK row : row = claimWompiEventIssuance(Row(r), r)
  OBVIOUS
<1>2. row \in WompiRow /\ row.number = Row(r).number /\ row.document = Row(r).document
  BY <1>0, <1>1, Working DEF claimWompiEventIssuance, WompiRow, Runs
<1>3. \/ Write(r, row, FALSE) /\ Goto(r, "reserve") /\ UNCHANGED messages
      \/ Return(r) /\ Ack(r) /\ UNCHANGED <<wompi_events, observed>>
  BY <1>1 DEF Claim
<1>4. CASE Write(r, row, FALSE) /\ Goto(r, "reserve") /\ UNCHANGED messages
  BY <1>0, <1>2, <1>4, ConsumerStep
<1>5. CASE Return(r) /\ Ack(r) /\ UNCHANGED <<wompi_events, observed>>
  BY <1>0, <1>5, ConsumerStep
<1> QED BY <1>3, <1>4, <1>5

LEMMA ReleaseStep ==
    ASSUME IInv, NEW r \in Runs, Release(r) PROVE IInv'
<1>0. /\ run[r].pc \in ConsumerPCs /\ run[r].pc # "idle" /\ "catch" \in ConsumerPCs \ {"create"}
      /\ UNCHANGED <<document_sequences, documents, requeues, audits>>
  BY DEF Release, ConsumerPCs
<1>1. PICK row : row = releaseWompiEventIssuance(Row(r))
  OBVIOUS
<1>2. row \in WompiRow /\ row.number = Row(r).number /\ row.document = Row(r).document
  BY <1>0, <1>1, Working DEF releaseWompiEventIssuance, WompiRow
<1>3. Write(r, row, FALSE) \/ UNCHANGED <<wompi_events, observed>>
  BY <1>1 DEF Release
<1>4. \/ Goto(r, "catch") /\ UNCHANGED messages
      \/ Return(r) /\ Ack(r)
  BY DEF Release
<1>5. \/ UNCHANGED <<wompi_events, observed>>
      \/ \E new \in WompiRow, touches \in BOOLEAN :
            /\ Write(r, new, touches)
            /\ new.number = Row(r).number /\ new.document = Row(r).document
  BY <1>2, <1>3
<1>6. \/ \E pc \in ConsumerPCs \ {"create"} : Goto(r, pc) /\ UNCHANGED messages
      \/ Return(r) /\ (Ack(r) \/ Redeliver(r))
  BY <1>0, <1>4
<1> QED BY <1>0, <1>5, <1>6, ConsumerStep

LEMMA ProcessStep ==
    ASSUME IInv, NEW r \in Runs, Process(r) PROVE IInv'
<1>0. /\ run[r].pc \in ConsumerPCs /\ Return(r) /\ Ack(r)
      /\ UNCHANGED <<wompi_events, document_sequences, documents, requeues, audits, observed>>
  BY DEF Process, At, ConsumerPCs, tableVars
<1> QED BY <1>0, ConsumerStep

LEMMA ThrowStep ==
    ASSUME IInv, NEW r \in Runs, StatementThrows(r) PROVE IInv'
<1>0. /\ run[r].pc \in ConsumerPCs /\ {"catch", "release_throw"} \subseteq ConsumerPCs \ {"create"}
      /\ UNCHANGED <<wompi_events, document_sequences, documents, requeues, audits, observed, messages>>
  BY DEF StatementThrows, ConsumerPCs, tableVars
<1>1. Goto(r, "catch") \/ Goto(r, "release_throw")
  BY DEF StatementThrows
<1> QED BY <1>0, <1>1, ConsumerStep

LEMMA CatchStep ==
    ASSUME IInv, NEW r \in Runs, Catch(r) PROVE IInv'
<1>0. /\ run[r].pc = "catch" /\ run[r].pc \in ConsumerPCs /\ Return(r) /\ (Ack(r) \/ Redeliver(r))
      /\ UNCHANGED <<document_sequences, documents, requeues, audits>>
  BY DEF Catch, At, ConsumerPCs
<1>1. Row(r) \in WompiRow
  BY <1>0, Working
<1>2. \/ UNCHANGED <<wompi_events, observed>>
      \/ \E row \in WompiRow, touches \in BOOLEAN :
            /\ Write(r, row, touches)
            /\ row.number = Row(r).number /\ row.document = Row(r).document
  <2>1. PICK error \in {"OTHER", "RECEPTOR"} :
             \/ Write(r, recordWompiIssuanceFailure(Row(r), error), TRUE)
             \/ UNCHANGED <<wompi_events, observed>>
    BY DEF Catch
  <2>2. PICK row : row = recordWompiIssuanceFailure(Row(r), error)
    OBVIOUS
  <2>3. row \in WompiRow /\ row.number = Row(r).number /\ row.document = Row(r).document
    BY <1>1, <2>2 DEF recordWompiIssuanceFailure, WompiRow, Errors
  <2> QED BY <2>1, <2>2, <2>3
<1> QED BY <1>0, <1>2, ConsumerStep

\* The trigger gives the event its number, once.
LEMMA ReserveStep ==
    ASSUME IInv, NEW r \in Runs, Reserve(r) PROVE IInv'
<1>0. run[r].pc = "reserve" /\ Goto(r, "create") /\ UNCHANGED <<documents, messages, requeues, audits>>
  BY DEF Reserve, At
<1>1. PICK e \in Events : e = run[r].event /\ Row(r) = wompi_events[e] /\ Row(r) \in WompiRow
  BY <1>0, Working
<1>2. run[r] \in RunState /\ run[r].attempt \in Attempts
  BY <1>0, Working DEF ConsumerPCs
<1>3. PICK k : k = [run[r] EXCEPT !.pc = "create"]
  OBVIOUS
<1>4. k \in RunState /\ k.pc = "create" /\ k.event = e /\ k.attempt = run[r].attempt
  BY <1>1, <1>2, <1>3 DEF RunState, ConsumerPCs
<1>5. run' = [run EXCEPT ![r] = k]
  BY <1>0, <1>3 DEF Goto
<1>n. /\ document_sequences \in Nat \ {0}
      /\ \A f \in Events : wompi_events[f].number < document_sequences
      /\ \A f \in Events : wompi_events[f] \in WompiRow /\ wompi_events[f].number \in Nat
  BY Known DEF IInv, Numbers, WompiRow
<1>6. CASE wompi_events[e].number = 0
  <2>1. PICK row : row = [wompi_events[e] EXCEPT !.number = document_sequences]
    OBVIOUS
  <2>2. /\ row \in WompiRow /\ row.number = document_sequences
        /\ row.document = wompi_events[e].document
    BY <1>1, <1>n, <2>1 DEF WompiRow
  <2>3. Write(r, row, FALSE) /\ document_sequences' = document_sequences + 1
    BY <1>1, <1>6, <2>1 DEF Reserve, reserveWompiDocumentIdentifiersEnabled
  <2>4. observed' \subseteq Runs
    BY <2>3 DEF Write, IInv, Aside
  <2>5. Rows' /\ wompi_events'[e] = row /\ \A f \in Events \ {e} : wompi_events'[f] = wompi_events[f]
    BY <1>1, <2>2, <2>3, Known DEF Write, Rows
  <2>6. NumbersKept
    BY <1>6, <2>5 DEF NumbersKept
  <2>7. Handlers'
    <3>1. Sound(k)'
      BY <1>1, <1>2, <1>4, <1>n, <2>2, <2>5 DEF Sound
    <3> QED BY <1>4, <1>5, <2>6, <3>1, RunStep
  <2>8. Numbers'
    <3>1. document_sequences' \in Nat \ {0}
      BY <1>n, <2>3
    <3>2. ASSUME NEW f \in Events PROVE wompi_events'[f].number < document_sequences'
      BY <1>n, <2>2, <2>3, <2>5
    <3>3. ASSUME NEW f \in Events, NEW g \in Events, wompi_events'[f].number # 0,
                 wompi_events'[f].number = wompi_events'[g].number
          PROVE  f = g
      <4>1. CASE f = e /\ g # e
        <5>1. wompi_events[g].number = document_sequences /\ wompi_events[g].number < document_sequences
          BY <1>n, <2>2, <2>5, <3>3, <4>1
        <5> QED BY <1>n, <5>1
      <4>2. CASE f # e /\ g = e
        <5>1. wompi_events[f].number = document_sequences /\ wompi_events[f].number < document_sequences
          BY <1>n, <2>2, <2>5, <3>3, <4>2
        <5> QED BY <1>n, <5>1
      <4>3. CASE f # e /\ g # e
        BY <2>5, <3>3, <4>3 DEF IInv, Numbers
      <4> QED BY <4>1, <4>2, <4>3
    <3>4. ASSUME NEW n \in 1..(document_sequences' - 1) PROVE \E f \in Events : wompi_events'[f].number = n
      <4>1. CASE n = document_sequences
        BY <2>2, <2>5, <4>1
      <4>2. CASE n # document_sequences
        <5>1. n \in 1..(document_sequences - 1)
          BY <1>n, <2>3, <4>2
        <5>2. PICK f \in Events : wompi_events[f].number = n
          BY <5>1 DEF IInv, Numbers
        <5>3. f # e
          BY <1>6, <5>1, <5>2
        <5> QED BY <2>5, <5>2, <5>3
      <4> QED BY <4>1, <4>2
    <3> QED BY <3>1, <3>2, <3>3, <3>4 DEF Numbers
  <2>9. Carried'
    <3>1. ASSUME NEW i \in DOMAIN documents
          PROVE  documents[i].number = wompi_events'[documents[i].event].number
      <4>1. documents \in Seq([event : Events, number : Nat])
        BY DEF IInv, Carried
      <4>2. i \in 1..Len(documents)
        BY <4>1, LenProperties
      <4>3. documents[i] \in [event : Events, number : Nat]
        BY <4>1, <4>2, ElementOfSeq
      <4>4. documents[i].event \in Events
        BY <4>3
      <4>5. documents[i].number = wompi_events[documents[i].event].number /\ documents[i].number # 0
        BY DEF IInv, Carried
      <4> QED BY <1>6, <2>5, <4>4, <4>5
    <3> QED BY <1>0, <3>1 DEF IInv, Carried
  <2>10. OneCdePerPayment'
    <3>1. \A f \in Events : wompi_events'[f].document = wompi_events[f].document
      BY <2>2, <2>5
    <3> QED BY <1>0, <3>1 DEF IInv, OneCdePerPayment
  <2> QED BY <1>0, <2>4, <2>5, <2>7, <2>8, <2>9, <2>10, SameQueue, SameAside DEF IInv
<1>7. CASE wompi_events[e].number # 0
  <2>1. UNCHANGED <<wompi_events, observed, document_sequences>>
    BY <1>1, <1>7 DEF Reserve, reserveWompiDocumentIdentifiersEnabled
  <2>2. Rows' /\ Steady /\ NumbersKept
    BY <1>0, <2>1, SameRows
  <2>3. Sound(k)'
    BY <1>1, <1>2, <1>4, <1>7, <2>1 DEF Sound
  <2>4. Handlers'
    BY <1>4, <1>5, <2>2, <2>3, RunStep
  <2> QED BY <1>0, <2>1, <2>2, <2>4, SameQueue, SameAside, Quiet DEF IInv, Aside
<1> QED BY <1>6, <1>7

\* The document and the event's flag are one batch.
LEMMA CreateStep ==
    ASSUME IInv, NEW r \in Runs, Create(r) PROVE IInv'
<1>0. /\ run[r].pc = "create" /\ run[r].pc \in ConsumerPCs
      /\ {"process", "release_return"} \subseteq ConsumerPCs \ {"create"}
      /\ UNCHANGED <<document_sequences, messages, requeues, audits>>
  BY DEF Create, At, ConsumerPCs
<1>1. PICK e \in Events : e = run[r].event /\ Row(r) = wompi_events[e] /\ Row(r) \in WompiRow
  BY <1>0, Working
<1>2. wompi_events[e].number # 0 /\ run[r].attempt \in Attempts
  BY <1>0, <1>1, Known DEF Sound
<1>3. CASE ~createClaimedWompiDteDocumentEnabled(Row(r), r)
  <2>1. Goto(r, "release_return") /\ UNCHANGED <<wompi_events, observed, documents>>
    BY <1>3 DEF Create
  <2> QED BY <1>0, <2>1, ConsumerStep
<1>4. CASE createClaimedWompiDteDocumentEnabled(Row(r), r)
  <2>1. PICK row : row = createClaimedWompiDteDocument(wompi_events[e])
    OBVIOUS
  <2>2. /\ row \in WompiRow /\ row.number = wompi_events[e].number /\ row.document
    BY <1>1, <2>1 DEF createClaimedWompiDteDocument, WompiRow
  <2>3. PICK cde : cde = [event |-> e, number |-> wompi_events[e].number]
    OBVIOUS
  <2>4. /\ Write(r, row, FALSE) /\ Goto(r, "process")
        /\ documents' = Append(documents, cde)
    BY <1>1, <1>4, <2>1, <2>3 DEF Create
  <2>5. observed' \subseteq Runs
    BY <2>4 DEF Write, IInv, Aside
  <2>6. Rows' /\ wompi_events'[e] = row /\ \A f \in Events \ {e} : wompi_events'[f] = wompi_events[f]
    BY <1>1, <2>2, <2>4, Known DEF Write, Rows
  <2>7. \A f \in Events : wompi_events'[f].number = wompi_events[f].number
    BY <2>2, <2>6
  <2>8. NumbersKept
    BY <2>7 DEF NumbersKept
  <2>9. Handlers'
    BY <1>0, <1>2, <2>4, <2>8, Goes
  <2>10. Numbers'
    BY <1>0, <2>7 DEF IInv, Numbers
  <2>c. cde \in [event : Events, number : Nat] /\ cde.event = e /\ cde.number = wompi_events[e].number
    BY <1>1, <2>3 DEF WompiRow
  <2>d. documents \in Seq([event : Events, number : Nat])
    BY DEF IInv, Carried
  <2>11. /\ documents' \in Seq([event : Events, number : Nat])
         /\ DOMAIN documents = 1..Len(documents) /\ Len(documents) \in Nat
         /\ DOMAIN documents' = 1..(Len(documents) + 1)
         /\ documents'[Len(documents) + 1] = cde
         /\ \A i \in DOMAIN documents : documents'[i] = documents[i]
    BY <2>4, <2>c, <2>d, AppendProperties, LenProperties
  <2>12. ASSUME NEW i \in DOMAIN documents PROVE documents[i].event \in Events
    <3>1. documents[i] \in [event : Events, number : Nat]
      BY <2>11, <2>d, ElementOfSeq
    <3> QED BY <3>1
  <2>13. ~wompi_events[e].document
    BY <1>1, <1>4 DEF createClaimedWompiDteDocumentEnabled
  <2>14. \A i \in DOMAIN documents : documents[i].event # e
    BY <2>13 DEF IInv, OneCdePerPayment
  <2>15. Carried'
    <3>1. ASSUME NEW i \in DOMAIN documents'
          PROVE  documents'[i].number = wompi_events'[documents'[i].event].number /\ documents'[i].number # 0
      <4>1. CASE i = Len(documents) + 1
        BY <1>2, <2>2, <2>6, <2>11, <2>c, <4>1
      <4>2. CASE i \in DOMAIN documents
        BY <2>7, <2>11, <2>12, <4>2 DEF IInv, Carried
      <4>3. i = Len(documents) + 1 \/ i \in DOMAIN documents
        BY <2>11
      <4> QED BY <4>1, <4>2, <4>3
    <3> QED BY <2>11, <3>1 DEF Carried
  <2>16. OneCdePerPayment'
    <3>1. \A i \in DOMAIN documents' : i = Len(documents) + 1 \/ i \in DOMAIN documents
      BY <2>11
    <3>2. Len(documents) + 1 \in DOMAIN documents' /\ \A i \in DOMAIN documents : i \in DOMAIN documents'
      BY <2>11
    <3>3. ASSUME NEW i \in DOMAIN documents', NEW j \in DOMAIN documents',
                 documents'[i].event = documents'[j].event
          PROVE  i = j
      BY <2>11, <2>14, <2>c, <3>1, <3>3 DEF IInv, OneCdePerPayment
    <3>4. ASSUME NEW f \in Events
          PROVE  wompi_events'[f].document <=> \E i \in DOMAIN documents' : documents'[i].event = f
      <4>1. CASE f = e
        BY <2>2, <2>6, <2>11, <2>c, <3>2, <4>1
      <4>2. CASE f # e
        <5>1. wompi_events[f].document <=> \E i \in DOMAIN documents : documents[i].event = f
          BY DEF IInv, OneCdePerPayment
        <5>2. (\E i \in DOMAIN documents : documents[i].event = f)
                 <=> \E i \in DOMAIN documents' : documents'[i].event = f
          BY <2>11, <2>c, <3>1, <3>2, <4>2
        <5> QED BY <2>6, <4>2, <5>1, <5>2
      <4> QED BY <4>1, <4>2
    <3> QED BY <3>3, <3>4 DEF OneCdePerPayment
  <2> QED BY <1>0, <2>5, <2>6, <2>9, <2>10, <2>15, <2>16, SameQueue, SameAside DEF IInv
<1> QED BY <1>3, <1>4

-----------------------------------------------------------------------------
(* The dead letters, the sweep and the operator's retry.                   *)

LEMMA DeadMarkStep ==
    ASSUME IInv, NEW r \in Runs, DeadMark(r) PROVE IInv'
<1>0. /\ run[r].pc = "dead_mark" /\ run[r].pc # "idle" /\ run[r].pc \in DeadPCs
      /\ "dead_audit" \in DeadPCs /\ "dead_audit" # "create"
      /\ UNCHANGED <<document_sequences, documents, requeues, audits>>
  BY DEF DeadMark, At, DeadPCs
<1>1. PICK e \in Events : e = run[r].event /\ Row(r) = wompi_events[e] /\ Row(r) \in WompiRow
  BY <1>0, Working
<1>2. run[r].attempt \in Attempts
  BY <1>0, Working
<1>3. CASE markWompiIssuanceDeadLetteredEnabled(Row(r), run[r].attempt)
  <2>1. PICK row : row = markWompiIssuanceDeadLettered(Row(r))
    OBVIOUS
  <2>2. row \in WompiRow /\ row.number = wompi_events[e].number /\ row.document = wompi_events[e].document
    <3>1. CASE wompi_events[e].error = "NONE"
      BY <1>1, <2>1, <3>1 DEF markWompiIssuanceDeadLettered, WompiRow, Errors
    <3>2. CASE wompi_events[e].error # "NONE"
      BY <1>1, <2>1, <3>2 DEF markWompiIssuanceDeadLettered, WompiRow
    <3> QED BY <3>1, <3>2
  <2>3. Write(r, row, FALSE) /\ Goto(r, "dead_audit") /\ UNCHANGED messages
    BY <1>3, <2>1 DEF DeadMark
  <2>4. Rows' /\ Steady /\ NumbersKept /\ observed' \subseteq Runs
    BY <1>0, <1>1, <2>2, <2>3, Writes
  <2>5. Handlers'
    BY <1>0, <1>2, <2>3, <2>4, Goes
  <2> QED BY <1>0, <2>3, <2>4, <2>5, SameQueue, SameAside, Quiet
<1>4. CASE ~markWompiIssuanceDeadLetteredEnabled(Row(r), run[r].attempt)
  <2>1. Return(r) /\ Ack(r) /\ UNCHANGED <<wompi_events, observed>>
    BY <1>4 DEF DeadMark
  <2>2. Rows' /\ Steady /\ NumbersKept
    BY <1>0, <2>1, SameRows
  <2>3. Handlers' /\ Queue'
    BY <1>2, <2>1, <2>2, Returns, Ends
  <2> QED BY <1>0, <2>1, <2>2, <2>3, SameAside, Quiet DEF IInv, Aside
<1> QED BY <1>3, <1>4

LEMMA DeadAuditStep ==
    ASSUME IInv, NEW r \in Runs, DeadAudit(r) PROVE IInv'
<1>0. /\ run[r].pc # "idle" /\ run[r].pc \in DeadPCs /\ Return(r) /\ Ack(r)
      /\ UNCHANGED <<wompi_events, document_sequences, documents, requeues, observed>>
  BY DEF DeadAudit, At, DeadPCs
<1>1. run[r].event \in Events /\ run[r].attempt \in Attempts
  BY <1>0, Working
<1>2. Rows' /\ Steady /\ NumbersKept
  BY <1>0, SameRows
<1>3. Handlers' /\ Queue'
  BY <1>0, <1>1, <1>2, Returns, Ends
<1>4. Aside'
  <2>1. audits' \subseteq audits \cup {<<"ISSUANCE_DEAD_LETTERED", run[r].event>>}
    BY DEF DeadAudit
  <2> QED BY <1>0, <1>1, <2>1 DEF IInv, Aside
<1> QED BY <1>2, <1>3, <1>4, Quiet

LEMMA StartSweepStep ==
    ASSUME IInv, NEW r \in Runs, NEW e \in Events, StartSweep(r, e) PROVE IInv'
<1>0. UNCHANGED <<wompi_events, document_sequences, documents, requeues, audits, observed, messages>>
  BY DEF StartSweep, tableVars
<1>1. PICK attempt \in Attempts \cup {NULL} : attempt = wompi_events[e].attempt
  BY Known DEF WompiRow
<1>2. Begin(r, e, "sweep_count", attempt)
  BY <1>1 DEF StartSweep
<1>3. Rows' /\ Steady /\ NumbersKept
  BY <1>0, SameRows
<1>4. Handlers'
  BY <1>2, <1>3, Begins DEF ConsumerPCs, DeadPCs, OtherPCs
<1> QED BY <1>0, <1>3, <1>4, SameQueue, SameAside, Quiet DEF IInv, Aside

LEMMA SweepCountStep ==
    ASSUME IInv, NEW r \in Runs, SweepCount(r) PROVE IInv'
<1>0. /\ run[r].pc # "idle"
      /\ "sweep_claim" \in OtherPCs /\ "sweep_claim" \notin ConsumerPCs \cup DeadPCs \cup {"send", "create"}
      /\ UNCHANGED <<wompi_events, document_sequences, documents, messages, requeues, observed>>
  BY DEF SweepCount, At, OtherPCs, ConsumerPCs, DeadPCs
<1>1. run[r].event \in Events
  BY <1>0, Working
<1>2. Rows' /\ Steady /\ NumbersKept
  BY <1>0, SameRows
<1>3. Handlers'
  <2>1. CASE Return(r)
    BY <1>2, <2>1, Returns
  <2>2. CASE Goto(r, "sweep_claim")
    BY <1>0, <1>2, <2>2, Goes
  <2> QED BY <2>1, <2>2 DEF SweepCount
<1>4. Aside'
  <2>1. audits' \subseteq audits \cup {<<"WOMPI_EVENT_STALLED", run[r].event>>}
    BY DEF SweepCount
  <2> QED BY <1>0, <1>1, <2>1 DEF IInv, Aside
<1> QED BY <1>0, <1>2, <1>3, <1>4, SameQueue, Quiet

LEMMA SweepClaimStep ==
    ASSUME IInv, NEW r \in Runs, SweepClaim(r) PROVE IInv'
<1>0. run[r].pc = "sweep_claim" /\ UNCHANGED <<document_sequences, documents, messages, requeues>>
  BY DEF SweepClaim, At
<1>1. PICK e \in Events : e = run[r].event /\ Row(r) = wompi_events[e] /\ Row(r) \in WompiRow
  BY <1>0, Working
<1>2. CASE claimStalledWompiIssuanceAttemptEnabled(Row(r), run[r].attempt)
  <2>1. PICK a \in Attempts : NewAttempt(r, QueueAttempt(Row(r), a), a, "sweep_audit")
    BY <1>2 DEF SweepClaim
  <2>2. PICK row : row = QueueAttempt(Row(r), a)
    OBVIOUS
  <2>3. row \in WompiRow /\ row.number = wompi_events[e].number /\ row.document = wompi_events[e].document
    BY <1>1, <2>2 DEF QueueAttempt, WompiRow
  <2>4. Rows' /\ Steady /\ Handlers' /\ observed' \subseteq Runs /\ audits' \subseteq audits
    BY <1>0, <1>1, <2>1, <2>2, <2>3, GetsAttempt
  <2>5. Aside'
    BY <1>0, <2>4 DEF IInv, Aside
  <2> QED BY <1>0, <2>4, <2>5, SameQueue, Quiet
<1>3. CASE ~claimStalledWompiIssuanceAttemptEnabled(Row(r), run[r].attempt)
  <2>1. Return(r) /\ UNCHANGED <<wompi_events, observed, audits>>
    BY <1>3 DEF SweepClaim
  <2>2. Rows' /\ Steady /\ NumbersKept
    BY <1>0, <2>1, SameRows
  <2> QED BY <1>0, <2>1, <2>2, Returns, SameQueue, SameAside, Quiet DEF IInv, Aside
<1> QED BY <1>2, <1>3

LEMMA SweepAuditStep ==
    ASSUME IInv, NEW r \in Runs, SweepAudit(r) PROVE IInv'
<1>0. /\ run[r].pc # "idle" /\ Return(r)
      /\ UNCHANGED <<wompi_events, document_sequences, documents, messages, audits, observed>>
  BY DEF SweepAudit, At
<1>1. PICK e \in Events : e = run[r].event
  BY <1>0, Working
<1>2. Rows' /\ Steady /\ NumbersKept
  BY <1>0, SameRows
<1>3. Aside'
  <2>1. requeues \in [Events -> Nat]
    BY DEF IInv, Aside
  <2>2. requeues' = [requeues EXCEPT ![e] = requeues[e] + 1] \/ requeues' = requeues
    BY <1>1 DEF SweepAudit
  <2>3. requeues' \in [Events -> Nat]
    BY <2>1, <2>2
  <2> QED BY <1>0, <2>3 DEF IInv, Aside
<1> QED BY <1>0, <1>2, <1>3, Returns, SameQueue, Quiet

LEMMA StartRetryStep ==
    ASSUME IInv, NEW r \in Runs, NEW e \in Events, StartRetry(r, e) PROVE IInv'
<1>0. /\ UNCHANGED <<wompi_events, document_sequences, documents, requeues, audits, messages>>
      /\ Begin(r, e, "retry_claim", NULL) /\ observed' = observed \cup {r}
  BY DEF StartRetry
<1>1. Rows' /\ Steady /\ NumbersKept
  BY <1>0, SameRows
<1>2. Handlers'
  BY <1>0, <1>1, Begins DEF ConsumerPCs, DeadPCs, OtherPCs
<1>3. Aside'
  BY <1>0, SameAside DEF IInv, Aside
<1> QED BY <1>0, <1>1, <1>2, <1>3, SameQueue, Quiet

LEMMA RetryClaimStep ==
    ASSUME IInv, NEW r \in Runs, RetryClaim(r) PROVE IInv'
<1>0. run[r].pc = "retry_claim" /\ UNCHANGED <<document_sequences, documents, messages>>
  BY DEF RetryClaim, At
<1>1. PICK e \in Events : e = run[r].event /\ Row(r) = wompi_events[e] /\ Row(r) \in WompiRow
  BY <1>0, Working
<1>2. CASE r \in observed /\ claimWompiIssuanceRetryEnabled(Row(r))
  <2>1. PICK a \in Attempts : NewAttempt(r, claimWompiIssuanceRetry(Row(r), a), a, "idle")
    BY <1>2 DEF RetryClaim
  <2>2. PICK row : row = claimWompiIssuanceRetry(Row(r), a)
    OBVIOUS
  <2>3. row \in WompiRow /\ row.number = wompi_events[e].number /\ row.document = wompi_events[e].document
    BY <1>1, <2>2 DEF claimWompiIssuanceRetry, QueueAttempt, WompiRow
  <2>4. Rows' /\ Steady /\ Handlers' /\ observed' \subseteq Runs /\ audits' \subseteq audits
    BY <1>0, <1>1, <2>1, <2>2, <2>3, GetsAttempt
  <2>5. requeues' = [requeues EXCEPT ![e] = 0]
    BY <1>1, <1>2 DEF RetryClaim
  <2>6. Aside'
    BY <2>4, <2>5 DEF IInv, Aside
  <2> QED BY <1>0, <2>4, <2>6, SameQueue, Quiet
<1>3. CASE ~(r \in observed /\ claimWompiIssuanceRetryEnabled(Row(r)))
  <2>1. Return(r) /\ observed' = observed \ {r} /\ UNCHANGED <<wompi_events, requeues, audits>>
    BY <1>3 DEF RetryClaim
  <2>2. Rows' /\ Steady /\ NumbersKept
    BY <1>0, <2>1, SameRows
  <2>3. Aside'
    BY <2>1, SameAside DEF IInv, Aside
  <2> QED BY <1>0, <2>1, <2>2, <2>3, Returns, SameQueue, Quiet
<1> QED BY <1>2, <1>3

-----------------------------------------------------------------------------
(* The environment.                                                        *)

\* Time makes a row or a claim stale.
LEMMA TimeRow ==
    ASSUME IInv, NEW e \in Events, HourPasses(e) \/ ClaimExpires(e)
    PROVE  \E row \in WompiRow :
              /\ wompi_events' = [wompi_events EXCEPT ![e] = row]
              /\ row.number = wompi_events[e].number /\ row.document = wompi_events[e].document
              /\ row.processed = wompi_events[e].processed
<1>0. wompi_events[e] \in WompiRow
  BY Known
<1>1. CASE HourPasses(e)
  <2>1. PICK row : row = [wompi_events[e] EXCEPT !.stalled = TRUE]
    OBVIOUS
  <2>2. /\ row \in WompiRow /\ row.number = wompi_events[e].number
        /\ row.document = wompi_events[e].document /\ row.processed = wompi_events[e].processed
    BY <1>0, <2>1 DEF WompiRow
  <2>3. wompi_events' = [wompi_events EXCEPT ![e] = row]
    BY <1>1, <2>1 DEF HourPasses
  <2> QED BY <2>2, <2>3
<1>2. CASE ClaimExpires(e)
  <2>1. PICK row : row = [wompi_events[e] EXCEPT !.claim_stale = TRUE]
    OBVIOUS
  <2>2. /\ row \in WompiRow /\ row.number = wompi_events[e].number
        /\ row.document = wompi_events[e].document /\ row.processed = wompi_events[e].processed
    BY <1>0, <2>1 DEF WompiRow
  <2>3. wompi_events' = [wompi_events EXCEPT ![e] = row]
    BY <1>2, <2>1 DEF ClaimExpires
  <2> QED BY <2>2, <2>3
<1> QED BY <1>1, <1>2

LEMMA TimeStep ==
    ASSUME IInv, NEW e \in Events, HourPasses(e) \/ ClaimExpires(e) PROVE IInv'
<1>0. UNCHANGED <<document_sequences, documents, messages, requeues, audits, observed, run>>
  BY DEF HourPasses, ClaimExpires
<1>1. PICK row \in WompiRow :
         /\ wompi_events' = [wompi_events EXCEPT ![e] = row]
         /\ row.number = wompi_events[e].number /\ row.document = wompi_events[e].document
  BY TimeRow
<1>2. Rows' /\ wompi_events'[e] = row /\ \A f \in Events \ {e} : wompi_events'[f] = wompi_events[f]
  BY <1>1, Known DEF Rows
<1>3. Steady /\ NumbersKept
  BY <1>0, <1>1, <1>2 DEF Steady, NumbersKept
<1> QED BY <1>0, <1>2, <1>3, SameHandlers, SameQueue, SameAside, Quiet DEF IInv, Aside

LEMMA CrashStep ==
    ASSUME IInv, NEW r \in Runs, Crash(r) PROVE IInv'
<1>0. /\ run[r].pc # "idle" /\ Return(r) /\ observed' = observed \ {r}
      /\ UNCHANGED <<wompi_events, document_sequences, documents, requeues, audits>>
  BY DEF Crash, At
<1>1. Rows' /\ Steady /\ NumbersKept
  BY <1>0, SameRows
<1>2. Queue'
  <2>1. CASE run[r].pc \in ConsumerPCs
    <3>1. run[r].attempt \in Attempts
      BY <1>0, <2>1, Working
    <3> QED BY <2>1, <3>1, Ends DEF Crash
  <2>2. CASE run[r].pc \notin ConsumerPCs
    BY <2>2, SameQueue DEF Crash
  <2> QED BY <2>1, <2>2
<1>3. Aside'
  BY <1>0, SameAside DEF IInv, Aside
<1> QED BY <1>0, <1>1, <1>2, <1>3, Returns, Quiet

LEMMA StutterStep == IInv /\ UNCHANGED vars => IInv'
  BY DEF vars, IInv, Rows, Numbers, Carried, OneCdePerPayment, Queue, Handlers, Sound, Aside

LEMMA Preserved == IInv /\ [Next]_vars => IInv'
<1> SUFFICES ASSUME IInv, [Next]_vars PROVE IInv'
  OBVIOUS
<1>1. ASSUME NEW r \in Runs, Consume(r) PROVE IInv'
  BY <1>1, MarkProcessingStep, LoadStep, CorrelateStep, QuarantineStep, RecordFailureStep,
     InvalidProcessedStep, ClaimStep, ReserveStep, CreateStep, ReleaseStep, ProcessStep,
     CatchStep, DeadMarkStep, DeadAuditStep DEF Consume
<1>2. ASSUME NEW r \in Runs, Step(r) PROVE IInv'
  BY <1>1, <1>2, IngestClaimStep, SendStep, SweepCountStep, SweepClaimStep, SweepAuditStep,
     RetryClaimStep DEF Step
<1>3. ASSUME NEW r \in Runs, NEW e \in Events, Ingest(r, e) \/ StartSweep(r, e) \/ StartRetry(r, e)
      PROVE  IInv'
  BY <1>3, IngestStep, StartSweepStep, StartRetryStep
<1>4. ASSUME CalmNext PROVE IInv'
  BY <1>2, <1>3, <1>4, DeliverStep, TimeStep DEF CalmNext
<1>5. ASSUME NEW r \in Runs, StatementThrows(r) \/ Crash(r) PROVE IInv'
  BY <1>5, ThrowStep, CrashStep
<1> QED BY <1>4, <1>5, StutterStep DEF Next

-----------------------------------------------------------------------------
(* The theorems.                                                           *)

\* The inductive invariant holds in every state.
THEOREM InvariantHolds == Spec => []IInv
  BY InitInv, Preserved, PTL DEF Spec

\* Every value of the tables, the queue and the handlers has its type.
THEOREM TypeCorrect == Spec => []TypeOK
<1>1. IInv => TypeOK
  BY DEF IInv, Rows, Numbers, Carried, Queue, Handlers, Aside, TypeOK
<1> QED BY <1>1, InvariantHolds, PTL

\* A payment makes one CDE at most, and its event knows of it.
THEOREM OneCde == Spec => []OneCdePerPayment
<1>1. IInv => OneCdePerPayment
  BY DEF IInv
<1> QED BY <1>1, InvariantHolds, PTL

\* Every control number that was given out belongs to exactly one payment, and
\* the payment's CDE carries it.
THEOREM NoGap == Spec => []ControlNumbersHaveNoGap
<1>1. IInv => ControlNumbersHaveNoGap
  <2> SUFFICES ASSUME IInv PROVE ControlNumbersHaveNoGap
    OBVIOUS
  <2>1. ASSUME NEW n \in 1..(document_sequences - 1)
        PROVE  \E e \in Events : {f \in Events : wompi_events[f].number = n} = {e}
    <3>1. PICK e \in Events : wompi_events[e].number = n
      BY DEF IInv, Numbers
    <3>2. n # 0
      BY DEF IInv, Numbers
    <3>3. \A f \in Events : wompi_events[f].number = n => e = f
      BY <3>1, <3>2 DEF IInv, Numbers
    <3> QED BY <3>1, <3>3
  <2> QED BY <2>1 DEF IInv, Carried, ControlNumbersHaveNoGap
<1> QED BY <1>1, InvariantHolds, PTL

-----------------------------------------------------------------------------
(* A parked event stays parked.                                            *)

Parked(row) == row.processed /\ ~row.document

ParkedKept ==
    \A e \in Events :
       /\ wompi_events[e].processed
       /\ ~wompi_events[e].document
       => /\ ~wompi_events'[e].document
          /\ ~wompi_events'[e].processed => requeues'[e] = 0

LEMMA ParkedUntouched == ASSUME UNCHANGED wompi_events PROVE ParkedKept
  BY DEF ParkedKept

\* One row changes, and is still parked if it was.
LEMMA ParkedRow ==
    ASSUME IInv, NEW e \in Events, NEW row, wompi_events' = [wompi_events EXCEPT ![e] = row],
           Parked(wompi_events[e]) => Parked(row)
    PROVE  ParkedKept
<1>1. wompi_events'[e] = row /\ \A f \in Events \ {e} : wompi_events'[f] = wompi_events[f]
  BY Known
<1> QED BY <1>1 DEF ParkedKept, Parked

\* Such a change by a run that is at work.
Keeps(r) == \E row, touches : Write(r, row, touches) /\ (Parked(Row(r)) => Parked(row))

LEMMA ParkedWrite ==
    ASSUME IInv, NEW r \in Runs, run[r].pc # "idle", Keeps(r)
    PROVE  ParkedKept
<1>1. PICK e \in Events : e = run[r].event /\ Row(r) = wompi_events[e]
  BY Working
<1>2. PICK row, touches : Write(r, row, touches) /\ (Parked(Row(r)) => Parked(row))
  BY DEF Keeps
<1>3. wompi_events' = [wompi_events EXCEPT ![e] = row]
  BY <1>1, <1>2 DEF Write
<1> QED BY <1>1, <1>2, <1>3, ParkedRow

LEMMA ParkedConsume ==
    ASSUME IInv, NEW r \in Runs, Consume(r) PROVE ParkedKept
<1>0. run[r].pc # "idle"
  BY DEF Consume, MarkProcessing, Load, Correlate, Quarantine, RecordFailure, InvalidProcessed,
         Claim, Reserve, Create, Release, Process, Catch, DeadMark, DeadAudit, At
<1>1. Row(r) \in WompiRow
  BY <1>0, Working
<1>2. SUFFICES ASSUME wompi_events' # wompi_events PROVE Keeps(r)
  BY <1>0, ParkedUntouched, ParkedWrite
<1>3. CASE MarkProcessing(r)
  <2>1. Write(r, markWompiIssuanceProcessing(Row(r)), TRUE)
    BY <1>2, <1>3 DEF MarkProcessing
  <2>2. Parked(Row(r)) => Parked(markWompiIssuanceProcessing(Row(r)))
    BY <1>1 DEF Parked, markWompiIssuanceProcessing, WompiRow
  <2> QED BY <2>1, <2>2 DEF Keeps
<1>4. CASE Load(r)
  <2>1. Row(r).document /\ Write(r, markWompiDocumentCreated(Row(r)), FALSE)
    BY <1>1, <1>2, <1>4 DEF Load, WompiRow
  <2> QED BY <2>1 DEF Parked, Keeps
<1>5. CASE Quarantine(r) \/ InvalidProcessed(r)
  <2>1. Write(r, markWompiEventProcessed(Row(r)), FALSE)
    BY <1>5 DEF Quarantine, InvalidProcessed
  <2>2. Parked(Row(r)) => Parked(markWompiEventProcessed(Row(r)))
    BY <1>1 DEF Parked, markWompiEventProcessed, WompiRow
  <2> QED BY <2>1, <2>2 DEF Keeps
<1>6. CASE RecordFailure(r) \/ Catch(r)
  <2>1. PICK error : Write(r, recordWompiIssuanceFailure(Row(r), error), TRUE)
    BY <1>2, <1>6 DEF RecordFailure, Catch
  <2>2. Parked(Row(r)) => Parked(recordWompiIssuanceFailure(Row(r), error))
    BY <1>1 DEF Parked, recordWompiIssuanceFailure, WompiRow
  <2> QED BY <2>1, <2>2 DEF Keeps
<1>7. CASE Claim(r)
  <2>1. ~Row(r).processed /\ Write(r, claimWompiEventIssuance(Row(r), r), FALSE)
    BY <1>2, <1>7 DEF Claim, claimWompiEventIssuanceEnabled
  <2> QED BY <2>1 DEF Parked, Keeps
<1>8. CASE Reserve(r)
  <2>1. Write(r, [Row(r) EXCEPT !.number = document_sequences], FALSE)
    BY <1>2, <1>8 DEF Reserve
  <2>2. Parked(Row(r)) => Parked([Row(r) EXCEPT !.number = document_sequences])
    BY <1>1 DEF Parked, WompiRow
  <2> QED BY <2>1, <2>2 DEF Keeps
<1>9. CASE Create(r)
  <2>1. ~Row(r).processed /\ Write(r, createClaimedWompiDteDocument(Row(r)), FALSE)
    BY <1>2, <1>9 DEF Create, createClaimedWompiDteDocumentEnabled
  <2> QED BY <2>1 DEF Parked, Keeps
<1>10. CASE Release(r)
  <2>1. ~Row(r).processed /\ Write(r, releaseWompiEventIssuance(Row(r)), FALSE)
    BY <1>2, <1>10 DEF Release, releaseWompiEventIssuanceEnabled
  <2> QED BY <2>1 DEF Parked, Keeps
<1>11. CASE DeadMark(r)
  <2>1. Write(r, markWompiIssuanceDeadLettered(Row(r)), FALSE)
    BY <1>2, <1>11 DEF DeadMark
  <2>2. Parked(Row(r)) => Parked(markWompiIssuanceDeadLettered(Row(r)))
    BY <1>1 DEF Parked, markWompiIssuanceDeadLettered, WompiRow
  <2> QED BY <2>1, <2>2 DEF Keeps
<1>12. CASE Correlate(r) \/ Process(r) \/ DeadAudit(r)
  BY <1>2, <1>12 DEF Correlate, Process, DeadAudit, tableVars
<1> QED BY <1>3, <1>4, <1>5, <1>6, <1>7, <1>8, <1>9, <1>10, <1>11, <1>12 DEF Consume

\* Only the operator's retry takes the mark away, and it opens a new epoch.
LEMMA ParkedRetry ==
    ASSUME IInv, NEW r \in Runs, RetryClaim(r) PROVE ParkedKept
<1>0. run[r].pc # "idle"
  BY DEF RetryClaim, At
<1>1. PICK e \in Events : e = run[r].event /\ Row(r) = wompi_events[e] /\ Row(r) \in WompiRow
  BY <1>0, Working
<1>2. CASE r \in observed /\ claimWompiIssuanceRetryEnabled(Row(r))
  <2>1. PICK a \in Attempts : NewAttempt(r, claimWompiIssuanceRetry(Row(r), a), a, "idle")
    BY <1>2 DEF RetryClaim
  <2>2. PICK row : row = claimWompiIssuanceRetry(Row(r), a)
    OBVIOUS
  <2>3. row.document = wompi_events[e].document
    BY <1>1, <2>2 DEF claimWompiIssuanceRetry, QueueAttempt, WompiRow
  <2>4. wompi_events' = [wompi_events EXCEPT ![e] = row]
    BY <1>1, <2>1, <2>2 DEF NewAttempt, Write
  <2>5. wompi_events'[e] = row /\ \A f \in Events \ {e} : wompi_events'[f] = wompi_events[f]
    BY <2>4, Known
  <2>6. requeues'[e] = 0
    BY <1>1, <1>2 DEF RetryClaim, IInv, Aside
  <2> QED BY <2>3, <2>5, <2>6 DEF ParkedKept
<1>3. CASE ~(r \in observed /\ claimWompiIssuanceRetryEnabled(Row(r)))
  BY <1>3, ParkedUntouched DEF RetryClaim
<1> QED BY <1>2, <1>3

\* Another attempt is not another life.
LEMMA ParkedRequeue ==
    ASSUME IInv, NEW r \in Runs, IngestClaim(r) \/ SweepClaim(r) PROVE ParkedKept
<1>0. run[r].pc # "idle"
  BY DEF IngestClaim, SweepClaim, At
<1>1. Row(r) \in WompiRow
  BY <1>0, Working
<1>2. CASE UNCHANGED wompi_events
  BY <1>2, ParkedUntouched
<1>3. CASE \E a \in Attempts : Write(r, QueueAttempt(Row(r), a), TRUE)
  <2>1. PICK a \in Attempts : Write(r, QueueAttempt(Row(r), a), TRUE)
    BY <1>3
  <2>2. Parked(Row(r)) => Parked(QueueAttempt(Row(r), a))
    BY <1>1 DEF Parked, QueueAttempt, WompiRow
  <2>3. Keeps(r)
    BY <2>1, <2>2 DEF Keeps
  <2> QED BY <1>0, <2>3, ParkedWrite
<1> QED BY <1>2, <1>3 DEF IngestClaim, SweepClaim, NewAttempt

LEMMA ParkedStep == ASSUME IInv, Next PROVE ParkedKept
<1>1. ASSUME NEW r \in Runs, Step(r) PROVE ParkedKept
  <2>1. Send(r) \/ SweepCount(r) \/ SweepAudit(r) => UNCHANGED wompi_events
    BY DEF Send, SweepCount, SweepAudit, tableVars
  <2> QED BY <1>1, <2>1, ParkedConsume, ParkedRequeue, ParkedRetry, ParkedUntouched DEF Step
<1>2. ASSUME NEW r \in Runs, NEW e \in Events, Ingest(r, e) PROVE ParkedKept
  <2>1. wompi_events' = [wompi_events EXCEPT ![e] = insertWompiEvent(wompi_events[e])]
    BY <1>2 DEF Ingest
  <2>2. Parked(wompi_events[e]) => Parked(insertWompiEvent(wompi_events[e]))
    BY Known DEF Parked, insertWompiEvent, WompiRow
  <2> QED BY <2>1, <2>2, ParkedRow
<1>3. ASSUME NEW e \in Events, HourPasses(e) \/ ClaimExpires(e) PROVE ParkedKept
  <2>1. PICK row \in WompiRow : /\ wompi_events' = [wompi_events EXCEPT ![e] = row]
                                /\ row.document = wompi_events[e].document
                                /\ row.processed = wompi_events[e].processed
    BY <1>3, TimeRow
  <2>2. Parked(wompi_events[e]) => Parked(row)
    BY <2>1 DEF Parked
  <2> QED BY <2>1, <2>2, ParkedRow
<1>4. ASSUME NEW r \in Runs, NEW e \in Events, StartSweep(r, e) \/ StartRetry(r, e) PROVE ParkedKept
  BY <1>4, ParkedUntouched DEF StartSweep, StartRetry, tableVars
<1>5. ASSUME NEW r \in Runs, NEW a \in Attempts, Deliver(r, a) \/ DeadDeliver(r, a) PROVE ParkedKept
  BY <1>5, ParkedUntouched DEF Deliver, DeadDeliver, tableVars
<1>6. ASSUME NEW r \in Runs, StatementThrows(r) \/ Crash(r) PROVE ParkedKept
  BY <1>6, ParkedUntouched DEF StatementThrows, Crash, tableVars
<1> QED BY <1>1, <1>2, <1>3, <1>4, <1>5, <1>6 DEF Next, CalmNext

\* An event that is processed without a CDE gets none, and is taken up again by
\* an operator's retry alone.
THEOREM Parks == Spec => ParkedStaysParked
<1>1. IInv /\ [Next]_vars => [ParkedKept]_vars
  BY ParkedStep
<1> QED BY <1>1, InvariantHolds, PTL DEF Spec, ParkedStaysParked, ParkedKept

=============================================================================
