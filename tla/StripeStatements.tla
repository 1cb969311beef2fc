-------------------------- MODULE StripeStatements --------------------------
(***************************************************************************)
(* The annual statements of one Stripe donor and year: the rows of         *)
(* stripe_annual_statement_deliveries, numbered by their revision, and the *)
(* runs of sendStripeAnnualStatements (bulk, single, of several            *)
(* administrators) that snapshot, reserve, claim, check again, dispatch    *)
(* and finalize.                                                           *)
(*                                                                         *)
(* A snapshot stands for its hash: what the donor gave and how the         *)
(* organization presents itself.  Gifts and refunds only add up, the       *)
(* settings may change back, so a snapshot may return and get another row. *)
(* XEnabled is the WHERE clause of statement X.  A lease of five minutes   *)
(* may have run out at any moment.                                         *)
(***************************************************************************)
EXTENDS Naturals, FiniteSets, Sequences

CONSTANTS Runs,         \* runs that reach the donor, at a time
          LastFacts,    \* bound: states of the donor's gifts, in order
          Settings,     \* branding and sender settings
          MaxRevisions, \* bound: rows of the donor and year
          None

Facts == 1..LastFacts

Snapshots == Facts \X Settings

\* The bounds are numbers, there is a first fact and None is not a name.
ASSUME FactsAreBounded == /\ LastFacts \in Nat \ {0} /\ MaxRevisions \in Nat
                          /\ None \notin Runs \cup Snapshots

Status == {"PENDING", "PROCESSING", "SENT", "FAILED", "REVIEW"}

\* supersedes: the revision that the row corrects, or 0.
StatementRow == [snapshot   : Snapshots,
                 supersedes : Nat,
                 status     : Status,
                 claim      : Runs \cup {None},
                 dispatched : BOOLEAN,
                 retry_safe : BOOLEAN]

\* snapshot: what the run has read; row: the revision it works on.
Run == [pc       : {"idle", "reserve", "read", "claim", "recheck", "dispatch", "send", "finalize"},
        snapshot : Snapshots \cup {None},
        row      : Nat,
        end      : {"NONE", "SENT", "RETRY", "FAILED", "REVIEW"}]

Idle == [pc |-> "idle", snapshot |-> None, row |-> 0, end |-> "NONE"]

VARIABLES
    current,     \* what a snapshot taken now would hold
    deliveries,  \* the table: a sequence of StatementRow
    run,         \* Runs -> Run
    mailbox      \* the revisions the provider took, in order (external)

annualVars == <<current, deliveries, run, mailbox>>

AnnualInit ==
    /\ current \in {1} \X Settings
    /\ deliveries = <<>>
    /\ run = [r \in Runs |-> Idle]
    /\ mailbox = <<>>

-----------------------------------------------------------------------------
(* The statements.                                                         *)

Open(row) == row.status \in {"PENDING", "PROCESSING", "REVIEW"}

SentRows(rows) == {i \in DOMAIN rows : rows[i].status = "SENT"}

\* The highest revision among S, 0 if there is none.
Latest(S) == CHOOSE n \in S \cup {0} : \A m \in S : m <= n

Drop(row) == [row EXCEPT !.status = "FAILED", !.claim = None, !.retry_safe = FALSE]

NotDispatched(row) ==
    row.status = "PENDING" \/ (row.status = "PROCESSING" /\ ~row.dispatched)

\* First statement: another snapshot's row that is old and not dispatched.
SupersedeStale(rows, s, old) ==
    [i \in DOMAIN rows |->
       IF rows[i].snapshot # s /\ i \in old /\ NotDispatched(rows[i])
       THEN Drop(rows[i]) ELSE rows[i]]

\* Second statement: what was SENT is not worked on again.
SuppressDuplicates(rows, s) ==
    [i \in DOMAIN rows |->
       IF /\ rows[i].snapshot = s
          /\ NotDispatched(rows[i]) \/ rows[i].retry_safe
          /\ \E j \in SentRows(rows) : rows[j].snapshot = s
       THEN Drop(rows[i]) ELSE rows[i]]

\* A bug for the mutation test: only what is being sent fences a new row.
FencedByProcessing(rows) == \E i \in DOMAIN rows : rows[i].status = "PROCESSING"

Fenced(rows) == \E i \in DOMAIN rows : Open(rows[i])

\* Third statement: a new row unless the latest, or the latest that was SENT, is of s.
Inserts(rows, s) ==
    /\ ~Fenced(rows)
    /\ rows # <<>> => rows[Len(rows)].snapshot # s
    /\ SentRows(rows) # {} => rows[Latest(SentRows(rows))].snapshot # s

NewRow(rows, s) ==
    [snapshot |-> s, supersedes |-> Latest(SentRows(rows)), status |-> "PENDING",
     claim |-> None, dispatched |-> FALSE, retry_safe |-> FALSE]

\* The batch of reserveStripeAnnualStatementDelivery.
reserveStripeAnnualStatementDelivery(s, old) ==
    LET rows == SuppressDuplicates(SupersedeStale(deliveries, s, old), s) IN
    IF Inserts(rows, s) THEN Append(rows, NewRow(rows, s)) ELSE rows

\* What it reads after its batch, and what the caller then asks of the row: the
\* latest one is of s and still to be sent, and no row of s was SENT.  In all other
\* cases the fence, the matching SENT row or the row's status ends the donor's turn.
ReservedToSend(s) ==
    /\ deliveries # <<>>
    /\ LET row == deliveries[Len(deliveries)] IN
         row.snapshot = s /\ (row.status \in {"PENDING", "PROCESSING"} \/ row.retry_safe)
    /\ \A i \in SentRows(deliveries) : deliveries[i].snapshot # s

claimStripeAnnualStatementDeliveryEnabled(rows, i, old) ==
    /\ \/ rows[i].status = "PENDING"
       \/ rows[i].status = "FAILED" /\ rows[i].retry_safe
       \/ rows[i].status = "PROCESSING" /\ ~rows[i].dispatched /\ i \in old
    /\ \A j \in DOMAIN rows \ {i} : ~Open(rows[j])

\* Its first statement.
TimeOut(row, old) ==
    IF row.status = "PROCESSING" /\ row.dispatched /\ old
    THEN [row EXCEPT !.status = "REVIEW", !.claim = None] ELSE row

markStripeAnnualStatementDispatchStartedEnabled(i, r) ==
    /\ deliveries[i].status = "PROCESSING" /\ deliveries[i].claim = r
    /\ ~deliveries[i].dispatched
    /\ current = deliveries[i].snapshot

\* A bug for the mutation test: an unknown outcome is tried again.
RetriesUnknown(row, end) ==
    [row EXCEPT !.status = IF end = "SENT" THEN "SENT" ELSE "FAILED",
                !.retry_safe = end \in {"RETRY", "REVIEW"}, !.claim = None]

finalizeStripeAnnualStatementDelivery(row, end) ==
    [row EXCEPT !.status = IF end = "RETRY" THEN "FAILED" ELSE end,
                !.retry_safe = end = "RETRY", !.claim = None]

-----------------------------------------------------------------------------
(* A run at the donor.                                                     *)

RunAt(r, pc) == run[r].pc = pc

GoesTo(r, pc) == run' = [run EXCEPT ![r].pc = pc]

End(r, end) == run' = [run EXCEPT ![r].pc = "finalize", ![r].end = end]

Stop(r) == run' = [run EXCEPT ![r] = Idle]

\* snapshotForTarget; the donor's target has an address.  The settings b were
\* read when the run began, before the gifts, and may have changed since.
Snapshot(r) ==
    \E b \in Settings :
        /\ RunAt(r, "idle")
        /\ run' = [run EXCEPT ![r] = [Idle EXCEPT !.pc = "reserve",
                                                  !.snapshot = <<current[1], b>>]]
        /\ UNCHANGED <<current, deliveries, mailbox>>

Reserve(r) ==
    \E old \in SUBSET {i \in DOMAIN deliveries : Open(deliveries[i])} :
        LET rows == reserveStripeAnnualStatementDelivery(run[r].snapshot, old) IN
        /\ RunAt(r, "reserve")
        /\ Len(rows) <= MaxRevisions
        /\ deliveries' = rows
        /\ GoesTo(r, "read")
        /\ UNCHANGED <<current, mailbox>>

\* Skipped, counted as a review or failed, unless there is a row to claim.  The
\* later of the reads can only stop the run, since SENT is final.
ReadReserved(r) ==
    /\ RunAt(r, "read")
    /\ IF ReservedToSend(run[r].snapshot)
       THEN run' = [run EXCEPT ![r].pc = "claim", ![r].row = Len(deliveries)]
       ELSE Stop(r)
    /\ UNCHANGED <<current, deliveries, mailbox>>

Claim(r) ==
    \E old \in SUBSET {run[r].row} :
        LET i == run[r].row
            rows == [deliveries EXCEPT ![i] = TimeOut(@, i \in old)] IN
        /\ RunAt(r, "claim")
        /\ IF claimStripeAnnualStatementDeliveryEnabled(rows, i, old)
           THEN /\ deliveries' = [rows EXCEPT ![i].status = "PROCESSING", ![i].claim = r,
                                              ![i].dispatched = FALSE, ![i].retry_safe = FALSE]
                /\ GoesTo(r, "recheck")
           ELSE deliveries' = rows /\ Stop(r)
        /\ UNCHANGED <<current, mailbox>>

\* The context and then the gifts once more, so that the settings that were equal
\* may have changed; the PDF may fail before it.
Recheck(r) ==
    /\ RunAt(r, "recheck")
    /\ \/ current[1] = deliveries[run[r].row].snapshot[1] /\ GoesTo(r, "dispatch")
       \/ End(r, "RETRY")
    /\ UNCHANGED <<current, deliveries, mailbox>>

\* beforeDispatch; without it, or with the lease run out, NOT_SENT.
Dispatch(r) ==
    LET i == run[r].row IN
    /\ RunAt(r, "dispatch")
    /\ \/ /\ markStripeAnnualStatementDispatchStartedEnabled(i, r)
          /\ deliveries' = [deliveries EXCEPT ![i].dispatched = TRUE]
          /\ GoesTo(r, "send")
       \/ UNCHANGED deliveries /\ End(r, "RETRY")
    /\ UNCHANGED <<current, mailbox>>

\* The provider takes the mail or not, and the run is told or not.
Send(r) ==
    /\ RunAt(r, "send")
    /\ \/ /\ mailbox' = Append(mailbox, run[r].row)
          /\ \E end \in {"SENT", "REVIEW"} : End(r, end)
       \/ /\ UNCHANGED mailbox
          /\ \E end \in {"RETRY", "FAILED", "REVIEW"} : End(r, end)
    /\ UNCHANGED <<current, deliveries>>

FinalizeRun(r) ==
    LET i == run[r].row IN
    /\ RunAt(r, "finalize")
    /\ deliveries' = IF deliveries[i].status = "PROCESSING" /\ deliveries[i].claim = r
                     THEN [deliveries EXCEPT ![i] = finalizeStripeAnnualStatementDelivery(@, run[r].end)]
                     ELSE deliveries
    /\ Stop(r)
    /\ UNCHANGED <<current, mailbox>>

RunDies(r) ==
    /\ ~RunAt(r, "idle")
    /\ Stop(r)
    /\ UNCHANGED <<current, deliveries, mailbox>>

\* A gift settles, a refund comes, an owner changes the settings.
Change ==
    /\ \/ current[1] + 1 \in Facts /\ current' = <<current[1] + 1, current[2]>>
       \/ \E b \in Settings \ {current[2]} : current' = <<current[1], b>>
    /\ UNCHANGED <<deliveries, run, mailbox>>

AnnualNext ==
    \/ Change
    \/ \E r \in Runs : \/ Snapshot(r) \/ Reserve(r) \/ ReadReserved(r) \/ Claim(r) \/ Recheck(r)
                       \/ Dispatch(r) \/ Send(r) \/ FinalizeRun(r) \/ RunDies(r)

AnnualSpec == AnnualInit /\ [][AnnualNext]_annualVars

-----------------------------------------------------------------------------
(* Properties.                                                             *)

OneOpen ==
    \A i, j \in DOMAIN deliveries : Open(deliveries[i]) /\ Open(deliveries[j]) => i = j

\* Every row keeps the shape of its table, only PROCESSING rows are claimed, and
\* the donor has one row at most that is pending, being sent or in review.
AnnualTypeOK ==
    /\ current \in Snapshots
    /\ deliveries \in Seq(StatementRow)
    /\ run \in [Runs -> Run]
    /\ mailbox \in Seq(DOMAIN deliveries)
    /\ \A i \in DOMAIN deliveries : (deliveries[i].status = "PROCESSING") = (deliveries[i].claim # None)
    /\ OneOpen

Mailed(k) == deliveries[mailbox[k]]

\* A correction says what the donor was not told before: neither the statement it
\* corrects nor any that came before that one is of its snapshot.
CorrectionsAreNews ==
    \A i, j, k \in DOMAIN mailbox :
        i <= j /\ mailbox[j] = Mailed(k).supersedes => Mailed(i).snapshot # Mailed(k).snapshot

\* Whatever runs overlap, die or are not told what the provider did, no revision
\* reaches the donor twice; the next one leaves only after the one before is known
\* to be SENT, so that an unknown outcome stops them all; none knows less than the
\* one before; one that knows more says that it is a correction; and a snapshot that
\* returns is not sent as a correction of what followed it
\* (reserveStripeAnnualStatementDelivery and the claims of their deliveries).
StatementsAddUp ==
    /\ \A i, j \in DOMAIN mailbox : i < j =>
          /\ mailbox[i] # mailbox[j]
          /\ Mailed(i).status = "SENT"
          /\ Mailed(i).snapshot[1] <= Mailed(j).snapshot[1]
          /\ Mailed(i).snapshot[1] < Mailed(j).snapshot[1] => Mailed(j).supersedes # 0
    /\ CorrectionsAreNews

=============================================================================
