# TLA+ models of DiezmosSV

DiezmosSV is a Cloudflare Worker that turns donations into legal receipts of El Salvador
(CDE, *comprobante de donación electrónico*). A payment arrives from Wompi, n1co or Stripe; for
Wompi and n1co the Worker builds a CDE, signs it, sends it to the Ministerio de Hacienda (MH), keeps the
verdict, mails the donor a receipt and lets operators retry, correct, annul and resend. State
lives in D1 (SQLite), work arrives by HTTP, by a queue with at-least-once delivery, and by a cron
tick every 15 minutes. There are no transactions across statements: every handler is a chain of
guarded `UPDATE`s with `await`s in between, and any two handlers may be interleaved, evicted
or repeated. That is what the modules model, one statement per action.

## 1. Inventory

| Component (source under `src/src/worker`) | State | Operations | Hard behaviour | What makes it correct |
|---|---|---|---|---|
| Fiscal documents (`storage/repository/dteDocuments.ts`) | a row of `dte_documents`: status, seal, one fiscal-operation claim (owner, kind, event), one finalization claim | about 25 guarded UPDATEs | handlers act on stale snapshots | a verdict is never overwritten; only the claim's owner writes |
| MH client (`services/mhClient.ts`) | none that matters | authenticate, `recepciondte`, `anulardte` | timeouts, lost or unreadable answers after MH has acted | an unclear answer is neither an acceptance nor a rejection |
| Pipeline (`services/pipeline.ts`) | locals of a run | process, deferred sweep, finalizer sweeps | overlap of queue, cron and operator | a CDE is posted at most once; a deferred one is taken up again |
| Operator actions (`index.ts`) | locals of a request | retry, annul, resend, edit the address | a claim taken, its next statement fails | at most one annulment |
| Receipts (`storage/repository/deliveries.ts`, `services/email.ts`) | rows of `email_deliveries`, provider's outbox | claim, reclaim, mark dispatch, finalize | leases that end under a live owner, unknown outcome | one receipt, to the current address; unknown outcomes stay locked |
| Pre-CDE issuance (`storage/repository/wompiIssuance.ts`) | a row of `wompi_events`, `document_sequences`, the queue and its dead-letter queue | ingest, consume, dead-letter, sweep, operator's retry | superseded messages, stale claims, lost messages | one CDE per payment, numbers without gaps, no payment forgotten |
| Wompi ingest and reconciliation (`domain/wompi.ts`, `services/wompiApi.ts`) | `wompi_events` identity columns | dedupe, conflict, replay, poll | replays with other content, both paths at once | a replay changes nothing |
| Fiscal corrections (`storage/repository/fiscalCorrections.ts`) | `fiscal_corrections`, claims on the target | request, queue, reserve, rewrite, dispatch, settle, recover | a rotated owner still at work, a second delivery during the POST, a verdict not yet settled | each reserved codigo is sent once, its verdict is its own, no number is burnt |
| Donation intents (`storage/repository/donationIntents.ts`, `services/donations.ts`, `n1coApi.ts`) | `donation_intents`; links and orders at two providers | create, mint, attach, attach data, switch, reconcile, bind, complete, expire | a donor paying on one provider's page while another request switches, expiry during a payment, lost webhooks | one way to pay; a payment nobody told of stays in the cron's sight |
| Stripe checkout (`index.ts`, `storage/repository/stripeDonations.ts`, `rateLimits.ts`) | `stripe_checkout_sessions`, `provider_creation_claims` | claim a place, create, attach, fail, reclaim, sweep | double clicks, a session created whose answer is lost, two configurations during a rollout | one payable session; the creation budget holds |
| Stripe ledger (`services/stripeWebhook.ts`, `storage/repository/stripeDonations.ts`) | checkout, invoice settlement, gift, `stripe_webhook_events` | one handler per event type | events repeated, out of order, two at a time | newest event wins; acknowledged to Stripe only once recorded |
| Stripe acknowledgments (`services/stripeAcknowledgment.ts`, `stripeLegacyAdoption.ts`) | `stripe_acknowledgment_deliveries` | insert, claim, snapshot, dispatch, finalize, supersede, settle by the owner | refunds during a delivery, unknown outcomes | no mail twice, none about an amount refunded since |
| Stripe annual statements (`services/stripeAnnualStatement.ts`) | `stripe_annual_statement_deliveries` | snapshot, reserve, claim, recheck, dispatch, finalize | gifts change between snapshot and mail | statements of a donor add up: a revision is mailed once, the next one only when it is known to be sent, and corrects it |
| Alerts (`services/alerts.ts`) | alert deliveries per incident and channel | send once | uncertain sends | no repeat, no silence |
| Identity (`storage/repository/identity.ts`, `services/auth.ts`) | `users`, `sessions`, reset tokens, login challenges | login with and without code, hash upgrade, reset, edit, new password | a request decides on the row it read, another changes it | no session or link outlives the credentials it was made for; no edit undoes another |
| Retention (`services/retention.ts`, `backups.ts`) | R2 objects | export, manifest | pagination under writes | complete or not at all |
| Pure functions (`src/src/shared`) | none | legal windows, DUI, NIT, money | boundaries | equal a reference definition |

How they meet: a gift through the form is an intent with a Wompi link or an n1co order
(`DonationIntents`); its payment arrives as a webhook or is found by the cron, is stored as an event and
queues an *attempt*; the consumer turns it into a
`dte_documents` row (`WompiIssuance`), then signs, claims and posts it (`FiscalOperations`), and the
accepted row is finalized with intent, receipt and audits (`PostAccept`). A rejected row may be rewritten
under a new codigo and sent again, and a payment whose data cannot make a CDE be issued with corrected
data (`FiscalCorrections`). Cron sweeps re-enter each of these stages;
operators act on all of them. Stripe is a line of its own: a checkout session
(`StripeCheckouts`), the ledger its events write (`StripeLedger`), the mail about each gift
(`StripeAcknowledgments`) and the yearly one (`StripeStatements`). Operators are accounts (`Accounts`). The
rows are the only shared memory.

`PROJECT.json` lists every component, also those that are left out, and under `hazards` the lines
where this code can go wrong in ways a test hardly reaches.

## 2. Modules and their correspondence with the code

| Module | Models |
|---|---|
| `DteDocuments` | the row of `dte_documents`; `XEnabled` is the `WHERE` of statement X, `X` the row after its `SET` |
| `MhClient` | MH's state of a document, the answers it can give, and `parseMhResponse` |
| `FiscalOperations` | every handler that may send a CDE or its annulment, interleaved by statement |
| `LegalSubmission` | the abstract promise: submitted once, ledger = MH's verdict, annulled only if accepted |
| `EmailDeliveries` | a row of `email_deliveries` and its claims |
| `PostAccept` | the finalizer, the operator's resend and address edit, and the provider |
| `WompiEvents` | the row of `wompi_events` before its CDE |
| `WompiIssuance` | ingest, consumer, dead-letter consumer, sweep and operator's retry around the queue |
| `FiscalCorrectionRows` | the row of `fiscal_corrections` and the statements that write it and its target, a document or (over `WompiEvents`) a payment |
| `FiscalCorrections` | request, queue and dead-letter consumer and recovery sweep for both targets, and the transmitters, annulments, deliveries, retries and sweeps of the target they meet; also shown to keep `LegalSubmission` for each reserved codigo |
| `DonationIntents` | one gift: the row of `donation_intents`, both providers, donor's requests, webhooks and the cron's reconciliations |
| `StripeCheckouts` | POST `/api/stripe/checkout` of one donation, Stripe's idempotency, the creation budget and its claims |
| `StripeLedger` | `handleStripeWebhook` and the handlers of its events over the rows of one donation |
| `StripeAcknowledgments` | the acknowledgments of a donor's gifts, refunds, adoption of an old subscription, the owner's decisions |
| `StripeStatements` | the annual statements of one donor and year: revisions, of which several may be of one snapshot |
| `Accounts` | one account: its row, sessions, reset tokens and challenges under overlapping requests |
| `<M>Proofs` | the theorems on module `<M>` |
| `StripeLedgerProofs` | the theorems on `StripeLedger`, and those on `StripeStatements` |
| `IntentsAndAccountsProofs` | the theorems on `DonationIntents`, and those on `Accounts` |
| `MC*` | one per checked module: symmetry sets, and for `Accounts` the sets they permute |

Conventions. A *run* is one invocation of a handler for one row; its program counter names the
statement it is about to execute, its other fields are the locals that survive an `await`. A run
also stands for the ids it mints (`newId`), and may be used again once no row names it. A batch of
statements is one action, anything else is one action per statement, so reads and writes of other
runs fall in between. `Crash` (`RunDies`) may end a run anywhere: a Worker can be evicted. `StatementThrows` is
a D1 error, or a committed statement whose answer is lost; it continues in the handler's own
`catch`. Timestamps appear as the only thing the code asks of them: older than the lease or not.
Leases may end while their owner is still at work.

What each model abstracts: document contents, signatures and mails are booleans or model values;
money, names and formatting are left out; `environment` is the deployment's own (others are refused
before they are queued). Alerts are part of the step
that writes their audit. In `FiscalCorrections`
a correction stands for its fiscal claim, its request and the codigo it reserves, a message is named by
the processing claim it carries, a payment and its CDE share a name, annulments, finalization and the
payment's own handlers are condensed to the writes a correction
can notice (`FiscalOperations`, `PostAccept` and `WompiIssuance` have them statement by statement), and whether the
archived source or the candidate validates, or equals the CDE found, is a choice. In `DonationIntents` a way to pay (the Wompi
link, an n1co order) also names the payment made that way and its event; the lookback windows and page
limits of the sweeps are taken as wide enough, `syncN1coOrder` is one action (provider and order of an
n1co row never change again), and the triggers of migration 0049, which repeat the guards of the
statements, are left out. In the Stripe modules amounts are small
numbers, a session is named by its idempotency key and the configuration it was made with, a mail by
what it reports; identities, modes and currencies agree, so the checks that compare them pass. An
owner who settles a delivery in doubt tells the truth about it: the code has no other source.
In `StripeStatements` a snapshot is what the donor gave and the settings the statement is made with,
read in this order: settings first, gifts later. Gifts only add up, settings change back, so a snapshot may
return. Migration 0038 took `UNIQUE` off `snapshot_hash`, so it then gets another row: the table is a sequence,
a row's revision is its place in it. (Also when it was SENT before: that row is never sent, and fences the
donor until it is dropped.) The reads that follow the reservation's batch are one action.
In `Accounts` a password is its epoch, and rate limits may refuse any request.

## 3. Runs

| Run | Instance | Shows |
|---|---|---|
| `fiscal` | 1 document, 3 runs | `AtMostOnePost`, `LedgerAgreesWithMh`, `UncertainStaysClaimed`, `AtMostOneAnulacion`, the refinement `LegalSpec`, and `DeferredIsSettled`: a deferred CDE is ruled on or shown to an operator |
| `post_accept` | 2 runs, 1 resend request, 2 addresses | one receipt, to the current address, locked while its fate is unknown, finalized only when complete |
| `post_accept_liveness` | 2 runs | `AcceptedIsFinalized` |
| `wompi_issuance` | 1 payment, 2 runs, 2 attempts, 1 queue retry, 1 requeue | `OneCdePerPayment`, `ControlNumbersHaveNoGap`, `ParkedStaysParked`, `PaymentIsSettled` |
| `corrections` | 1 rejected document, 2 corrections, 2 runs, 2 processing claims, overlapping deliveries | `SubmittedIsAccountedFor`, `OneCorrectionAtATime`, and `LegalSpec` for each reserved codigo |
| `payment_corrections` | 1 correction of a rejected document or of a payment, 2 runs, 2 processing claims, no overlap | `VerdictIsOfThisCorrection`, `RequestIsSettled` |
| `stripe_checkout` | 1 donation, 2 calls, 2 configurations, 3 creation attempts, another donation of the client, a budget of 1 per 2 ticks | `OneSessionPerDonation`, `AdmittedWithinBudget` |
| `stripe_ledger` | 7 histories at Stripe, 2 deliveries in flight, 2 faults | `CheckoutIsOfNewest`, `ProcessedIsDone` |
| `stripe_acknowledgments` | 3 gifts (1 recorded by an adoption, 2 refundable), 2 workers, 2 attempts | `AtMostOneMail`, `OnlyCurrentIsOpen` |
| `stripe_statements` | 2 runs, 2 states of the donor's gifts, 2 settings, 4 revisions | `StatementsAddUp` |
| `accounts` | 2 requests, 2 addresses, 2 tokens, 2 challenges, 1 session, 1 wrong code, 1 new password, 2 generations | `AccessIsCurrent`, `EditsAreExact` |
| `donation_intents` | 1 gift, 2 requests and the cron, 2 orders, 2 failures | `OneWayToPay`, `PaymentIsInSight` |

Each checked module's `TypeOK` (`AccTypeOK`, `AnnualTypeOK`) is checked by one of its runs.

Why the bounds are enough. Documents do not interact (every statement names one id), so one is
checked and the theorems cover any number; payments interact only through the number sequence, and
what can leave a gap is one payment whose reservation is lost, repeated or taken over, so one
payment with two handlers suffices. The races here are between two handlers and what a third did before
them: `fiscal` has three runs in flight, and since a finished or crashed run is used again, each
run stands for any number of successive ones. Two runs suffice where a lease separates owners. Two
attempt ids let an attempt and a late message of its predecessor coexist, and one that occurs
nowhere any more may be minted again; `AttemptLeft` is the named bound that keeps a handler from starting when none is left. One
queue retry shows both a redelivery and the move to the dead-letter queue (the deployment has 3),
one requeue the budget's edge (`MAX_WOMPI_EVENT_REQUEUES` is larger). Two corrections of one
document show the rewrite of a rewritten row; two processing claims an owner and its successor, and
a claim that occurs nowhere any more (`FreshToken`) may be minted again. `MaxRetries` is 0 for
corrections: the first failure goes to the dead-letter queue and the second drops the message, while
`Overlapping` adds the redeliveries. `Kinds` says where the document stands at first (`DIRECT`: rejected
under an earlier identity; `PAYMENT`: not made yet), `Others` which handlers run besides: transmitters and
annulments in `corrections`, annulments and the payment's own handlers in `payment_corrections`, which
does without overlap so that what it shows does not depend on it. A transmitter that meets the CDE of a
payment under correction is in the module and in neither run.

A checkout needs two calls and a third attempt, because its idempotency key changes with each
generation: the old session, the new one and the claim between them. `ClaimIds` has more ids than
the rows and two calls can hold (`EnoughClaimIds`), so that a new one is always at hand. The histories of `stripe_ledger` are one per path through the handlers, with events of the
same second among them; since every event may be delivered any number of times, two at a time, a fault
only adds a delivery that ends in the middle, and two faults allow that for both. An
acknowledgment row is named by gift and refunded amount, so one refund step makes the superseded row
and its successor; two attempts reach the limit (5 in the code). Two states of the gifts and two settings
make four snapshots, which the settings may change back to; four revisions are one that failed, the one sent
instead, the one of the snapshot that returned and another. In `accounts` each bound is the smallest at
which the row can differ from the one a request has read (a password, a change of address, disabling
and enabling again), and one session the least at which an old one gives way. Two orders let a
second one replace a first, two failures lose an answer and kill the request that would make up for it.
Everything else is finite by itself. Deadlock checking is off where the system rests once
everything is settled. Symmetry is used only in runs without liveness properties, for names that are
compared for equality alone.

Fairness. A started handler goes on unless it crashes (weak fairness of `Step`); the cron's sweeps
and the queue's deliveries keep coming; leases and the stall age elapse. `FiscalOperations` adds strong
fairness for the sweep's claim and its POST: queue retries are bounded, and MH does not refuse
to authenticate for ever. `PostAccept`, `WompiIssuance` and `FiscalCorrections` say that crashes and D1
errors end one day (`<>[]`; `CalmNext` is the next-state relation without them): without it a
handler can be evicted for ever, and no program prevents that. `FiscalCorrections` counts among these faults
an owner that is slower than the 15 minutes of the sweep, and has strong fairness for deliveries and for
the sweep, since `Runs` bounds the handlers of the model and not those of the platform. The Stripe, account and intent runs check safety only: what they need to go on is a donor, an owner or a
provider. Where something must not be forgotten the property is an invariant instead (`PaymentIsInSight`:
the cron's query lists it; `ProcessedIsDone`: Stripe is not told to stop). Nothing is
assumed of operators, and ambiguous answers of MH and of the mail provider stay possible for ever.

Each property has a mutant, a plausible bug of one mapped definition (`A bug for the mutation test`
in the modules), under which TLC finds it violated.

## 4. Proofs

Each proof module proves what follows for all values of the constants of its module: any number of
documents, payments, handlers in flight, orders, claims, attempts (in `StripeLedger` any number of
deliveries and faults over any of the seven histories of `HistoryOf`, which are part of the module). The assumptions are the `ASSUME`s of the
modules and nothing else: limits are numbers; `NULL` (or `None`) is not a name (`NullIsNoName`, ...), nor a row
(`NullIsNoRow`); names of different kinds differ (`Names`, `OthersAreOther`, and `OwnAttemptIsNoCorrection`: the
attempts that a payment's own retries draw are never a correction's id); `EnoughClaimIds` stands for a
random UUID being new; `AccountBounds` (one session at least is allowed, the challenges can be counted) and
`FactsAreBounded` (there is a first fact, the bounds are numbers). TLC evaluates each of them in the
module's run. Two proof modules extend two components each. The two share no variable, and the second one
has names of its own: `AccInit`, `AccNext`, `AccSpec`, `AccTypeOK` in `Accounts`, `AnnualInit`, `AnnualNext`, `AnnualSpec`,
`AnnualTypeOK` in `StripeStatements`.

| Module | Theorem | Statement |
|---|---|---|
| `FiscalOperationsProofs` | `TypeCorrect` | `Spec => []TypeOK` |
| | `ProtocolKept` | `Spec => []ClaimProtocol`, the inductive invariant |
| | `NeverPostedTwice` | `Spec => []AtMostOnePost` |
| | `LedgerIsTrue` | `Spec => []LedgerAgreesWithMh` |
| | `UncertainIsFrozen` | `Spec => []UncertainStaysClaimed` |
| | `OneAnnulment` | `Spec => [](AnnulmentStaysClaimed /\ AtMostOneAnulacion)` |
| | `VerdictsAreFinal` | `Spec => VerdictIsFinal`, an action property |
| | `HandlersAreLegal` | `Spec => LegalSpec`, the refinement of `LegalSubmission` |
| `PostAcceptProofs` | `TypeCorrect`, `InvariantHolds` | `[]TypeOK`, `[](TypeOK /\ Receipts)` |
| | `OneReceipt`, `Recipient`, `Finalized` | `[]AtMostOneReceipt`, `[]RecipientIsCurrent`, `[]FinalizedIsComplete` |
| `WompiIssuanceProofs` | `InvariantHolds`, `TypeCorrect` | `[]IInv`, `[]TypeOK` |
| | `OneCde`, `NoGap` | `[]OneCdePerPayment`, `[]ControlNumbersHaveNoGap` |
| | `Parks` | `Spec => ParkedStaysParked`, an action property |
| `IntentsAndAccountsProofs` | `InvariantHolds`, `TypeCorrect` | `[]IInv`, `[]TypeOK` |
| | `OneWay`, `InSight` | `[]OneWayToPay`, `[]PaymentIsInSight` |
| | `AccountsAreTyped` | `AccSpec => []AccTypeOK`, the two limits included |
| | `AccessIsAlwaysCurrent` | `AccSpec => []AccessIsCurrent` |
| | `EditsAreAlwaysExact` | `AccSpec => EditsAreExact`, an action property |
| `StripeCheckoutsProofs` | `InvariantHolds`, `TypeCorrect` | `[]IInv`, `[]TypeOK` |
| | `OneSession`, `WithinBudget` | `[]OneSessionPerDonation`, `[]AdmittedWithinBudget` |
| `StripeLedgerProofs` | `InvariantHolds`, `TypeCorrect` | `[]IInv`, `[]TypeOK` |
| | `NewestWins`, `DoneIsDone` | `[]CheckoutIsOfNewest`, `[]ProcessedIsDone` |
| | `StatementsAreTyped` | `AnnualSpec => []AnnualTypeOK`, one open statement included |
| | `StatementsAlwaysAddUp` | `AnnualSpec => []StatementsAddUp` |
| `StripeAcknowledgmentsProofs` | `InvariantHolds`, `TypeCorrect` | `[]IInv`, `[]TypeOK` |
| | `OneMail`, `CurrentOnly` | `[]AtMostOneMail`, `[]OnlyCurrentIsOpen` |
| `FiscalCorrectionsProofs` | `InvariantHolds`, `TypeCorrect` | `[]IInv`, `[]TypeOK` |
| | `SubmittedOnceAndAccountedFor` | `[]SubmittedIsAccountedFor` |
| | `HandlersAreLegal` | `Spec => LegalSpec`, the refinement of `LegalSubmission` per codigo |
| | `OpeningsHold` | `[]JInv`, a second inductive invariant, relative to `IInv` |
| | `OneAtATime` | `[]OneCorrectionAtATime` |
| | `VerdictIsItsOwn` | `Spec => VerdictIsOfThisCorrection`, an action property |

None of the safety properties is inductive: each depends on what a handler that is *about* to write
has read. So every invariant has a part per program counter, what the run knows when it is there, and a
part that ties the columns of the rows to each other and to what happened outside. Each was checked by TLC on
the module's run before it was proved; the runs themselves hold what they imply.

- `ClaimProtocol`: `RunKnows` (a run past its claim still owns it, and has or has not posted), `RowKnows`
  (a row that was posted is settled or claimed), `EventKnows`, `InvalidatedHasEvent` and
  `OneAcceptedEvent` (what an annulment event says). The key lemma is `ConfinedStep`: a step of one run
  that leaves other claims alone, and takes a claim only where there is none, keeps the knowledge of every
  other run. `ReplyIsTrue` is the only fact about MH's answers (a definitive answer is the truth).
  `VerdictsAreFinal` needs the invariant too: that an owner's write does not hit a settled row is knowledge of
  the run, not of the statement. `HandlersAreLegal` goes step by step: a POST is `Submit`, MH's ruling
  `Decide` or `Annul`, the statement that stores a verdict records it, everything else stutters.
- `Receipts`: `Reads` (a finalizer that still owns its claim mails the current address), `Completes` (what
  is done and audited before its next statement), `Sends` (a run in front of the provider holds the delivery
  and nothing went out), `Mailed` (a mail is recorded as sent or stays unresolved), `OneUnresolved` (the
  unique index of the table) and `Locked` (while the automatic receipt is in flight the
  finalization claim cannot be taken over, the reason why a lease that ends does not send a second one).
- `WompiIssuanceProofs!IInv`: `Numbers` (what was given out are exactly the numbers below the
  counter, one event each), `Carried` (a document has its event's number), `OneCdePerPayment`, `Handlers` (a run about
  to create the document has reserved its number), `Queue`, `Rows`, `Aside`. `Parks` is proved from one
  lemma per kind of write: each `WHERE` either misses a parked row or opens a new epoch.
- `IntentsAndAccountsProofs!IInv`: `Creating` (the request that creates the intent is alone until a link is
  attached), `RowKnows` (provider, order and status against the providers' links and what was shown) and
  `RunKnows` (a run that will switch to n1co has seen the Wompi link closed).
- `IntentsAndAccountsProofs!AccountInv`: `SessionsOK` and `TokensOK` (what is open is bound to the account as it is,
  and no two links are open), `ChallengesOK` (the wrong codes of each cohort), `CallsOK` with `CallKnows` per
  program counter. `AccessIsCurrent` alone is not inductive for two reasons. A reset takes a token without comparing
  it with the account, so it must be known that the token is one of the names; and an edit that makes an OWNER is
  checked against the role the *row* has, not the one it is given, so the request must carry that it was
  allowed to ask for it. The edit is compared with the row it has read (`EditSteps`: `Edited` says what is
  written in terms of the account as it *is*), which is why no edit undoes another (`EditIsExact`).
  The wrong codes of a cohort are a sum over a set, defined by recursion in the community modules. `Sums`,
  `Failures` and `WrongIsFailures` restate it, `SumsExist`, `SumsAgree` and `SumsTakeOut` show that it exists, depends on
  the terms alone and may start with any element; then `CohortAt` and `CohortOff` take the one challenge a
  step touches out of the sum, and `BoundedWithout` and `BoundedCount` keep the limit. The induction is over
  a *set* of subsets (`NatMin`, `NatSet`, `SubsetsSet`, from `WFMin`), which needs no operator as a parameter.
- `StripeCheckoutsProofs!IInv`: `Donation` (as long as Stripe refused no call of a request its row has
  the first key, the only one Stripe has made a session for), `Admission` (whoever was admitted within the
  window still holds its claim), `Sound` per call, and the cardinality of the `Live` claims: the claim
  statement counts them, so that they never exceed `Limit` is itself an induction.
- `StripeLedgerProofs!IInv`: `CheckoutInv` (the row stands where the newest event applied to it has left
  it, which `CheckoutIsOfNewest` alone does not say: the columns `at` and `sub_at` belong to the same
  event as the status), `Knows` (a delivery's copy of the settlement is never ahead of the row, and
  what it knows of the rows holds for good) and `RowsKnow`. Two parts are about
  pairs of deliveries: `OneCompletes` (of the two halves of an invoice, whichever is staged second sees
  both) and `OneBrings` (the payment's delivery sees the charge's evidence or the charge's delivery
  sees the payment, since each writes before it looks). `Grows` collects what no step takes back.
- `StripeAcknowledgmentsProofs!IInv`: `Exists`, `CurrentIsOpen`, `Mailed`, `Introduces` per delivery, `Knows` per
  worker and `OneSender`: two workers are never in front of the mail service with the same delivery.
- `StripeLedgerProofs!AnnualInv`: `RowKnows` (a row is of facts that were there, what is in the
  mailbox was dispatched, what a row corrects is SENT), one open row at most (`OneOpen`, in `AnnualTypeOK`),
  `RunKnows` per program counter, `OneAtProvider` (one run at most is in front of the mail service, about nothing
  older than what was sent), `Labelled`: a row that corrects nothing was reserved before anything older
  was sent, and nothing older can be sent any more, and `Unsaid`: neither the revision that a run's row corrects nor
  any mailed before it is of the row's snapshot. `StatementsAddUp` is about the order of the mailbox and
  says nothing of a run that is about to send; the last three parts do. Since one row at most is open, what was mailed
  before the row that is being sent is SENT, and SENT is final. `LatestIsHighest` says that a new row corrects
  something whenever anything was sent, `ReserveRows` what the three statements of a reservation do to
  all rows, `OneStatement` is the step that writes one row.
- `FiscalCorrectionsProofs!IInv`: `Places` (on which row a codigo, and a correction's claim, may stand),
  `Sources` (what a correction replaces has been rejected), `Posts` (a codigo is sent once and leaves its row only
  when MH has rejected it), `Truthful` and `Replaced` (the row against what was sent, and the claim with the
  dispatch marker that protects it until the verdict), `Sent` (messages name a correction that was requested), and
  `Works` and `Knows` per program counter. Deliveries of one correction may overlap everywhere but under
  the marker: `OneDispatches`, which is why none sends what another has sent. The proof rests on a few step lemmas:
  `QuietStep` for a step that writes no document, `RowWritten` and `IdentityWritten` for one that writes one row
  (every handler that relies on a row is its owner, `Apart`, `OneOwner`, or is about another row), and `Released` for the
  statements that give a claim back. `SubmittedIsAccountedFor` is `Posts` and `Truthful`.
  The refinement reads the ledger of a codigo from its row if it is on one, and else from whether a correction
  has replaced it (`LedgerIsRead`). A POST is `Submit`, MH's ruling `Decide`, the statement that stores a
  verdict `Record`, the annulment `Annul` and `RecordAnnulment`. The steps that need an argument are
  `Prepare` and `Retire`: they exchange the codigo of the row, and the lemma `Rewritten` shows that neither
  the one that leaves nor the one that comes changes its ledger entry.
- `FiscalCorrectionsProofs!JInv` says whose a target is while its correction is open, which
  `OneCorrectionAtATime` does not: that property is false of the next state unless an open correction *also*
  keeps its claim from being taken by the payment's own deliveries. `Openings` has it: an open correction of a
  document holds it, or has set its marker on its own codigo; one of a payment is the event's attempt,
  with a CDE nobody else can claim and no verdict before the marker; and before the marker nothing
  was sent under its codigo. `Unmade` and `Making` (a CDE that does not exist yet is as it will be inserted, and nobody
  works on it), `HeldRows`, and `Backing`: a delivery that knows that nothing was sent
  (`Undispatched`) still has what it marked, so that taking the marker back is safe. No single handler gives
  that: it needs `OneDispatches` and that every other delivery reads the rows before it writes them.
  The proof has a lemma per kind of write: `QuietlyMinds`, `RowMinds` (a document, by `Suits`),
  `EventMinds`, `MarkMinds`, `PostMinds` and `ChangeMinds` (a correction together with its target).
  `VerdictIsItsOwn` follows from what each settling statement finds in the tables (`FindsVerdict`), `Truthful` for
  a verdict and `Openings` for a failure.

Every invariant and every action property that a run checks is stated by a theorem, and so are both
refinements of `LegalSubmission`. Only model-checked are the liveness properties `DeferredIsSettled`,
`AcceptedIsFinalized`, `PaymentIsSettled` and `RequestIsSettled`: fairness and `ENABLED` are out of the prover's reach.

## 5. Known disagreements

Places where the code, as modelled, does what a comment, a document or a test of the repository
says it does not. No run depends on them; the properties are stated so that they hold of the code.

- `pipeline.ts:1281`: the catch block of `processDteDocument` decides from its stale snapshot that a
  row is not deferred, and fails a CDE that another delivery has deferred (comment at `:1278`).
- `pipeline.ts:1560`: a refused delivery claim counts as done; the document is marked
  finalized with no receipt sent, failed or skipped (`docs/fiscal-claim-reconciliation.md:64`).
- `index.ts:885`: a dead-letter delivery that ends between its two statements leaves neither
  audit nor alert (`README.md:156`).
- `wompiIssuance.ts:609`: an issuance claim left behind by the last delivery makes every operator's
  retry of the dead-lettered payment fail (`runbook-operador.md:328`, `README.md:694`), and a payment the
  sweep has given up on is not accepted by the retry endpoint at all.
- `pipeline.ts:992`: the error path of an older delivery writes with the processing claim it reads
  afresh, so it fails the correction of the delivery that has replaced it (`README.md:1103`).
- `fiscalCorrections.ts:1707`: the sweep is there to re-drive corrections that never dispatched
  (`README.md:1113`), but one whose delivery was evicted between claiming the payment and making its
  CDE, and whose message is gone, is not taken up: the claim left on the event makes the recovery refuse.
- `dteDocuments.ts:205`, called at `pipeline.ts:346` and `:372`: a late delivery of the own attempt of a payment
  marks the event processed although a correction has it by then; the correction can neither make the CDE
  nor retire the event.
- A delivery that overlaps the POST of another one settles the correction as `REVIEW_REQUIRED`
  although nothing is uncertain, and an old delivery may take the fiscal claim of a correction that has
  failed meanwhile and keep it.
- `stripeWebhook.ts:124`: `checkout.session.completed` reads the checkout row before the charge of a
  one-time payment stores its method there, and inserts the gift after the charge looked for it: the
  gift keeps no method and its acknowledgment waits for ever (`test/stripeWebhook.test.ts:38`, `:89`).
- `stripeAnnualStatements.ts:487`: the claim of an annual statement does not look for a SENT row of the same
  snapshot (`docs/superpowers/plans/2026-08-11-stripe-gift-type-us-reporting-admin.md:135` promises that bulk and single
  sends skip an already-sent identical snapshot). A run reserves revision 1 of snapshot A and stalls; another run claims
  it and fails it as `retry_safe`; the settings change and revision 2, of B, is SENT; they change back and
  revision 3, of A, is SENT; the first run goes on, claims revision 1 and mails A again, under the
  idempotency key of that row. TLC finds these steps when asked whether any two mailed revisions are of
  different snapshots; `StatementsAddUp` therefore asks it of each revision. Lines `:136` and `:139` of the plan (one row per
  hash) are what migration 0034 did and 0038 undid.
- `donationIntents.ts:237`: `markIntentPaid` does not check the provider, so a payment at the link
  left behind marks an intent that was switched as paid.
- n1co orders live at least 5 minutes, also when their intent has less left, where a comment says
  that an order never outlives its intent.
- Nothing keeps the last owner from being disabled or made an administrator by another owner.

## 6. Plan

1. Done: the fiscal line (`FiscalOperations` with proofs, `PostAccept`, `WompiIssuance`,
   `FiscalCorrections`), `DonationIntents`, the four Stripe modules, `Accounts`.
2. Done: proofs of the safety properties of all ten modules that have a run.
3. Invitations and the first owner in `Accounts`; the retention export and its manifest; alerts.

## 7. Not modelled

DTE construction, JSON schemas, signing and certificates (pure data and cryptography: a run only
needs to know that they may throw); PDF, mail layout and templates; analytics, donor register, F960
and exports (read-only); settings and the secrets writer; routing, headers and logs; the browser
client, which keeps no state the Worker relies on; deployment scripts; legal windows, money and
identity numbers (pure functions). Within modelled components: messages without an attempt id, which an
older release queued; the transitory-receipt and annulment mails,
which use the claims of `EmailDeliveries`; invitations, bootstrap and the rate limits of login, reset
and donor data, which have the claim-then-count form of `StripeCheckouts`; other accounts' addresses
(a change to one in use is refused) and names; the adoption of old subscriptions beyond its gifts and
its first acknowledgment; the export of retention data and operational alerts.
