-------------------------- MODULE DonationIntents --------------------------
(***************************************************************************)
(* One gift through /donar, from the row in donation_intents to the event  *)
(* its payment becomes: the Wompi link, the n1co order behind it, the      *)
(* donor's data, the switch from one provider to the other, the webhooks,  *)
(* the cron that looks for payments nobody told of, and expiry.            *)
(*                                                                         *)
(* A way to pay is the Wompi link or an n1co order; it also names the      *)
(* payment made that way and the event stored for it.  Every statement on  *)
(* the row and every call to a provider is an action of its own.  What     *)
(* becomes of an event that is bound to the intent is WompiIssuance.       *)
(***************************************************************************)
EXTENDS Naturals

CONSTANTS Requests,    \* invocations for donors and providers
          Cron,        \* the scheduled invocation
          Orders,      \* n1co orders that may be minted
          MaxFailures, \* bound: invocations that die and calls that fail
          NULL

Wompi == "WOMPI"

ASSUME Names == Cron \notin Requests /\ {NULL, Wompi} \cap Orders = {}

ASSUME MaxFailuresAssumption == MaxFailures \in Nat

Ways == {Wompi} \cup Orders

\* link: wompi_id_enlace is set; order: n1co_order_id; draft: the donor's data
\* are not attached yet and datos_token_hash is set; paid: paid_at is set.
IntentRow == [status   : {"PENDING", "LINK_CREATED", "EXPIRED", "COMPLETED"},
              provider : {"WOMPI", "N1CO"},
              link     : BOOLEAN,
              order    : Orders \cup {NULL},
              draft    : BOOLEAN,
              paid     : BOOLEAN]

ASSUME NullIsNoRow == NULL \notin IntentRow

\* What an invocation does next, and the way it is about.
Run == [pc  : {"idle", "mint_wompi", "attach_wompi", "prepare", "store", "mint_n1co",
               "attach_n1co", "deactivate", "ask", "switch", "bind", "mark", "close",
               "finalize", "complete"},
        way : Ways \cup {NULL}]

Idle == [pc |-> "idle", way |-> NULL]

VARIABLES
    intent,   \* the row, or NULL
    late,     \* expires_at has passed
    link,     \* at the providers: Ways -> none, open or closed
    paying,   \* ways on whose hosted page the donor is paying
    paid,     \* approved payments
    shown,    \* ways whose address the donor was sent
    events,   \* wompi_events: Ways -> none, stored, issued or quarantined
    run,      \* invocations
    failures

vars == <<intent, late, link, paying, paid, shown, events, run, failures>>

outside == <<late, link, paying, paid>>

Init ==
    /\ intent = NULL
    /\ late = FALSE
    /\ link = [w \in Ways |-> "none"]
    /\ paying = {} /\ paid = {} /\ shown = {}
    /\ events = [w \in Ways |-> "none"]
    /\ run = [r \in Requests \cup {Cron} |-> Idle]
    /\ failures = 0

-----------------------------------------------------------------------------
At(r, pc) == run[r].pc = pc

Goes(r, pc, w) == run' = [run EXCEPT ![r] = [pc |-> pc, way |-> w]]

Ends(r) == run' = [run EXCEPT ![r] = Idle]

Sends(w) == shown' = shown \cup {w}

\* resolveDonationIntentBinding: the payment is of the provider and the link
\* the intent has now.
Bound(w) ==
    /\ intent.status \in {"LINK_CREATED", "EXPIRED"}
    /\ IF w = Wompi THEN intent.provider = "WOMPI" /\ intent.link
                    ELSE intent.provider = "N1CO" /\ intent.order = w

\* An order of the donor's gift at n1co; nobody else has heard of it yet.
Mint(o) == link[o] = "none" /\ link' = [link EXCEPT ![o] = "open"]

-----------------------------------------------------------------------------
(* A new gift: handleCreateDonationIntent.                                 *)

\* A draft has no data; above Wompi's limit an intent is born on n1co.
createDonationIntent(r) ==
    /\ At(r, "idle") /\ intent = NULL
    /\ \E draft, large \in BOOLEAN :
        /\ ~(draft /\ large)
        /\ intent' = [status |-> "PENDING", provider |-> "WOMPI", link |-> FALSE,
                      order |-> NULL, draft |-> draft, paid |-> FALSE]
        /\ Goes(r, IF large THEN "mint_n1co" ELSE "mint_wompi", NULL)
    /\ UNCHANGED <<outside, shown, events, failures>>

createPaymentLink(r) ==
    /\ At(r, "mint_wompi")
    /\ link' = [link EXCEPT ![Wompi] = "open"]
    /\ Goes(r, "attach_wompi", Wompi)
    /\ UNCHANGED <<intent, late, paying, paid, shown, events, failures>>

\* Whatever the row has become meanwhile.
attachIntentLink(r) ==
    /\ At(r, "attach_wompi")
    /\ intent' = [intent EXCEPT !.link = TRUE, !.status = "LINK_CREATED"]
    /\ IF intent.draft THEN UNCHANGED shown ELSE Sends(Wompi)
    /\ Goes(r, "prepare", NULL)
    /\ UNCHANGED <<outside, events, failures>>

prepareN1coLink(r) ==
    /\ At(r, "prepare")
    /\ IF intent.provider = "WOMPI" /\ ~intent.paid /\ intent.order = NULL
         THEN \E o \in Orders : Mint(o) /\ Goes(r, "store", o)
         ELSE Ends(r) /\ UNCHANGED link
    /\ UNCHANGED <<intent, late, paying, paid, shown, events, failures>>

prepareIntentN1coLinkEnabled ==
    intent.provider = "WOMPI" /\ ~intent.paid /\ intent.order = NULL

prepareIntentN1coLink(r) ==
    /\ At(r, "store")
    /\ intent' = IF prepareIntentN1coLinkEnabled THEN [intent EXCEPT !.order = run[r].way]
                                                 ELSE intent
    /\ Ends(r)
    /\ UNCHANGED <<outside, shown, events, failures>>

createCheckoutLink(r) ==
    /\ At(r, "mint_n1co")
    /\ \E o \in Orders : Mint(o) /\ Goes(r, "attach_n1co", o)
    /\ UNCHANGED <<intent, late, paying, paid, shown, events, failures>>

attachIntentN1coLink(r) ==
    /\ At(r, "attach_n1co")
    /\ IF intent.status = "PENDING" /\ intent.provider = "WOMPI" /\ ~intent.link
         THEN /\ intent' = [intent EXCEPT !.provider = "N1CO", !.order = run[r].way,
                                          !.status = "LINK_CREATED"]
              /\ Sends(run[r].way)
         ELSE UNCHANGED <<intent, shown>>
    /\ Ends(r)
    /\ UNCHANGED <<outside, events, failures>>

\* A bug for the mutation test: the link may not be there yet.
TakesDataEarly == ~intent.paid /\ intent.draft /\ ~late

TakesData == intent.status = "LINK_CREATED" /\ ~intent.paid /\ intent.draft /\ ~late

\* The data of a draft, once; only now is the donor sent to its link.
applyIntentDatosWithCapability ==
    /\ intent # NULL /\ TakesData
    /\ intent' = [intent EXCEPT !.draft = FALSE]
    /\ Sends(Wompi)
    /\ UNCHANGED <<outside, events, run, failures>>

-----------------------------------------------------------------------------
(* The donor chooses n1co: handleDonationIntentN1co.                       *)

MaySwitch ==
    /\ intent.provider = "WOMPI" /\ intent.status = "LINK_CREATED"
    /\ ~intent.paid /\ ~intent.draft /\ ~late

\* The order that was prepared, or one minted now.
handleDonationIntentN1co(r) ==
    /\ At(r, "idle") /\ intent # NULL
    /\ MaySwitch /\ intent.link
    /\ IF intent.order # NULL
         THEN Goes(r, "deactivate", intent.order) /\ UNCHANGED link
         ELSE \E o \in Orders : Mint(o) /\ Goes(r, "deactivate", o)
    /\ UNCHANGED <<intent, late, paying, paid, shown, events, failures>>

\* A double click: the intent is on n1co already.
SendAgain ==
    /\ intent # NULL
    /\ intent.provider = "N1CO" /\ ~intent.paid /\ intent.status = "LINK_CREATED"
    /\ Sends(intent.order)
    /\ UNCHANGED <<intent, outside, events, run, failures>>

\* A bug for the mutation test: the link is left open.
LeavesOpen == link

DeactivatedLinks == [link EXCEPT ![Wompi] = "closed"]

deactivatePaymentLink(r) ==
    /\ At(r, "deactivate")
    /\ link' = DeactivatedLinks
    /\ Goes(r, "ask", run[r].way)
    /\ UNCHANGED <<intent, late, paying, paid, shown, events, failures>>

\* A payment that came before the link was closed keeps the intent on Wompi.
getPaymentLink(r) ==
    /\ At(r, "ask")
    /\ IF Wompi \in paid THEN Ends(r) ELSE Goes(r, "switch", run[r].way)
    /\ UNCHANGED <<intent, outside, shown, events, failures>>

\* The row's order wins over the one minted by this request.
switchIntentToN1co(r) ==
    LET order == IF intent.order = NULL THEN run[r].way ELSE intent.order IN
    /\ At(r, "switch")
    /\ IF MaySwitch
         THEN intent' = [intent EXCEPT !.provider = "N1CO", !.order = order] /\ Sends(order)
         ELSE UNCHANGED <<intent, shown>>
    /\ Ends(r)
    /\ UNCHANGED <<outside, events, failures>>

-----------------------------------------------------------------------------
(* Donor and providers.                                                    *)

\* A link takes one payment; what was begun may be approved after it is closed.
BeginPayment(w) ==
    /\ w \in shown /\ link[w] = "open" /\ w \notin paying \cup paid
    /\ paying' = paying \cup {w}
    /\ UNCHANGED <<intent, late, link, paid, shown, events, run, failures>>

EndPayment(w) ==
    /\ w \in paying
    /\ paying' = paying \ {w}
    /\ paid' \in {paid, paid \cup {w}}
    /\ UNCHANGED <<intent, late, link, shown, events, run, failures>>

\* Both kinds of link last about as long as the intent.
LinkExpires(w) ==
    /\ link[w] = "open"
    /\ link' = [link EXCEPT ![w] = "closed"]
    /\ UNCHANGED <<intent, late, paying, paid, shown, events, run, failures>>

HourPasses ==
    /\ intent # NULL /\ ~late
    /\ late' = TRUE
    /\ UNCHANGED <<intent, link, paying, paid, shown, events, run, failures>>

-----------------------------------------------------------------------------
(* From a payment to its event: ingestTrustedWompiPayload.                 *)

\* insertWompiEvent; a replay finds its event and goes on all the same.
Ingest(r, w) ==
    /\ events' = [events EXCEPT ![w] = IF @ = "none" THEN "stored" ELSE @]
    /\ Goes(r, "bind", w)
    /\ UNCHANGED <<intent, outside, shown, failures>>

handleWompiWebhook(r) == At(r, "idle") /\ Wompi \in paid /\ Ingest(r, Wompi)

AsksN1co(o) == intent.provider = "N1CO" /\ intent.order = o /\ ~intent.paid

\* syncN1coOrder, for a webhook or a donor who asks: n1co is asked about the
\* order of the row, and observeN1coPaid finds the row again (provider and order
\* of an N1CO row never change).
syncN1coOrder(r, w) ==
    /\ At(r, "idle") /\ w \in paid \cap Orders /\ AsksN1co(w)
    /\ Ingest(r, w)

\* A bug for the mutation test: a late payment is not looked for.
ListsActiveOnly == intent.status = "LINK_CREATED"

\* The rows the cron asks Wompi or n1co about.
ListedForReconciliation == intent.status \in {"LINK_CREATED", "EXPIRED"}

CronAsksWompi == ListedForReconciliation /\ intent.link /\ ~intent.paid

CronAsksN1co(o) == ListedForReconciliation /\ AsksN1co(o)

reconcileMissingWompiCallbacks ==
    /\ At(Cron, "idle") /\ Wompi \in paid /\ CronAsksWompi
    /\ Ingest(Cron, Wompi)

reconcileMissingN1coCallbacks(o) ==
    /\ intent # NULL /\ CronAsksN1co(o)
    /\ syncN1coOrder(Cron, o)

\* markIntentPaidFromWebhook first reads the binding ...
resolveDonationIntentBinding(r) ==
    /\ At(r, "bind")
    /\ IF Bound(run[r].way) THEN Goes(r, "mark", run[r].way) ELSE Ends(r)
    /\ UNCHANGED <<intent, outside, shown, events, failures>>

\* ... and then writes: for Wompi the provider is not asked again.
markIntentPaid(r) ==
    LET w == run[r].way IN
    /\ At(r, "mark")
    /\ intent' = IF /\ intent.status \in {"LINK_CREATED", "EXPIRED"} /\ ~intent.paid
                    /\ IF w = Wompi THEN intent.link
                                    ELSE intent.provider = "N1CO" /\ intent.order = w
                   THEN [intent EXCEPT !.paid = TRUE] ELSE intent
    /\ Ends(r)
    /\ UNCHANGED <<outside, shown, events, failures>>

\* The queue's consumer: correlateIntent, then a CDE or the quarantine.
correlateIntent(w) ==
    /\ events[w] = "stored"
    /\ events' = [events EXCEPT ![w] = IF Bound(w) /\ ~intent.draft THEN "issued"
                                                         ELSE "quarantined"]
    /\ UNCHANGED <<intent, outside, shown, run, failures>>

\* finalizeAcceptedDocument binds again before it completes the intent; an
\* intent that is not bound waits for an operator.
finalizeAcceptedDocument(r, w) ==
    /\ At(r, "idle") /\ events[w] = "issued" /\ Bound(w)
    /\ Goes(r, "complete", w)
    /\ UNCHANGED <<intent, outside, shown, events, failures>>

completeIntentForPostAcceptOwner(r) ==
    /\ At(r, "complete")
    /\ intent' = IF intent.status \in {"LINK_CREATED", "EXPIRED"}
                   THEN [intent EXCEPT !.status = "COMPLETED"] ELSE intent
    /\ Ends(r)
    /\ UNCHANGED <<outside, shown, events, failures>>

-----------------------------------------------------------------------------
(* Expiry, and what goes wrong.                                            *)

\* The list and the update of the sweep; then the link is closed at Wompi.
expireDonationIntentsByIds ==
    /\ At(Cron, "idle") /\ intent # NULL
    /\ late /\ intent.status \in {"PENDING", "LINK_CREATED"} /\ ~intent.paid
    /\ intent' = [intent EXCEPT !.status = "EXPIRED"]
    /\ IF intent.link THEN Goes(Cron, "close", Wompi) ELSE UNCHANGED run
    /\ UNCHANGED <<outside, shown, events, failures>>

CloseExpired ==
    /\ At(Cron, "close")
    /\ link' = [link EXCEPT ![Wompi] = "closed"]
    /\ Ends(Cron)
    /\ UNCHANGED <<intent, late, paying, paid, shown, events, failures>>

\* The invocation dies, or a statement or a call fails, with or without effect:
\* every handler gives up then (an error in markIntentPaid is only logged).
Fail(r) ==
    /\ failures < MaxFailures /\ ~At(r, "idle")
    /\ failures' = failures + 1
    /\ Ends(r)
    /\ UNCHANGED <<intent, outside, shown, events>>

Step(r) ==
    \/ createPaymentLink(r) \/ attachIntentLink(r) \/ prepareN1coLink(r)
    \/ prepareIntentN1coLink(r) \/ createCheckoutLink(r) \/ attachIntentN1coLink(r)
    \/ deactivatePaymentLink(r) \/ getPaymentLink(r) \/ switchIntentToN1co(r)
    \/ resolveDonationIntentBinding(r) \/ markIntentPaid(r)
    \/ completeIntentForPostAcceptOwner(r)

Next ==
    \/ \E r \in Requests :
        \/ createDonationIntent(r) \/ handleDonationIntentN1co(r) \/ handleWompiWebhook(r)
        \/ \E w \in Orders : syncN1coOrder(r, w)
        \/ \E w \in Ways : finalizeAcceptedDocument(r, w)
    \/ \E r \in Requests \cup {Cron} : Step(r) \/ Fail(r)
    \/ applyIntentDatosWithCapability \/ SendAgain
    \/ \E w \in Ways : BeginPayment(w) \/ EndPayment(w) \/ LinkExpires(w) \/ correlateIntent(w)
    \/ HourPasses
    \/ reconcileMissingWompiCallbacks \/ expireDonationIntentsByIds \/ CloseExpired
    \/ \E w \in Orders : reconcileMissingN1coCallbacks(w)

Spec == Init /\ [][Next]_vars

-----------------------------------------------------------------------------
TypeOK ==
    /\ intent \in IntentRow \cup {NULL}
    /\ late \in BOOLEAN
    /\ link \in [Ways -> {"none", "open", "closed"}]
    /\ paying \subseteq shown /\ paid \subseteq shown
    /\ shown \subseteq {w \in Ways : link[w] # "none"}
    /\ events \in [Ways -> {"none", "stored", "issued", "quarantined"}]
    /\ run \in [Requests \cup {Cron} -> Run]
    /\ failures \in 0..MaxFailures

\* A donor who has been sent to n1co cannot begin a payment at Wompi any more,
\* and the order he was sent to is the one the row keeps for good: the only
\* one a webhook, a poll or the cron will ever ask n1co about.  Requests that
\* prepare an order, mint another and switch may overlap (the order of calls in
\* handleDonationIntentN1co, COALESCE in switchIntentToN1co, the guard of
\* prepareIntentN1coLink, which the trigger on the order's identity backs).
OneWayToPay ==
    \A o \in Orders \cap shown :
        /\ link[Wompi] # "open"
        /\ intent.provider = "N1CO" /\ intent.order = o

\* A payment nobody told of stays within the cron's sight, whatever the donor,
\* overlapping requests and expiry do to the row, unless the donor has paid both
\* ways: no webhook need arrive and no donor come back (the two lists of
\* reconcileMissingWompiCallbacks and reconcileMissingN1coCallbacks).
PaymentIsInSight ==
    \A w \in paid :
        events[w] = "none" /\ paid = {w} =>
            \/ w = Wompi /\ CronAsksWompi
            \/ w \in Orders /\ CronAsksN1co(w)

=============================================================================
