-------------------------- MODULE StripeCheckouts --------------------------
(***************************************************************************)
(* The creation of a donor's Stripe Checkout session: POST                 *)
(* /api/stripe/checkout (handleCreateStripeCheckout) under double clicks,  *)
(* retries, lost answers of Stripe, failed statements and dying handlers,  *)
(* beside the webhook that attaches a session it finds unattached, the     *)
(* status page that does the same, and the sweep of expired claims.        *)
(*                                                                         *)
(* A call is one POST of a donor's request id.  Before a new row may reach *)
(* Stripe the call must claim a place in the rolling creation budget; the  *)
(* three limits (client, provider, site) are one count here, of one client.*)
(* Time is in ticks of the 5 minute lease of a creation attempt; an age    *)
(* of Window ticks stands for all the older ones.                          *)
(*                                                                         *)
(* A session of Stripe is named by its idempotency key, the request's      *)
(* generation, and by the fingerprint of the parameters and configuration  *)
(* it was made with: under another configuration the key does not protect. *)
(***************************************************************************)
EXTENDS Naturals, FiniteSets

CONSTANTS Requests,      \* request ids, one per donation a donor starts
          Others,        \* requests of the same client that meet no incident
          Calls,         \* POSTs that may be in flight at a time
          Fingerprints,  \* the configurations that serve during a rollout
          ClaimIds,      \* ids of provider_creation_claims, recycled when unused
          Limit,         \* the creation budget
          Window,        \* INTENT_THROTTLE_WINDOW_MINUTES in ticks
          MaxAttempts,   \* creation_attempt_count < MaxAttempts
          NULL

ASSUME LimitsArePositive == Limit \in Nat \ {0} /\ Window \in Nat \ {0} /\ MaxAttempts \in Nat \ {0}

ASSUME OthersAreOther == Requests \cap Others = {}

\* More ids than the calls in flight and the two rows of a request can hold, so
\* that a new one is always at hand (the code takes a random UUID).
ASSUME EnoughClaimIds ==
    /\ ClaimIds \subseteq Nat /\ IsFiniteSet(ClaimIds) /\ IsFiniteSet(Calls)
    /\ Cardinality(ClaimIds) > 2 * Cardinality(Calls) + 2

Claimants == Requests \cup Others

Sessions == (1..MaxAttempts) \X Fingerprints

ASSUME NullIsNoName == NULL \notin ClaimIds \cup Sessions

\* stale is updated_at < now - lease; event is checkout_event_created > 0;
\* CLOSED stands for COMPLETE and EXPIRED, which this handler treats alike.
StripeCheckoutRecord ==
    [status     : {"NONE", "CREATING", "OPEN", "CLOSED", "FAILED"},
     outcome    : {"NONE", "DEFINITE_FAILURE", "AMBIGUOUS"},
     generation : 1..MaxAttempts,
     attempts   : 1..MaxAttempts,
     fp         : Fingerprints \cup {NULL},
     session    : Sessions \cup {NULL},
     claim      : ClaimIds \cup {NULL},
     stale      : BOOLEAN,
     event      : BOOLEAN]

NoCheckout == [status |-> "NONE", outcome |-> "NONE", generation |-> 1, attempts |-> 1,
               fp |-> NULL, session |-> NULL, claim |-> NULL, stale |-> FALSE,
               event |-> FALSE]

ProviderCreationClaim == [id : ClaimIds \cup {NULL}, age : 0..Window]

NoClaim == [id |-> NULL, age |-> Window]

\* generation and expected are what the call has read of the row: its
\* idempotency_generation and provider_creation_claim_id.  claimed tells a new
\* claim from one it found (DUPLICATE).
CallState == [pc : {"idle", "budget", "concurrent", "reserve", "reserve_throws", "release",
                    "retry_budget", "reclaim", "lost", "existing",
                    "create", "attach", "refused", "ambiguous"},
              request    : Requests \cup {NULL},
              fp         : Fingerprints \cup {NULL},
              generation : 1..MaxAttempts,
              expected   : ClaimIds \cup {NULL},
              claim      : ClaimIds \cup {NULL},
              claimed    : BOOLEAN]

IdleCall == [pc |-> "idle", request |-> NULL, fp |-> NULL, generation |-> 1,
             expected |-> NULL, claim |-> NULL, claimed |-> FALSE]

VARIABLES
    stripe_checkout_sessions,  \* the table: Requests -> StripeCheckoutRecord
    provider_creation_claims,  \* the table: Claimants -> ProviderCreationClaim
    call,                      \* handlers in flight
    sessions,                  \* Stripe: the sessions made for each request
    handed,                    \* those given to a donor once attached (history)
    refusals,                  \* requests Stripe has definitely refused (history)
    admitted                   \* age of the claim under which a request last got a key (history)

vars == <<stripe_checkout_sessions, provider_creation_claims, call, sessions, handed,
          refusals, admitted>>

history == <<handed, refusals, admitted>>

Init ==
    /\ stripe_checkout_sessions = [q \in Requests |-> NoCheckout]
    /\ provider_creation_claims = [q \in Claimants |-> NoClaim]
    /\ call = [c \in Calls |-> IdleCall]
    /\ sessions = [q \in Requests |-> {}]
    /\ handed = [q \in Requests |-> {}]
    /\ refusals = {}
    /\ admitted = [q \in Claimants |-> Window]

-----------------------------------------------------------------------------
(* Statements on provider_creation_claims.                                 *)

\* Claim ids are only compared within a request.
FreshClaimId(q) ==
    LET used == (UNION {{call[c].claim, call[c].expected} : c \in {d \in Calls : call[d].request = q}})
                \cup {stripe_checkout_sessions[q].claim, provider_creation_claims[q].id} IN
    CHOOSE i \in ClaimIds \ used : \A j \in ClaimIds \ used : i <= j

Expired(claim) == claim.age = Window

Counted(q) ==
    {o \in Claimants \ {q} : provider_creation_claims[o].id # NULL /\ ~Expired(provider_creation_claims[o])}

\* INSERT ... ON CONFLICT: a new claim, or the expired one of this request,
\* which keeps its id.
claimProviderCreationBudgetEnabled(q) ==
    /\ Cardinality(Counted(q)) < Limit
    /\ Expired(provider_creation_claims[q])

claimProviderCreationBudget(q, fresh) ==
    [id |-> IF provider_creation_claims[q].id = NULL THEN fresh ELSE provider_creation_claims[q].id,
     age |-> 0]

\* The SELECT that tells DUPLICATE from LIMITED.
Duplicate(q) == provider_creation_claims[q].id # NULL /\ ~Expired(provider_creation_claims[q])

\* A bug for the mutation test: the release does not look for the checkout.
ReleasesAttached(q, id) == provider_creation_claims[q].id = id

releaseUnusedProviderCreationClaimEnabled(q, id) ==
    /\ provider_creation_claims[q].id = id
    /\ stripe_checkout_sessions[q].claim # id

-----------------------------------------------------------------------------
(* Statements on stripe_checkout_sessions.                                 *)

reserveStripeCheckout(fp, claim) ==
    [NoCheckout EXCEPT !.status = "CREATING", !.fp = fp, !.claim = claim]

attachStripeCheckoutSession(row, s) ==
    IF row.session # NULL THEN row
    ELSE [row EXCEPT !.session = s,
                     !.status = IF @ = "CREATING" THEN "OPEN" ELSE @,
                     !.outcome = IF row.status = "CREATING" THEN "NONE" ELSE @,
                     !.stale = FALSE]

failStripeCheckoutCreationEnabled(row) == row.status = "CREATING" /\ row.session = NULL

failStripeCheckoutCreation(row, outcome) ==
    [row EXCEPT !.status = "FAILED", !.outcome = outcome, !.stale = FALSE]

\* A bug for the mutation test: retries of a refused request are not counted.
ReclaimsForever(row, expected, generation) ==
    /\ row.claim = expected /\ row.generation = generation
    /\ row.status = "FAILED" /\ row.outcome = "DEFINITE_FAILURE"
    /\ row.session = NULL

\* With the admission of a definite failure: compare-and-set on the claim and
\* the generation the call has read.
reclaimRefusedEnabled(row, expected, generation) ==
    /\ row.claim = expected /\ row.generation = generation
    /\ row.status = "FAILED" /\ row.outcome = "DEFINITE_FAILURE"
    /\ row.session = NULL /\ row.attempts < MaxAttempts

reclaimRefused(row, fp, claim) ==
    [row EXCEPT !.fp = fp, !.status = "CREATING", !.attempts = @ + 1, !.generation = @ + 1,
                !.outcome = "NONE", !.claim = claim, !.stale = FALSE]

reclaimIndeterminateEnabled(row, fp) ==
    /\ row.session = NULL /\ row.attempts < MaxAttempts
    /\ row.outcome # "DEFINITE_FAILURE" /\ row.fp = fp
    /\ row.status = "FAILED" \/ (row.status = "CREATING" /\ row.stale)

\* A bug for the mutation test: an attempt whose outcome is unknown is
\* repeated under a new idempotency key.
ReclaimsUnderNewKey(row) ==
    [row EXCEPT !.status = "CREATING", !.attempts = @ + 1, !.generation = @ + 1, !.stale = FALSE]

reclaimIndeterminate(row) ==
    [row EXCEPT !.status = "CREATING", !.attempts = @ + 1, !.stale = FALSE]

-----------------------------------------------------------------------------
(* How a step moves its call.                                              *)

At(c, pc) == call[c].pc = pc

Q(c) == call[c].request

Row(c) == stripe_checkout_sessions[Q(c)]

SetRow(q, row) == stripe_checkout_sessions' = [stripe_checkout_sessions EXCEPT ![q] = row]

SetClaim(q, claim) == provider_creation_claims' = [provider_creation_claims EXCEPT ![q] = claim]

Goto(c, pc) == call' = [call EXCEPT ![c].pc = pc]

\* What is left of a call that only answers with the row as it is.
Answering(q) == [IdleCall EXCEPT !.pc = "existing", !.request = q]

Answer(c) == call' = [call EXCEPT ![c] = Answering(Q(c))]

\* A call that owns the row goes to Stripe with its generation.
Own(c, row, fp) ==
    call' = [call EXCEPT ![c] =
               [IdleCall EXCEPT !.pc = "create", !.request = Q(c), !.fp = fp,
                                !.generation = row.generation]]

Return(c) == call' = [call EXCEPT ![c] = IdleCall]

\* The request gets a key under a claim that is this old.
Admit(c) ==
    LET claim == provider_creation_claims[Q(c)] IN
    admitted' = [admitted EXCEPT ![Q(c)] =
                   IF claim.id = call[c].claim THEN claim.age ELSE Window]

-----------------------------------------------------------------------------
(* prepareExistingStripeCheckoutCreation, as far as the row it is given.   *)

hasStripeCheckoutProviderTerminalEvent(row) == row.session # NULL /\ row.event

Refused(row) == row.status = "FAILED" /\ row.outcome = "DEFINITE_FAILURE"

Answerable(row) ==
    \/ row.status \notin {"FAILED", "CREATING"}
    \/ row.status = "FAILED" /\ hasStripeCheckoutProviderTerminalEvent(row)

\* The parameters are rebuilt under the configuration of now; only a definite
\* failure may be tried again with others.
Retrying(q, row, fp) ==
    CASE row.fp # fp /\ row.outcome # "DEFINITE_FAILURE" -> IdleCall
      [] row.fp = fp /\ ~Refused(row) ->
            [IdleCall EXCEPT !.pc = "reclaim", !.request = q, !.fp = fp]
      [] OTHER ->
            [IdleCall EXCEPT !.pc = "retry_budget", !.request = q, !.fp = fp,
                             !.generation = row.generation, !.expected = row.claim]

\* Calls of one request id carry the same amount, frequency and purpose.
Plan(c, q) ==
    LET row == stripe_checkout_sessions[q] IN
    \E fp \in Fingerprints :
        call' = [call EXCEPT ![c] = IF Answerable(row) THEN Answering(q) ELSE Retrying(q, row, fp)]

-----------------------------------------------------------------------------
(* The steps of handleCreateStripeCheckout.                                *)

Start(c) ==
    /\ At(c, "idle")
    /\ \E q \in Requests :
          IF stripe_checkout_sessions[q].status = "NONE"
          THEN call' = [call EXCEPT ![c] = [IdleCall EXCEPT !.pc = "budget", !.request = q]]
          ELSE Plan(c, q)
    /\ UNCHANGED <<stripe_checkout_sessions, provider_creation_claims, sessions, history>>

ClaimBudget(c, next) ==
    LET q == Q(c) IN
    /\ claimProviderCreationBudgetEnabled(q)
    /\ SetClaim(q, claimProviderCreationBudget(q, FreshClaimId(q)))
    /\ call' = [call EXCEPT ![c].pc = next, ![c].claimed = TRUE,
                            ![c].claim = claimProviderCreationBudget(q, FreshClaimId(q)).id]
    /\ UNCHANGED <<stripe_checkout_sessions, sessions, history>>

Limited(c) ==
    /\ ~claimProviderCreationBudgetEnabled(Q(c)) /\ ~Duplicate(Q(c))
    /\ Return(c)
    /\ UNCHANGED <<stripe_checkout_sessions, provider_creation_claims, sessions, history>>

Budget(c) ==
    /\ At(c, "budget")
    /\ \/ ClaimBudget(c, "reserve")
       \/ Limited(c)
       \/ /\ ~claimProviderCreationBudgetEnabled(Q(c)) /\ Duplicate(Q(c))
          /\ Goto(c, "concurrent")
          /\ UNCHANGED <<stripe_checkout_sessions, provider_creation_claims, sessions, history>>

Concurrent(c) ==
    /\ At(c, "concurrent")
    /\ IF Row(c).status = "NONE" THEN Return(c) ELSE Plan(c, Q(c))
    /\ UNCHANGED <<stripe_checkout_sessions, provider_creation_claims, sessions, history>>

\* The statement may fail before or after it has taken effect.
Reserve(c) ==
    /\ At(c, "reserve")
    /\ UNCHANGED <<provider_creation_claims, sessions, handed, refusals>>
    /\ \/ /\ Row(c).status = "NONE"
          /\ Admit(c)
          /\ \E fp \in Fingerprints :
                LET row == reserveStripeCheckout(fp, call[c].claim) IN
                /\ SetRow(Q(c), row)
                /\ \/ Own(c, row, fp)
                   \/ Goto(c, "reserve_throws")
       \/ /\ Row(c).status # "NONE"
          /\ Goto(c, "release")
          /\ UNCHANGED <<stripe_checkout_sessions, admitted>>
       \/ /\ Goto(c, "reserve_throws")
          /\ UNCHANGED <<stripe_checkout_sessions, admitted>>

ReleaseClaim(c) ==
    IF releaseUnusedProviderCreationClaimEnabled(Q(c), call[c].claim)
    THEN SetClaim(Q(c), NoClaim)
    ELSE UNCHANGED provider_creation_claims

\* A claim of no use to the call is given back: another call made the row, or
\* the insert threw.  (The call plans with the row Reserve found; the DELETE
\* does not touch it.)
Release(c) ==
    /\ call[c].pc \in {"release", "reserve_throws"}
    /\ ReleaseClaim(c)
    /\ IF At(c, "release") THEN Plan(c, Q(c)) ELSE Return(c)
    /\ UNCHANGED <<stripe_checkout_sessions, sessions, history>>

RetryBudget(c) ==
    LET claim == provider_creation_claims[Q(c)] IN
    /\ At(c, "retry_budget")
    /\ \/ ClaimBudget(c, "reclaim")
       \/ Limited(c)
       \/ /\ ~claimProviderCreationBudgetEnabled(Q(c)) /\ Duplicate(Q(c))
          /\ IF claim.id = call[c].expected
             THEN call' = [call EXCEPT ![c].pc = "reclaim", ![c].claim = claim.id]
             ELSE Return(c)
          /\ UNCHANGED <<stripe_checkout_sessions, provider_creation_claims, sessions, history>>

\* The call's claim is NULL unless it retries a definite failure.
Reclaim(c) ==
    LET won(row) == /\ SetRow(Q(c), row)
                    /\ Own(c, row, call[c].fp) IN
    /\ At(c, "reclaim")
    /\ IF call[c].claim # NULL
       THEN IF reclaimRefusedEnabled(Row(c), call[c].expected, call[c].generation)
            THEN won(reclaimRefused(Row(c), call[c].fp, call[c].claim)) /\ Admit(c)
            ELSE /\ IF call[c].claimed THEN Goto(c, "lost") ELSE Answer(c)
                 /\ UNCHANGED <<stripe_checkout_sessions, admitted>>
       ELSE /\ IF reclaimIndeterminateEnabled(Row(c), call[c].fp)
               THEN won(reclaimIndeterminate(Row(c)))
               ELSE Answer(c) /\ UNCHANGED stripe_checkout_sessions
            /\ UNCHANGED admitted
    /\ UNCHANGED <<provider_creation_claims, sessions, handed, refusals>>

\* releaseLostStripeRetryClaim gives up after two failures.
ReleaseLost(c) ==
    /\ At(c, "lost")
    /\ ReleaseClaim(c) \/ UNCHANGED provider_creation_claims
    /\ Answer(c)
    /\ UNCHANGED <<stripe_checkout_sessions, sessions, history>>

\* An open session is read from Stripe and given again, unless the budget of
\* recovery reads or Stripe refuses.
Existing(c) ==
    LET row == Row(c) IN
    /\ At(c, "existing")
    /\ \/ UNCHANGED handed
       \/ /\ row.status = "OPEN" /\ row.session # NULL
          /\ handed' = [handed EXCEPT ![Q(c)] = @ \cup {row.session}]
    /\ Return(c)
    /\ UNCHANGED <<stripe_checkout_sessions, provider_creation_claims, sessions,
                   refusals, admitted>>

-----------------------------------------------------------------------------
(* Stripe, and what the call does with its answer.                         *)

Key(c) == <<call[c].generation, call[c].fp>>

\* Stripe makes one session per key.  Its answer may be lost with or without
\* effect; it refuses only a request it has not granted under the same key.
Create(c) ==
    /\ At(c, "create")
    /\ \/ /\ sessions' = [sessions EXCEPT ![Q(c)] = @ \cup {Key(c)}]
          /\ Goto(c, "attach") \/ Goto(c, "ambiguous")
          /\ UNCHANGED refusals
       \/ /\ Goto(c, "ambiguous")
          /\ UNCHANGED <<sessions, refusals>>
       \/ /\ Key(c) \notin sessions[Q(c)]
          /\ Goto(c, "refused")
          /\ refusals' = refusals \cup {Q(c)}
          /\ UNCHANGED sessions
    /\ UNCHANGED <<stripe_checkout_sessions, provider_creation_claims, handed, admitted>>

Fail(c) ==
    /\ call[c].pc \in {"refused", "ambiguous"}
    /\ IF failStripeCheckoutCreationEnabled(Row(c))
       THEN SetRow(Q(c), failStripeCheckoutCreation(Row(c),
              IF At(c, "refused") THEN "DEFINITE_FAILURE" ELSE "AMBIGUOUS"))
       ELSE UNCHANGED stripe_checkout_sessions
    /\ Return(c)
    /\ UNCHANGED <<provider_creation_claims, sessions, history>>

\* The session goes to the donor when it is the one attached, and also when
\* the statement throws, with or without effect.
Attach(c) ==
    LET row == attachStripeCheckoutSession(Row(c), Key(c)) IN
    /\ At(c, "attach")
    /\ \/ /\ SetRow(Q(c), row)
          /\ handed' = [handed EXCEPT ![Q(c)] = @ \cup ({Key(c)} \cap {row.session})]
       \/ /\ stripe_checkout_sessions' = [stripe_checkout_sessions EXCEPT ![Q(c)] = row]
              \/ UNCHANGED stripe_checkout_sessions
          /\ UNCHANGED handed
    /\ Return(c)
    /\ UNCHANGED <<provider_creation_claims, sessions, refusals, admitted>>

-----------------------------------------------------------------------------
(* The rest of the system.                                                 *)

\* A webhook event of a session, or the donor's status page, finds the row by
\* the session or, unattached, by the checkout id in its metadata, and
\* attaches it.  An event then moves the row; payment is final.
ProviderEvent(q) ==
    \E s \in sessions[q], status \in {"OPEN", "CLOSED", "FAILED"} :
        LET row == attachStripeCheckoutSession(stripe_checkout_sessions[q], s) IN
        /\ row.session = s
        /\ SetRow(q, IF status = "OPEN" \/ row.status = "CLOSED" THEN row
                     ELSE [row EXCEPT !.status = status, !.event = TRUE])
        /\ UNCHANGED <<provider_creation_claims, call, sessions, history>>

\* Another donation of the client claims its place and gets its session.
OtherDonation(q) ==
    /\ claimProviderCreationBudgetEnabled(q)
    /\ SetClaim(q, claimProviderCreationBudget(q, CHOOSE id \in ClaimIds : TRUE))
    /\ admitted' = [admitted EXCEPT ![q] = 0]
    /\ UNCHANGED <<stripe_checkout_sessions, call, sessions, handed, refusals>>

\* deleteExpiredSecurityRateLimitClaims, from the cron.
Sweep(q) ==
    /\ provider_creation_claims[q].id # NULL /\ Expired(provider_creation_claims[q])
    /\ SetClaim(q, NoClaim)
    /\ UNCHANGED <<stripe_checkout_sessions, call, sessions, history>>

Older(age) == IF age < Window THEN age + 1 ELSE age

\* A lease passes.  A call that has Stripe's answer writes it before.
Tick ==
    /\ \A c \in Calls : call[c].pc \notin {"attach", "refused", "ambiguous"}
    /\ stripe_checkout_sessions' = [q \in Requests |->
          [stripe_checkout_sessions[q] EXCEPT !.stale = stripe_checkout_sessions[q].status = "CREATING"]]
    /\ provider_creation_claims' = [q \in Claimants |->
          [provider_creation_claims[q] EXCEPT !.age = Older(@)]]
    /\ admitted' = [q \in Claimants |-> Older(admitted[q])]
    /\ UNCHANGED <<call, sessions, handed, refusals>>

\* The isolate dies, or a statement outside the handler's try blocks throws.
Crash(c) ==
    /\ ~At(c, "idle")
    /\ Return(c)
    /\ UNCHANGED <<stripe_checkout_sessions, provider_creation_claims, sessions, history>>

Step(c) ==
    \/ Start(c) \/ Budget(c) \/ Concurrent(c) \/ Reserve(c) \/ Release(c)
    \/ RetryBudget(c) \/ Reclaim(c) \/ ReleaseLost(c) \/ Existing(c)
    \/ Create(c) \/ Fail(c) \/ Attach(c) \/ Crash(c)

Next ==
    \/ \E c \in Calls : Step(c)
    \/ \E q \in Requests : ProviderEvent(q)
    \/ \E q \in Others : OtherDonation(q)
    \/ \E q \in Claimants : Sweep(q)
    \/ Tick

Spec == Init /\ [][Next]_vars

-----------------------------------------------------------------------------

\* Every variable has its type.
TypeOK ==
    /\ stripe_checkout_sessions \in [Requests -> StripeCheckoutRecord]
    /\ provider_creation_claims \in [Claimants -> ProviderCreationClaim]
    /\ call \in [Calls -> CallState]
    /\ sessions \in [Requests -> SUBSET Sessions]
    /\ handed \in [Requests -> SUBSET Sessions]
    /\ refusals \subseteq Requests
    /\ admitted \in [Claimants -> 0..Window]

\* A donation is never offered as two payable sessions.  The sessions a call
\* gives out after attaching them are one, whatever happens; and unless
\* Stripe has definitely refused one of the request's calls, Stripe has made
\* one session at most, however many answers were lost and however often the
\* configuration changed, so that a failed attach is harmless too
\* (handleCreateStripeCheckout's retry of an ambiguous outcome).
OneSessionPerDonation ==
    \A q \in Requests :
        /\ Cardinality(handed[q]) <= 1
        /\ q \notin refusals => Cardinality(sessions[q]) <= 1

\* In any window of the budget at most Limit requests get a key for Stripe,
\* although claims are given back, taken over by a retry, and swept
\* (claimProviderCreationBudget, releaseUnusedProviderCreationClaim).
AdmittedWithinBudget ==
    Cardinality({q \in Claimants : admitted[q] < Window}) <= Limit

=============================================================================
