---------------------- MODULE IntentsAndAccountsProofs ----------------------
(***************************************************************************)
(* Proofs about the two components that requests of the web write without  *)
(* a claim.  First DonationIntents, for any number of requests that        *)
(* overlap with the cron and any number of n1co orders; then Accounts,     *)
(* which shares no variable with it, for any number of requests, addresses, *)
(* reset tokens and challenges, and every limit of sessions and of wrong   *)
(* codes.                                                                  *)
(***************************************************************************)
EXTENDS DonationIntents, Accounts, FiniteSetTheorems, SequenceTheorems, WellFoundedInduction, TLAPS

-----------------------------------------------------------------------------
(* The inductive invariant.                                                *)

Invocations == Requests \cup {Cron}

\* The request that creates the intent is alone until it has a link to attach:
\* nothing has been shown, so nobody can pay, switch or finalize.
Creating(r) ==
    /\ intent.provider = "WOMPI" /\ intent.status \in {"PENDING", "EXPIRED"}
    /\ ~intent.link /\ intent.order = NULL
    /\ shown = {}
    /\ \A q \in Invocations \ {r} : run[q] = Idle

\* What an invocation knows at each point of its handler.
RunKnows(r) ==
    /\ run[r].pc # "idle" => intent # NULL
    /\ run[r].pc \in {"mint_wompi", "attach_wompi", "mint_n1co", "attach_n1co"} => Creating(r)
    /\ run[r].pc = "mint_wompi" => link[Wompi] = "none"
    /\ run[r].pc = "attach_wompi" => link[Wompi] # "none"
    /\ run[r].pc \in {"mint_n1co", "attach_n1co"} => link[Wompi] = "none" /\ ~intent.draft
    /\ run[r].pc \in {"store", "attach_n1co", "deactivate", "ask", "switch"} =>
         run[r].way \in Orders /\ link[run[r].way] # "none"
    /\ run[r].pc \in {"ask", "switch"} => link[Wompi] = "closed"
    /\ run[r].pc \in {"bind", "mark", "complete"} =>
         run[r].way \in Ways /\ events[run[r].way] # "none"

\* How the columns of the row go with the links and with what was shown.
RowKnows ==
    /\ intent.link => link[Wompi] # "none"
    /\ intent.order # NULL => link[intent.order] # "none"
    /\ intent.provider = "N1CO" =>
         /\ intent.order # NULL /\ link[Wompi] # "open"
         /\ ~intent.draft /\ intent.status # "PENDING"
    /\ intent.provider = "WOMPI" /\ intent.status = "LINK_CREATED" => intent.link
    /\ Wompi \in shown => intent.link /\ intent.status # "PENDING"
    /\ \A o \in Orders \cap shown : intent.provider = "N1CO" /\ intent.order = o
    /\ intent.paid \/ intent.status = "COMPLETED" => \E w \in Ways : events[w] # "none"

\* Before there is a row nothing has happened.
NothingYet ==
    /\ shown = {} /\ link[Wompi] = "none"
    /\ \A r \in Invocations : run[r] = Idle

OneGift ==
    /\ IF intent = NULL THEN NothingYet ELSE RowKnows
    /\ \A r \in Invocations : RunKnows(r)
    /\ \A w \in Ways : events[w] # "none" => w \in paid

IInv == TypeOK /\ OneGift

-----------------------------------------------------------------------------
(* Type correctness.                                                       *)

\* Moving on to a known point, or ending, keeps the invocations well-typed.
LEMMA RunTypes ==
    ASSUME TypeOK, NEW r \in Invocations
    PROVE  /\ Ends(r) => run' \in [Invocations -> Run]
           /\ \A w \in Ways \cup {NULL} :
                \A pc \in {"mint_wompi", "attach_wompi", "prepare", "store", "mint_n1co",
                           "attach_n1co", "deactivate", "ask", "switch", "bind", "mark",
                           "close", "complete"} :
                  Goes(r, pc, w) => run' \in [Invocations -> Run]
<1>1. Idle \in Run
  BY DEF Idle, Run
<1>2. ASSUME NEW pc, NEW w \in Ways \cup {NULL}, Goes(r, pc, w),
             [pc |-> pc, way |-> w] \in Run
      PROVE  run' \in [Invocations -> Run]
  BY <1>2 DEF TypeOK, Goes, Invocations
<1> QED BY <1>1, <1>2 DEF TypeOK, Ends, Invocations, Run

\* Every step keeps the types, and shows only addresses that exist.
LEMMA TypeStep == IInv /\ [Next]_vars => TypeOK'
<1> SUFFICES ASSUME TypeOK, OneGift, [Next]_vars PROVE TypeOK'
  BY DEF IInv
<1> USE Names, NullIsNoRow DEF outside
<1>w. Wompi \in Ways /\ Orders \subseteq Ways
  BY DEF Ways
<1>t. /\ intent \in IntentRow \cup {NULL} /\ link \in [Ways -> {"none", "open", "closed"}]
      /\ events \in [Ways -> {"none", "stored", "issued", "quarantined"}]
      /\ run \in [Invocations -> Run] /\ late \in BOOLEAN /\ failures \in 0..MaxFailures
      /\ paying \subseteq shown /\ paid \subseteq shown
      /\ shown \subseteq {w \in Ways : link[w] # "none"}
  BY DEF TypeOK, Invocations
<1>a. ASSUME NEW r \in Invocations, Step(r) \/ Fail(r) PROVE TypeOK'
  <2>k. RunKnows(r) /\ run[r].way \in Ways \cup {NULL}
    BY <1>t DEF OneGift, Run
  <2>i. run[r].pc # "idle" => intent \in IntentRow /\ RowKnows
    BY <2>k, <1>t DEF RunKnows, OneGift
  <2> USE <1>w, <1>t, <2>k, <2>i, RunTypes
  <2>1. CASE createPaymentLink(r)
    BY <2>1 DEF createPaymentLink, TypeOK, Invocations
  <2>2. CASE attachIntentLink(r)
    <3>1. intent' \in IntentRow
      BY <2>2 DEF attachIntentLink, At, IntentRow
    <3>2. link[Wompi] # "none" /\ run' \in [Invocations -> Run]
      BY <2>2 DEF attachIntentLink, At, RunKnows
    <3> QED BY <2>2, <3>1, <3>2 DEF attachIntentLink, TypeOK, Invocations, Sends
  <2>3. CASE prepareN1coLink(r)
    BY <2>3 DEF prepareN1coLink, TypeOK, Invocations, Mint
  <2>4. CASE prepareIntentN1coLink(r)
    BY <2>4 DEF prepareIntentN1coLink, TypeOK, Invocations, RunKnows, At, IntentRow
  <2>5. CASE createCheckoutLink(r)
    BY <2>5 DEF createCheckoutLink, TypeOK, Invocations, Mint
  <2>6. CASE attachIntentN1coLink(r)
    <3>1. run[r].way \in Ways /\ run' \in [Invocations -> Run]
      BY <2>6 DEF attachIntentN1coLink, At, RunKnows, Invocations
    <3>2. intent' \in IntentRow \cup {NULL}
      <4>1. run[r].way \in Orders /\ intent \in IntentRow
        BY <2>6 DEF attachIntentN1coLink, At, RunKnows
      <4>2. [intent EXCEPT !.provider = "N1CO", !.order = run[r].way,
                           !.status = "LINK_CREATED"] \in IntentRow
        BY <4>1 DEF IntentRow
      <4> QED BY <2>6, <4>1, <4>2 DEF attachIntentN1coLink
    <3>3. shown \subseteq shown' /\ shown' \subseteq {w \in Ways : link[w] # "none"}
      BY <2>6, <3>1 DEF attachIntentN1coLink, At, RunKnows, Sends
    <3> QED BY <2>6, <3>1, <3>2, <3>3 DEF attachIntentN1coLink, TypeOK, Invocations
  <2>7. CASE deactivatePaymentLink(r)
    BY <2>7 DEF deactivatePaymentLink, TypeOK, Invocations, RunKnows, At, DeactivatedLinks
  <2>8. CASE getPaymentLink(r)
    BY <2>8 DEF getPaymentLink, TypeOK, Invocations
  <2>9. CASE switchIntentToN1co(r)
    <3>1. ASSUME NEW order \in Orders, link[order] # "none", Sends(order),
                 intent' = [intent EXCEPT !.provider = "N1CO", !.order = order],
                 switchIntentToN1co(r)
          PROVE  TypeOK'
      <4>1. intent' \in IntentRow
        BY <3>1 DEF switchIntentToN1co, At, IntentRow
      <4>2. run' \in [Invocations -> Run]
        BY <3>1 DEF switchIntentToN1co
      <4> QED BY <3>1, <4>1, <4>2 DEF switchIntentToN1co, TypeOK, Invocations, Sends
    <3>2. intent.order # NULL => intent.order \in Orders /\ link[intent.order] # "none"
      BY <2>9 DEF switchIntentToN1co, At, RowKnows, IntentRow
    <3>3. run[r].way \in Orders /\ link[run[r].way] # "none"
      BY <2>9 DEF switchIntentToN1co, At, RunKnows
    <3>4. CASE MaySwitch
      BY <2>9, <3>1, <3>2, <3>3, <3>4 DEF switchIntentToN1co
    <3>5. CASE ~MaySwitch
      BY <2>9, <3>5 DEF switchIntentToN1co, TypeOK, Invocations
    <3> QED BY <3>4, <3>5
  <2>10. CASE resolveDonationIntentBinding(r)
    BY <2>10 DEF resolveDonationIntentBinding, TypeOK, Invocations
  <2>11. CASE markIntentPaid(r)
    BY <2>11 DEF markIntentPaid, TypeOK, Invocations, At, IntentRow
  <2>12. CASE completeIntentForPostAcceptOwner(r)
    BY <2>12 DEF completeIntentForPostAcceptOwner, TypeOK, Invocations, At, IntentRow
  <2>13. CASE Fail(r)
    BY <2>13, MaxFailuresAssumption DEF Fail, TypeOK, Invocations
  <2> QED BY <1>a, <2>1, <2>2, <2>3, <2>4, <2>5, <2>6, <2>7, <2>8, <2>9, <2>10, <2>11, <2>12,
             <2>13 DEF Step
<1>b. ASSUME NEW r \in Requests, createDonationIntent(r) PROVE TypeOK'
  <2>1. intent' \in IntentRow
    BY <1>b DEF createDonationIntent, IntentRow
  <2>2. run' \in [Invocations -> Run]
    BY <1>b, RunTypes DEF createDonationIntent, Invocations
  <2> QED BY <1>b, <1>t, <2>1, <2>2 DEF createDonationIntent, TypeOK, Invocations
<1>c. ASSUME NEW r \in Requests, handleDonationIntentN1co(r) PROVE TypeOK'
  <2>1. intent.order \in Orders \cup {NULL}
    BY <1>c, <1>t DEF handleDonationIntentN1co, IntentRow
  <2>2. run' \in [Invocations -> Run]
    BY <1>c, <1>w, <2>1, RunTypes DEF handleDonationIntentN1co, Invocations
  <2> QED BY <1>c, <1>t, <1>w, <2>2 DEF handleDonationIntentN1co, TypeOK, Invocations, Mint
<1>d. ASSUME NEW r \in Invocations, NEW w \in Ways, Ingest(r, w) PROVE TypeOK'
  <2>1. run' \in [Invocations -> Run]
    BY <1>d, RunTypes DEF Ingest
  <2> QED BY <1>d, <1>t, <2>1 DEF Ingest, TypeOK, Invocations
<1>e. ASSUME NEW r \in Requests, NEW w \in Ways, finalizeAcceptedDocument(r, w) PROVE TypeOK'
  <2>1. run' \in [Invocations -> Run]
    BY <1>e, RunTypes DEF finalizeAcceptedDocument, Invocations
  <2> QED BY <1>e, <1>t, <2>1 DEF finalizeAcceptedDocument, TypeOK, Invocations
<1>f. CASE applyIntentDatosWithCapability
  <2>1. intent \in IntentRow /\ RowKnows
    BY <1>f, <1>t DEF applyIntentDatosWithCapability, OneGift
  <2>2. intent' \in IntentRow
    BY <1>f, <2>1 DEF applyIntentDatosWithCapability, IntentRow
  <2>3. link[Wompi] # "none"
    BY <1>f, <2>1 DEF applyIntentDatosWithCapability, TakesData, RowKnows, IntentRow
  <2> QED BY <1>f, <1>t, <1>w, <2>2, <2>3
          DEF applyIntentDatosWithCapability, TypeOK, Invocations, Sends
<1>g. CASE SendAgain
  <2>1. intent \in IntentRow /\ RowKnows
    BY <1>g, <1>t DEF SendAgain, OneGift
  <2>2. intent.order \in Ways /\ link[intent.order] # "none"
    BY <1>g, <1>w, <2>1 DEF SendAgain, RowKnows, IntentRow
  <2> QED BY <1>g, <1>t, <2>2 DEF SendAgain, TypeOK, Invocations, Sends
<1>h. ASSUME NEW w \in Ways,
             BeginPayment(w) \/ EndPayment(w) \/ LinkExpires(w) \/ correlateIntent(w)
      PROVE  TypeOK'
  BY <1>h, <1>t DEF BeginPayment, EndPayment, LinkExpires, correlateIntent, TypeOK, Invocations
<1>i. CASE HourPasses
  BY <1>i, <1>t DEF HourPasses, TypeOK, Invocations
<1>j. CASE expireDonationIntentsByIds
  <2>1. intent' \in IntentRow
    BY <1>j, <1>t DEF expireDonationIntentsByIds, IntentRow
  <2>2. run' \in [Invocations -> Run]
    BY <1>j, <1>t, <1>w, RunTypes DEF expireDonationIntentsByIds, Invocations
  <2> QED BY <1>j, <1>t, <2>1, <2>2 DEF expireDonationIntentsByIds, TypeOK, Invocations
<1>k. CASE CloseExpired
  <2>1. run' \in [Invocations -> Run]
    BY <1>k, RunTypes DEF CloseExpired, Invocations
  <2> QED BY <1>k, <1>t, <2>1 DEF CloseExpired, TypeOK, Invocations
<1>l. CASE UNCHANGED vars
  BY <1>l, <1>t DEF vars, TypeOK, Invocations
<1>m. ASSUME NEW r \in Requests, handleWompiWebhook(r) PROVE TypeOK'
  BY <1>m, <1>w, <1>d DEF handleWompiWebhook, Invocations
<1>n. ASSUME NEW r \in Invocations, NEW w \in Orders, syncN1coOrder(r, w) PROVE TypeOK'
  BY <1>n, <1>w, <1>d DEF syncN1coOrder
<1>o. CASE reconcileMissingWompiCallbacks
  BY <1>o, <1>w, <1>d DEF reconcileMissingWompiCallbacks, Invocations
<1>p. ASSUME NEW w \in Orders, reconcileMissingN1coCallbacks(w) PROVE TypeOK'
  BY <1>p, <1>n DEF reconcileMissingN1coCallbacks, Invocations
<1> QED BY <1>a, <1>b, <1>c, <1>e, <1>f, <1>g, <1>h, <1>i, <1>j, <1>k, <1>l, <1>m, <1>n, <1>o,
           <1>p DEF Next, Invocations

-----------------------------------------------------------------------------
(* The invariant is inductive.  What an invocation knows and does not owe  *)
(* to being alone only ever grows truer.                                   *)

Creators == {"mint_wompi", "attach_wompi", "mint_n1co", "attach_n1co"}

Grows ==
    /\ intent # NULL => intent' # NULL
    /\ \A w \in Ways : link[w] # "none" => link'[w] # "none"
    /\ link[Wompi] = "closed" => link'[Wompi] = "closed"
    /\ \A w \in Ways : events[w] # "none" => events'[w] # "none"

\* An invocation that did not move, and is not creating the intent, still
\* knows what it knew.
LEMMA BystanderKnows ==
    ASSUME OneGift, Grows, NEW q \in Invocations, run'[q] = run[q], run[q].pc \notin Creators
    PROVE  RunKnows(q)'
<1>1. RunKnows(q)
  BY DEF OneGift
<1>2. Orders \subseteq Ways
  BY DEF Ways
<1> QED BY <1>1, <1>2 DEF RunKnows, Grows, Creators

\* The creator still is alone when nobody but the clock, an expiring link and
\* the sweep has moved.
LEMMA CreatorKnows ==
    ASSUME OneGift, Grows, NEW q \in Invocations, UNCHANGED <<run, shown>>, run[q].pc \in Creators,
           /\ intent'.provider = intent.provider /\ intent'.link = intent.link
           /\ intent'.order = intent.order /\ intent'.draft = intent.draft,
           intent'.status \in {"PENDING", "EXPIRED"},
           link[Wompi] = "none" => link'[Wompi] = "none"
    PROVE  RunKnows(q)'
<1>1. RunKnows(q)
  BY DEF OneGift
<1>2. Wompi \in Ways /\ Orders \subseteq Ways
  BY DEF Ways
<1>3. Creating(q)'
  BY <1>1 DEF RunKnows, Creating, Creators
<1>4. intent # NULL
  BY <1>1 DEF RunKnows, Creators
<1> QED BY <1>1, <1>2, <1>3, <1>4 DEF RunKnows, Grows, Creators

\* A step of one invocation r, past its start, disturbs nobody else.
LEMMA MoverStep ==
    ASSUME TypeOK, OneGift, Grows, NEW r \in Invocations, run[r] # Idle,
           \A q \in Invocations \ {r} : run'[q] = run[q],
           intent # NULL, RowKnows', RunKnows(r)', UNCHANGED <<paid, events>>
    PROVE  OneGift'
<1>1. ASSUME NEW q \in Invocations \ {r} PROVE RunKnows(q)'
  <2>1. RunKnows(q)
    BY DEF OneGift
  <2>2. run[q].pc \notin Creators
    BY <2>1 DEF RunKnows, Creating, Creators
  <2> QED BY <2>2, BystanderKnows
<1> QED BY <1>1 DEF OneGift, Grows

\* The same for the first step of an invocation, once an address was shown or
\* the link is attached: then nobody is creating the intent.
LEMMA StarterStep ==
    ASSUME TypeOK, OneGift, Grows, NEW r \in Invocations,
           \A q \in Invocations \ {r} : run'[q] = run[q],
           shown # {} \/ intent.link,
           intent # NULL, RowKnows', RunKnows(r)',
           (\A w \in Ways : events[w] # "none" => w \in paid)'
    PROVE  OneGift'
<1>1. ASSUME NEW q \in Invocations \ {r} PROVE RunKnows(q)'
  <2>1. RunKnows(q)
    BY DEF OneGift
  <2>2. run[q].pc \notin Creators
    BY <2>1 DEF RunKnows, Creating, Creators
  <2> QED BY <2>2, BystanderKnows
<1> QED BY <1>1 DEF OneGift, Grows

\* Every step of the donor, the requests, the cron and the queue keeps OneGift.
LEMMA OneGiftStep == IInv /\ [Next]_vars => OneGift'
<1> SUFFICES ASSUME TypeOK, TypeOK', OneGift, [Next]_vars PROVE OneGift'
  BY TypeStep DEF IInv
<1> USE Names, NullIsNoRow DEF outside
<1>w. Wompi \in Ways /\ Orders \subseteq Ways
  BY DEF Ways
<1>t. /\ intent \in IntentRow \cup {NULL} /\ link \in [Ways -> {"none", "open", "closed"}]
      /\ events \in [Ways -> {"none", "stored", "issued", "quarantined"}]
      /\ run \in [Invocations -> Run]
      /\ paying \subseteq shown /\ paid \subseteq shown
      /\ shown \subseteq {w \in Ways : link[w] # "none"}
  BY DEF TypeOK, Invocations
<1>a. ASSUME NEW r \in Invocations, Step(r) \/ Fail(r) PROVE OneGift'
  <2>k. RunKnows(r)
    BY DEF OneGift
  <2>n. run[r].pc # "idle" /\ run[r] # Idle
    BY <1>a DEF Step, Fail, createPaymentLink, attachIntentLink, prepareN1coLink,
       prepareIntentN1coLink, createCheckoutLink, attachIntentN1coLink, deactivatePaymentLink,
       getPaymentLink, switchIntentToN1co, resolveDonationIntentBinding, markIntentPaid,
       completeIntentForPostAcceptOwner, At, Idle
  <2>i. intent \in IntentRow /\ RowKnows
    BY <2>k, <2>n, <1>t DEF RunKnows, OneGift
  <2>g. ASSUME NEW pc, NEW w, Goes(r, pc, w)
        PROVE  run'[r].pc = pc /\ run'[r].way = w /\ \A q \in Invocations \ {r} : run'[q] = run[q]
    BY <2>g, <1>t DEF Goes
  <2>e. ASSUME Ends(r)
        PROVE  run'[r].pc = "idle" /\ \A q \in Invocations \ {r} : run'[q] = run[q]
    BY <2>e, <1>t DEF Ends, Idle
  <2>z. Ends(r) => RunKnows(r)'
    BY <2>e DEF RunKnows
  <2> USE <1>w, <1>t, <2>k, <2>n, <2>i, <2>g, <2>e, <2>z
  <2>1. CASE createPaymentLink(r)
    <3>1. Grows
      BY <2>1 DEF createPaymentLink, Grows, RunKnows, At
    <3>2. RowKnows'
      BY <2>1 DEF createPaymentLink, RowKnows, RunKnows, Creating, At
    <3>3. RunKnows(r)'
      BY <2>1 DEF createPaymentLink, RunKnows, Creating, At
    <3> QED BY <2>1, <3>1, <3>2, <3>3, MoverStep DEF createPaymentLink
  <2>2. CASE attachIntentLink(r)
    <3>1. Grows
      BY <2>2 DEF attachIntentLink, Grows, IntentRow
    <3>2. RowKnows'
      BY <2>2 DEF attachIntentLink, RowKnows, RunKnows, Creating, At, IntentRow, Sends
    <3>3. RunKnows(r)'
      BY <2>2, <3>1 DEF attachIntentLink, RunKnows, Grows
    <3> QED BY <2>2, <3>1, <3>2, <3>3, MoverStep DEF attachIntentLink
  <2>3. CASE prepareN1coLink(r)
    <3>1. Grows
      BY <2>3 DEF prepareN1coLink, Mint, Grows
    <3>2. RowKnows'
      BY <2>3 DEF prepareN1coLink, Mint, RowKnows, IntentRow
    <3>3. RunKnows(r)'
      BY <2>3 DEF prepareN1coLink, Mint, RunKnows
    <3> QED BY <2>3, <3>1, <3>2, <3>3, MoverStep DEF prepareN1coLink
  <2>4. CASE prepareIntentN1coLink(r)
    <3>1. Grows
      <4>1. intent' \in IntentRow
        BY <2>4 DEF prepareIntentN1coLink, RunKnows, At, IntentRow
      <4> QED BY <2>4, <4>1 DEF prepareIntentN1coLink, Grows
    <3>2. RowKnows'
      BY <2>4 DEF prepareIntentN1coLink, prepareIntentN1coLinkEnabled, RowKnows, RunKnows, At, IntentRow
    <3> QED BY <2>4, <3>1, <3>2, MoverStep DEF prepareIntentN1coLink
  <2>5. CASE createCheckoutLink(r)
    <3>1. Grows
      BY <2>5 DEF createCheckoutLink, Mint, Grows
    <3>2. RowKnows'
      BY <2>5 DEF createCheckoutLink, Mint, RowKnows, IntentRow
    <3>3. RunKnows(r)'
      BY <2>5 DEF createCheckoutLink, Mint, RunKnows, Creating, At
    <3> QED BY <2>5, <3>1, <3>2, <3>3, MoverStep DEF createCheckoutLink
  <2>6. CASE attachIntentN1coLink(r)
    <3>1. Grows
      <4>1. intent' \in IntentRow
        <5>1. run[r].way \in Orders
          BY <2>6 DEF attachIntentN1coLink, RunKnows, At
        <5>2. [intent EXCEPT !.provider = "N1CO", !.order = run[r].way,
                             !.status = "LINK_CREATED"] \in IntentRow
          BY <5>1 DEF IntentRow
        <5> QED BY <2>6, <5>2 DEF attachIntentN1coLink
      <4> QED BY <2>6, <4>1 DEF attachIntentN1coLink, Grows
    <3>2. RowKnows'
      <4>1. /\ shown = {} /\ link[Wompi] = "none" /\ ~intent.draft /\ link' = link /\ events' = events
            /\ run[r].way \in Orders /\ link[run[r].way] # "none"
        BY <2>6 DEF attachIntentN1coLink, RunKnows, Creating, At
      <4>2. CASE shown' = shown /\ intent' = intent
        BY <4>1, <4>2 DEF RowKnows
      <4>3. CASE /\ shown' = {run[r].way} /\ ~intent.link
                 /\ intent' = [intent EXCEPT !.provider = "N1CO", !.order = run[r].way,
                                             !.status = "LINK_CREATED"]
        BY <4>1, <4>3 DEF RowKnows, IntentRow
      <4> QED BY <2>6, <4>1, <4>2, <4>3 DEF attachIntentN1coLink, Sends
    <3> QED BY <2>6, <3>1, <3>2, MoverStep DEF attachIntentN1coLink
  <2>7. CASE deactivatePaymentLink(r)
    <3>1. Grows
      BY <2>7 DEF deactivatePaymentLink, DeactivatedLinks, Grows
    <3>2. RowKnows'
      BY <2>7 DEF deactivatePaymentLink, DeactivatedLinks, RowKnows, IntentRow
    <3>3. RunKnows(r)'
      BY <2>7 DEF deactivatePaymentLink, DeactivatedLinks, RunKnows, At
    <3> QED BY <2>7, <3>1, <3>2, <3>3, MoverStep DEF deactivatePaymentLink
  <2>8. CASE getPaymentLink(r)
    <3>1. Grows
      BY <2>8 DEF getPaymentLink, Grows
    <3>2. RowKnows'
      BY <2>8 DEF getPaymentLink, RowKnows
    <3>3. RunKnows(r)'
      BY <2>8 DEF getPaymentLink, RunKnows, At
    <3> QED BY <2>8, <3>1, <3>2, <3>3, MoverStep DEF getPaymentLink
  <2>9. CASE switchIntentToN1co(r)
    <3>1. Grows
      <4>1. intent.order # NULL => intent.order \in Orders
        BY DEF IntentRow
      <4>2. run[r].way \in Orders
        BY <2>9 DEF switchIntentToN1co, RunKnows, At
      <4>3. intent' \in IntentRow
        <5>1. \A order \in Orders :
                 [intent EXCEPT !.provider = "N1CO", !.order = order] \in IntentRow
          BY DEF IntentRow
        <5> QED BY <2>9, <4>1, <4>2, <5>1 DEF switchIntentToN1co
      <4> QED BY <2>9, <4>3 DEF switchIntentToN1co, Grows
    <3>2. CASE MaySwitch
      <4>1. PICK order \in Orders : /\ link[order] # "none" /\ Sends(order)
                                    /\ intent' = [intent EXCEPT !.provider = "N1CO", !.order = order]
        BY <2>9, <3>2 DEF switchIntentToN1co, At, RunKnows, RowKnows, IntentRow
      <4>2. link[Wompi] = "closed" /\ link' = link /\ events' = events
        BY <2>9 DEF switchIntentToN1co, At, RunKnows
      <4>3. RowKnows'
        BY <3>2, <4>1, <4>2 DEF RowKnows, MaySwitch, IntentRow, Sends
      <4> QED BY <2>9, <3>1, <4>3, MoverStep DEF switchIntentToN1co
    <3>3. CASE ~MaySwitch
      <4>1. RowKnows'
        BY <2>9, <3>3 DEF switchIntentToN1co, RowKnows
      <4> QED BY <2>9, <3>1, <4>1, MoverStep DEF switchIntentToN1co
    <3> QED BY <3>2, <3>3
  <2>10. CASE resolveDonationIntentBinding(r)
    <3>1. Grows
      BY <2>10 DEF resolveDonationIntentBinding, Grows
    <3>2. RowKnows'
      BY <2>10 DEF resolveDonationIntentBinding, RowKnows
    <3>3. RunKnows(r)'
      BY <2>10 DEF resolveDonationIntentBinding, RunKnows, At
    <3> QED BY <2>10, <3>1, <3>2, <3>3, MoverStep DEF resolveDonationIntentBinding
  <2>11. CASE markIntentPaid(r)
    <3>1. Grows
      <4>1. intent' # NULL
        <5>1. [intent EXCEPT !.paid = TRUE] \in IntentRow /\ intent \in IntentRow
          BY <2>11 DEF markIntentPaid, IntentRow, At, RunKnows
        <5> QED BY <2>11, <5>1 DEF markIntentPaid
      <4> QED BY <2>11, <4>1 DEF markIntentPaid, Grows, outside
    <3>2. run[r].way \in Ways /\ events[run[r].way] # "none"
      BY <2>11 DEF markIntentPaid, RunKnows, At
    <3>3. RowKnows'
      BY <2>11, <3>2 DEF markIntentPaid, RowKnows, IntentRow
    <3> QED BY <2>11, <3>1, <3>3, MoverStep DEF markIntentPaid
  <2>12. CASE completeIntentForPostAcceptOwner(r)
    <3>1. Grows
      BY <2>12 DEF completeIntentForPostAcceptOwner, Grows, IntentRow
    <3>2. run[r].way \in Ways /\ events[run[r].way] # "none"
      BY <2>12 DEF completeIntentForPostAcceptOwner, RunKnows, At
    <3>3. RowKnows'
      BY <2>12, <3>2 DEF completeIntentForPostAcceptOwner, RowKnows, IntentRow
    <3> QED BY <2>12, <3>1, <3>3, MoverStep DEF completeIntentForPostAcceptOwner
  <2>13. CASE Fail(r)
    <3>1. Grows
      BY <2>13 DEF Fail, Grows
    <3>2. RowKnows'
      BY <2>13 DEF Fail, RowKnows
    <3> QED BY <2>13, <3>1, <3>2, MoverStep DEF Fail
  <2> QED BY <1>a, <2>1, <2>2, <2>3, <2>4, <2>5, <2>6, <2>7, <2>8, <2>9, <2>10, <2>11, <2>12,
             <2>13 DEF Step
<1>b. ASSUME NEW r \in Requests, createDonationIntent(r) PROVE OneGift'
  <2>1. r \in Invocations /\ NothingYet
    BY <1>b DEF createDonationIntent, OneGift, Invocations
  <2>2. /\ intent' \in IntentRow /\ ~intent'.link /\ intent'.order = NULL /\ ~intent'.paid
        /\ intent'.status = "PENDING" /\ intent'.provider = "WOMPI"
        /\ run'[r].pc \in {"mint_wompi", "mint_n1co"}
        /\ run'[r].pc = "mint_n1co" => ~intent'.draft
        /\ \A q \in Invocations \ {r} : run'[q] = Idle
    BY <1>b, <1>t, <2>1 DEF createDonationIntent, Goes, IntentRow, NothingYet
  <2>3. UNCHANGED <<link, paid, shown, events>>
    BY <1>b DEF createDonationIntent
  <2>4. RunKnows(r)'
    BY <2>1, <2>2, <2>3 DEF RunKnows, Creating, NothingYet
  <2>5. \A q \in Invocations \ {r} : RunKnows(q)'
    BY <2>2 DEF RunKnows, Idle
  <2>6. RowKnows'
    BY <2>1, <2>2, <2>3 DEF RowKnows, NothingYet
  <2> QED BY <2>2, <2>3, <2>4, <2>5, <2>6 DEF OneGift
<1>c. ASSUME NEW r \in Requests, handleDonationIntentN1co(r) PROVE OneGift'
  <2>1. r \in Invocations /\ RowKnows /\ intent \in IntentRow
    BY <1>c, <1>t DEF handleDonationIntentN1co, OneGift, Invocations
  <2>2. Grows
    BY <1>c, <1>t, <1>w DEF handleDonationIntentN1co, Mint, Grows
  <2>3. RowKnows'
    <3>1. /\ UNCHANGED <<intent, shown, events>> /\ link'[Wompi] = link[Wompi]
          /\ \A w \in Ways : link[w] # "none" => link'[w] # "none"
      BY <1>c, <1>t, <1>w DEF handleDonationIntentN1co, Mint
    <3>2. intent.order \in Ways \cup {NULL}
      BY <1>w, <2>1 DEF IntentRow
    <3> QED BY <2>1, <3>1, <3>2 DEF RowKnows
  <2>4. /\ run'[r].pc = "deactivate" /\ run'[r].way \in Orders /\ link'[run'[r].way] # "none"
        /\ \A q \in Invocations \ {r} : run'[q] = run[q]
    BY <1>c, <1>t, <1>w, <2>1 DEF handleDonationIntentN1co, Mint, Goes, RowKnows, IntentRow
  <2>5. RunKnows(r)'
    BY <1>c, <2>4 DEF RunKnows, handleDonationIntentN1co
  <2> QED BY <1>c, <2>1, <2>2, <2>3, <2>4, <2>5, StarterStep DEF handleDonationIntentN1co, OneGift
<1>d. ASSUME NEW r \in Invocations, NEW w \in paid, Ingest(r, w) PROVE OneGift'
  <2>1. w \in Ways /\ shown # {} /\ intent # NULL /\ RowKnows
    BY <1>d, <1>t DEF OneGift, NothingYet
  <2>2. events' = [events EXCEPT ![w] = IF events[w] = "none" THEN "stored" ELSE events[w]]
    BY <1>d DEF Ingest
  <2>3. Grows
    BY <1>d, <1>t, <2>1, <2>2 DEF Ingest, Grows
  <2>4. RowKnows'
    BY <1>d, <2>1, <2>3 DEF Ingest, RowKnows, Grows
  <2>5. /\ run'[r].pc = "bind" /\ run'[r].way = w
        /\ \A q \in Invocations \ {r} : run'[q] = run[q]
    BY <1>d, <1>t DEF Ingest, Goes
  <2>6. RunKnows(r)'
    BY <1>d, <1>t, <2>1, <2>2, <2>5 DEF RunKnows, Ingest
  <2>7. (\A v \in Ways : events[v] # "none" => v \in paid)'
    BY <1>d, <1>t, <2>1, <2>2 DEF OneGift, Ingest
  <2> QED BY <2>1, <2>3, <2>4, <2>5, <2>6, <2>7, StarterStep
<1>e. ASSUME NEW r \in Requests, NEW w \in Ways, finalizeAcceptedDocument(r, w) PROVE OneGift'
  <2>1. w \in paid /\ shown # {} /\ intent # NULL /\ RowKnows /\ r \in Invocations
    BY <1>e, <1>t DEF finalizeAcceptedDocument, OneGift, NothingYet, Invocations
  <2>2. Grows
    BY <1>e DEF finalizeAcceptedDocument, Grows
  <2>3. RowKnows'
    BY <1>e, <2>1 DEF finalizeAcceptedDocument, RowKnows
  <2>4. /\ run'[r].pc = "complete" /\ run'[r].way = w
        /\ \A q \in Invocations \ {r} : run'[q] = run[q]
    BY <1>e, <1>t, <2>1 DEF finalizeAcceptedDocument, Goes
  <2>5. RunKnows(r)'
    BY <1>e, <2>1, <2>4 DEF RunKnows, finalizeAcceptedDocument
  <2>6. (\A v \in Ways : events[v] # "none" => v \in paid)'
    BY <1>e DEF OneGift, finalizeAcceptedDocument
  <2> QED BY <2>1, <2>2, <2>3, <2>4, <2>5, <2>6, StarterStep
<1>f. ASSUME UNCHANGED <<run, paid, events>>, intent # NULL, Grows, RowKnows',
             intent.provider = "WOMPI" /\ ~intent.link =>
               /\ UNCHANGED shown
               /\ intent'.provider = intent.provider /\ intent'.link = intent.link
               /\ intent'.order = intent.order /\ intent'.draft = intent.draft
               /\ intent.status \in {"PENDING", "EXPIRED"} =>
                    intent'.status \in {"PENDING", "EXPIRED"}
               /\ link[Wompi] = "none" => link'[Wompi] = "none"
      PROVE  OneGift'
  <2>1. ASSUME NEW q \in Invocations PROVE RunKnows(q)'
    <3>1. run'[q] = run[q]
      BY <1>f
    <3>2. run[q].pc \in Creators => Creating(q)
      BY DEF OneGift, RunKnows, Creators
    <3>3. CASE run[q].pc \notin Creators
      BY <1>f, <3>1, <3>3, BystanderKnows
    <3>4. CASE run[q].pc \in Creators
      BY <1>f, <3>2, <3>4, CreatorKnows DEF Creating
    <3> QED BY <3>3, <3>4
  <2> QED BY <1>f, <2>1 DEF OneGift, Grows
<1>g. CASE applyIntentDatosWithCapability
  <2>1. intent \in IntentRow /\ intent # NULL /\ RowKnows
    BY <1>g, <1>t DEF applyIntentDatosWithCapability, OneGift
  <2>2. intent' \in IntentRow /\ intent' = [intent EXCEPT !.draft = FALSE]
    BY <1>g, <2>1 DEF applyIntentDatosWithCapability, IntentRow
  <2>3. UNCHANGED <<run, paid, events, link>> /\ Grows
    BY <1>g, <2>2 DEF applyIntentDatosWithCapability, Grows
  <2>4. intent.link /\ shown' = shown \cup {Wompi} /\ intent.status = "LINK_CREATED"
    BY <1>g, <2>1 DEF applyIntentDatosWithCapability, TakesData, RowKnows, Sends, IntentRow
  <2>5. RowKnows'
    BY <2>1, <2>2, <2>3, <2>4 DEF RowKnows, IntentRow
  <2> QED BY <1>f, <2>1, <2>3, <2>4, <2>5
<1>h. CASE SendAgain
  <2>1. intent \in IntentRow /\ intent # NULL /\ RowKnows
    BY <1>h, <1>t DEF SendAgain, OneGift
  <2>2. UNCHANGED <<intent, run, paid, events, link>> /\ Grows
    BY <1>h DEF SendAgain, Grows
  <2>3. intent.provider = "N1CO" /\ intent.order \in Orders /\ shown' = shown \cup {intent.order}
    BY <1>h, <2>1 DEF SendAgain, RowKnows, Sends, IntentRow
  <2>4. RowKnows'
    BY <2>1, <2>2, <2>3 DEF RowKnows
  <2> QED BY <1>f, <2>1, <2>2, <2>3, <2>4
<1>i. ASSUME NEW w \in Ways, BeginPayment(w) \/ EndPayment(w) PROVE OneGift'
  <2>1. UNCHANGED <<intent, link, shown, events, run>> /\ paid \subseteq paid'
    BY <1>i DEF BeginPayment, EndPayment
  <2> QED BY <2>1 DEF OneGift, NothingYet, RowKnows, RunKnows, Creating
<1>j. ASSUME NEW w \in Ways, LinkExpires(w) PROVE OneGift'
  <2>1. UNCHANGED <<intent, paid, shown, events, run>>
    BY <1>j DEF LinkExpires
  <2>2. /\ \A v \in Ways : link'[v] = link[v] \/ (link'[v] = "closed" /\ link[v] = "open")
        /\ Grows
    <3>1. link[w] = "open" /\ link' = [link EXCEPT ![w] = "closed"]
      BY <1>j DEF LinkExpires
    <3>2. \A v \in Ways : link'[v] = link[v] \/ (link'[v] = "closed" /\ link[v] = "open")
      BY <1>t, <3>1
    <3> QED BY <1>w, <2>1, <3>2 DEF Grows
  <2>3. CASE intent = NULL
    BY <1>w, <2>1, <2>2, <2>3 DEF OneGift, NothingYet, RunKnows, Idle
  <2>4. CASE intent # NULL
    <3>1. RowKnows /\ intent.order \in Ways \cup {NULL}
      BY <1>t, <1>w, <2>4 DEF OneGift, IntentRow
    <3>2. RowKnows'
      BY <1>w, <2>1, <2>2, <3>1 DEF RowKnows
    <3> QED BY <1>f, <1>w, <2>1, <2>2, <2>4, <3>2
  <2> QED BY <2>3, <2>4
<1>k. ASSUME NEW w \in Ways, correlateIntent(w) PROVE OneGift'
  <2>1. UNCHANGED <<intent, link, paid, shown, run>>
    BY <1>k DEF correlateIntent
  <2>2. \A v \in Ways : events'[v] # "none" <=> events[v] # "none"
    BY <1>k, <1>t DEF correlateIntent
  <2>3. \A q \in Invocations : RunKnows(q)'
    BY <2>1, <2>2 DEF OneGift, RunKnows, Creating
  <2>4. IF intent = NULL THEN NothingYet' ELSE RowKnows'
    BY <2>1, <2>2 DEF OneGift, NothingYet, RowKnows
  <2> QED BY <2>1, <2>2, <2>3, <2>4 DEF OneGift
<1>l. CASE HourPasses \/ UNCHANGED vars
  <2>1. UNCHANGED <<intent, link, paid, shown, events, run>>
    BY <1>l DEF HourPasses, vars
  <2> QED BY <2>1 DEF OneGift, NothingYet, RowKnows, RunKnows, Creating
<1>m. CASE expireDonationIntentsByIds
  <2>1. intent \in IntentRow /\ intent # NULL /\ RowKnows
    BY <1>m, <1>t DEF expireDonationIntentsByIds, OneGift
  <2>2. intent' \in IntentRow /\ intent' = [intent EXCEPT !.status = "EXPIRED"]
    BY <1>m, <2>1 DEF expireDonationIntentsByIds, IntentRow
  <2>3. UNCHANGED <<paid, events, link, shown>> /\ Grows
    BY <1>m, <2>2 DEF expireDonationIntentsByIds, Grows
  <2>4. RowKnows'
    BY <2>1, <2>2, <2>3 DEF RowKnows, IntentRow
  <2>5. CASE UNCHANGED run
    BY <1>f, <2>1, <2>2, <2>3, <2>4, <2>5 DEF IntentRow
  <2>6. CASE intent.link /\ Goes(Cron, "close", Wompi)
    <3>1. /\ run'[Cron].pc = "close" /\ Cron \in Invocations
          /\ \A q \in Invocations \ {Cron} : run'[q] = run[q]
      BY <1>t, <2>6 DEF Goes, Invocations
    <3>2. RunKnows(Cron)'
      BY <2>1, <2>3, <3>1 DEF RunKnows, Grows
    <3>3. (\A v \in Ways : events[v] # "none" => v \in paid)'
      BY <2>3 DEF OneGift
    <3> QED BY <2>1, <2>3, <2>4, <2>6, <3>1, <3>2, <3>3, StarterStep
  <2> QED BY <1>m, <2>5, <2>6 DEF expireDonationIntentsByIds
<1>n. CASE CloseExpired
  <2>1. Cron \in Invocations /\ run[Cron].pc = "close" /\ RunKnows(Cron)
    BY <1>n DEF CloseExpired, At, Invocations, OneGift
  <2>2. intent # NULL /\ intent \in IntentRow /\ RowKnows /\ run[Cron] # Idle
    BY <1>t, <2>1 DEF RunKnows, OneGift, Idle
  <2>3. UNCHANGED <<intent, paid, shown, events>> /\ link' = [link EXCEPT ![Wompi] = "closed"]
    BY <1>n DEF CloseExpired
  <2>4. Grows
    BY <1>t, <2>3 DEF Grows
  <2>5. RowKnows'
    BY <1>t, <1>w, <2>2, <2>3 DEF RowKnows, IntentRow
  <2>6. run'[Cron].pc = "idle" /\ \A q \in Invocations \ {Cron} : run'[q] = run[q]
    BY <1>n, <1>t, <2>1 DEF CloseExpired, Ends, Idle
  <2>7. RunKnows(Cron)'
    BY <2>6 DEF RunKnows
  <2> QED BY <2>1, <2>2, <2>3, <2>4, <2>5, <2>6, <2>7, MoverStep
<1>o. ASSUME NEW r \in Requests, handleWompiWebhook(r) PROVE OneGift'
  BY <1>o, <1>d DEF handleWompiWebhook, Invocations
<1>p. ASSUME NEW r \in Invocations, NEW w \in Orders, syncN1coOrder(r, w) PROVE OneGift'
  BY <1>p, <1>d DEF syncN1coOrder
<1>q. CASE reconcileMissingWompiCallbacks
  BY <1>q, <1>d DEF reconcileMissingWompiCallbacks, Invocations
<1>r. ASSUME NEW w \in Orders, reconcileMissingN1coCallbacks(w) PROVE OneGift'
  BY <1>r, <1>p DEF reconcileMissingN1coCallbacks, Invocations
<1> QED BY <1>a, <1>b, <1>c, <1>e, <1>g, <1>h, <1>i, <1>j, <1>k, <1>l, <1>m, <1>n, <1>o, <1>p,
           <1>q, <1>r DEF Next, Invocations

-----------------------------------------------------------------------------
(* The theorems.                                                           *)

\* The invariant holds however requests, the cron, webhooks and the queue's
\* consumer overlap, whatever fails and whenever an invocation dies.
THEOREM InvariantHolds == Spec => []IInv
<1>1. Init => IInv
  <2> SUFFICES ASSUME Init PROVE IInv
    OBVIOUS
  <2>1. Idle \in Run
    BY DEF Idle, Run
  <2>2. TypeOK
    <3>1. run \in [Invocations -> Run]
      BY <2>1 DEF Init, Invocations
    <3>2. 0 \in 0..MaxFailures
      BY MaxFailuresAssumption
    <3> QED BY <3>1, <3>2 DEF Init, TypeOK, Invocations
  <2>3. OneGift
    BY DEF Init, OneGift, NothingYet, RunKnows, Invocations, Idle, Ways
  <2> QED BY <2>2, <2>3 DEF IInv
<1>2. IInv /\ [Next]_vars => IInv'
  BY TypeStep, OneGiftStep DEF IInv
<1> QED BY <1>1, <1>2, PTL DEF Spec

\* The row, the links, what was shown and the invocations keep their types.
THEOREM TypeCorrect == Spec => []TypeOK
<1>1. IInv => TypeOK
  BY DEF IInv
<1> QED BY <1>1, InvariantHolds, PTL

\* A donor sent to n1co cannot begin a payment at Wompi any more, and the order
\* is the one the row keeps, whatever requests overlap: the link is closed
\* before the row is switched, and a row on n1co never takes another order.
THEOREM OneWay == Spec => []OneWayToPay
<1>1. IInv => OneWayToPay
  <2> SUFFICES ASSUME IInv, NEW o \in Orders \cap shown
               PROVE  link[Wompi] # "open" /\ intent.provider = "N1CO" /\ intent.order = o
    BY DEF OneWayToPay
  <2>1. RowKnows
    BY DEF IInv, OneGift, NothingYet
  <2> QED BY <2>1 DEF RowKnows
<1> QED BY <1>1, InvariantHolds, PTL

\* A payment nobody told of stays in one of the cron's two lists.
THEOREM InSight == Spec => []PaymentIsInSight
<1>1. IInv => PaymentIsInSight
  <2> SUFFICES ASSUME IInv, NEW w \in paid, events[w] = "none", paid = {w}
               PROVE  \/ w = Wompi /\ CronAsksWompi
                      \/ w \in Orders /\ CronAsksN1co(w)
    BY DEF PaymentIsInSight
  <2>1. w \in shown /\ w \in Ways
    BY DEF IInv, TypeOK
  <2>2. intent \in IntentRow /\ RowKnows
    BY <2>1 DEF IInv, TypeOK, OneGift, NothingYet
  <2>3. ~intent.paid /\ intent.status # "COMPLETED"
    BY <2>2 DEF RowKnows, IInv, OneGift
  <2>4. CASE w = Wompi
    BY <2>1, <2>2, <2>3, <2>4 DEF RowKnows, CronAsksWompi, ListedForReconciliation, IntentRow
  <2>5. CASE w \in Orders
    BY <2>1, <2>2, <2>3, <2>5
    DEF RowKnows, CronAsksN1co, AsksN1co, ListedForReconciliation, IntentRow
  <2> QED BY <2>1, <2>4, <2>5 DEF Ways
<1> QED BY <1>1, InvariantHolds, PTL

-----------------------------------------------------------------------------
(* Sums over a finite set.                                                 *)

\* A nonempty set of natural numbers has a least element.
LEMMA NatMin ==
    ASSUME NEW T, T \subseteq Nat, T # {}
    PROVE  \E n \in T : \A m \in T : n <= m
<1>1. PICK x \in T : \A y \in T : ~ (<<y, x>> \in OpToRel(<, Nat))
  BY WFMin, NatLessThanWellFounded
<1>2. ASSUME NEW y \in T
      PROVE  x <= y
  <2>1. x \in Nat /\ y \in Nat
    OBVIOUS
  <2>2. ~ (<<y, x>> \in OpToRel(<, Nat))
    BY <1>1
  <2>3. <<y, x>> \in Nat \X Nat /\ <<y, x>>[1] = y /\ <<y, x>>[2] = x
    BY <2>1
  <2>4. ~ (<<y, x>>[1] < <<y, x>>[2])
    BY <2>2, <2>3, Zenon DEF OpToRel
  <2> QED BY <2>1, <2>3, <2>4
<1> QED BY <1>2

\* Induction over the natural numbers, for a set of them.
LEMMA NatSet ==
    ASSUME NEW T, 0 \in T, \A n \in Nat : n \in T => n + 1 \in T
    PROVE  Nat \subseteq T
<1> SUFFICES ASSUME Nat \ T # {}
             PROVE  FALSE
  OBVIOUS
<1>1. PICK n \in Nat \ T : \A m \in Nat \ T : n <= m
  <2>1. Nat \ T \subseteq Nat
    OBVIOUS
  <2> QED BY <2>1, NatMin, Zenon
<1>2. n - 1 \in Nat /\ n - 1 \notin T
  <2>1. n # 0
    OBVIOUS
  <2>2. n - 1 \in Nat /\ (n - 1) + 1 = n
    BY <2>1
  <2> QED BY <2>2
<1> QED BY <1>1, <1>2

\* Induction over the subsets of a finite set, for a set of them.
LEMMA SubsetsSet ==
    ASSUME NEW S, IsFiniteSet(S), NEW T,
           {} \in T,
           \A s \in SUBSET S : s # {} /\ (\A x \in s : s \ {x} \in T) => s \in T
    PROVE  SUBSET S \subseteq T
<1>1. \A s \in SUBSET S : IsFiniteSet(s) /\ Cardinality(s) \in Nat
  BY FS_Subset, FS_CardinalityType
<1> DEFINE N == {n \in Nat : \A s \in SUBSET S : Cardinality(s) = n => s \in T}
<1>2. 0 \in N
  BY <1>1, FS_EmptySet
<1>3. ASSUME NEW n \in Nat, n \in N
      PROVE  n + 1 \in N
  <2>1. ASSUME NEW s \in SUBSET S, Cardinality(s) = n + 1
        PROVE  s \in T
    <3>1. s # {}
      <4>1. Cardinality({}) = 0
        BY FS_EmptySet
      <4>2. n + 1 # 0
        OBVIOUS
      <4> QED BY <2>1, <4>1, <4>2
    <3>2. ASSUME NEW x \in s
          PROVE  s \ {x} \in T
      <4>1. Cardinality(s \ {x}) = n /\ s \ {x} \in SUBSET S
        BY <1>1, <2>1, FS_RemoveElement
      <4> QED BY <1>3, <4>1
    <3> QED BY <3>1, <3>2
  <2> QED BY <2>1
<1>4. Nat \subseteq N
  <2> HIDE DEF N
  <2> QED BY <1>2, <1>3, NatSet
<1> QED BY <1>1, <1>4

Chosen(s) == CHOOSE x \in s : TRUE

\* it holds, for every subset of D, the sum of the failures of its rows.
Sums(table, D, it) ==
    it = [s \in SUBSET D |->
            IF s = {} THEN 0 ELSE table[Chosen(s)].failed + it[s \ {Chosen(s)}]]

Failures(table, D) == (CHOOSE it : Sums(table, D, it))[D]

LEMMA SumsExist ==
    ASSUME NEW table, NEW D, IsFiniteSet(D), \A x \in D : table[x].failed \in Nat
    PROVE  \E it : Sums(table, D, it)
<1>1. \A s \in SUBSET D : IsFiniteSet(s) /\ Cardinality(s) \in Nat
  BY FS_Subset, FS_CardinalityType
<1> DEFINE Rec(it, s) == IF s = {} THEN 0 ELSE table[Chosen(s)].failed + it[s \ {Chosen(s)}]
           UpTo(n, it) == \A s \in SUBSET D : Cardinality(s) <= n => it[s] = Rec(it, s)
           N == {n \in Nat : \E it \in [SUBSET D -> Nat] : UpTo(n, it)}
<1>2. \A s \in SUBSET D : s # {} => /\ Chosen(s) \in s
                                    /\ s \ {Chosen(s)} \in SUBSET D
                                    /\ Cardinality(s \ {Chosen(s)}) = Cardinality(s) - 1
  BY <1>1, FS_RemoveElement DEF Chosen
<1>3. 0 \in N
  <2> DEFINE zero == [s \in SUBSET D |-> 0]
  <2>1. \A s \in SUBSET D : Cardinality(s) <= 0 => s = {}
    BY <1>1, FS_EmptySet
  <2>2. zero \in [SUBSET D -> Nat] /\ UpTo(0, zero)
    BY <2>1
  <2> HIDE DEF UpTo, zero
  <2> QED BY <2>2
<1>4. ASSUME NEW n \in Nat, n \in N
      PROVE  n + 1 \in N
  <2>1. PICK it \in [SUBSET D -> Nat] : UpTo(n, it)
    BY <1>4
  <2> DEFINE next == [s \in SUBSET D |-> IF Cardinality(s) <= n THEN it[s] ELSE Rec(it, s)]
  <2>2. \A s \in SUBSET D : Rec(it, s) \in Nat
    BY <1>2
  <2>3. next \in [SUBSET D -> Nat]
    <3> HIDE DEF Rec
    <3> QED BY <2>2
  <2>4. ASSUME NEW s \in SUBSET D, Cardinality(s) <= n + 1
        PROVE  next[s] = Rec(next, s)
    <3>1. CASE s = {}
      <4>1. Cardinality(s) <= n
        BY <3>1, FS_EmptySet
      <4> QED BY <2>1, <3>1, <4>1
    <3>2. CASE s # {}
      <4> DEFINE t == s \ {Chosen(s)}
      <4>1. t \in SUBSET D /\ Cardinality(t) <= n
        BY <1>1, <1>2, <2>4, <3>2
      <4>2. next[t] = it[t]
        BY <4>1
      <4>3. Rec(next, s) = Rec(it, s)
        <5> HIDE DEF next
        <5> QED BY <4>2
      <4>4. next[s] = Rec(it, s)
        <5>1. CASE Cardinality(s) <= n
          BY <2>1, <5>1
        <5>2. CASE ~(Cardinality(s) <= n)
          BY <5>2
        <5> QED BY <5>1, <5>2
      <4> QED BY <4>3, <4>4
    <3> QED BY <3>1, <3>2
  <2>5. UpTo(n + 1, next)
    <3> HIDE DEF next, Rec
    <3> QED BY <2>4
  <2> HIDE DEF next, UpTo
  <2> QED BY <2>3, <2>5
<1>5. Cardinality(D) \in N
  <2> HIDE DEF N
  <2>1. Cardinality(D) \in Nat
    BY FS_CardinalityType
  <2> QED BY <1>3, <1>4, <2>1, NatSet
<1>6. PICK it \in [SUBSET D -> Nat] : UpTo(Cardinality(D), it)
  BY <1>5
<1>7. \A s \in SUBSET D : Cardinality(s) <= Cardinality(D)
  BY FS_Subset
<1>8. \A s \in SUBSET D : it[s] = Rec(it, s)
  BY <1>6, <1>7
<1>9. it = [s \in SUBSET D |-> Rec(it, s)]
  <2> HIDE DEF Rec
  <2> QED BY <1>8
<1> QED BY <1>9 DEF Sums

LEMMA SumsOfSubset ==
    ASSUME NEW table, NEW D, NEW it, Sums(table, D, it), NEW s \in SUBSET D
    PROVE  it[s] = IF s = {} THEN 0 ELSE table[Chosen(s)].failed + it[s \ {Chosen(s)}]
BY Zenon DEF Sums

LEMMA FailuresOfSubset ==
    ASSUME NEW table, NEW D, IsFiniteSet(D), \A x \in D : table[x].failed \in Nat
    PROVE  Sums(table, D, CHOOSE it : Sums(table, D, it))
BY SumsExist, Zenon

\* Two sums over what the same elements failed are equal.
LEMMA SumsAgree ==
    ASSUME NEW D, IsFiniteSet(D),
           NEW table1, NEW D1, NEW it1, Sums(table1, D1, it1), D \subseteq D1,
           NEW table2, NEW D2, NEW it2, Sums(table2, D2, it2), D \subseteq D2,
           \A x \in D : table1[x].failed = table2[x].failed
    PROVE  it1[D] = it2[D]
<1> DEFINE T == {s \in SUBSET D : it1[s] = it2[s]}
<1>1. {} \in T
  BY SumsOfSubset
<1>2. ASSUME NEW s \in SUBSET D, s # {}, \A x \in s : s \ {x} \in T
      PROVE  s \in T
  <2>1. Chosen(s) \in s /\ Chosen(s) \in D
    BY <1>2 DEF Chosen
  <2>2. it1[s \ {Chosen(s)}] = it2[s \ {Chosen(s)}]
    BY <1>2, <2>1
  <2>3. /\ it1[s] = table1[Chosen(s)].failed + it1[s \ {Chosen(s)}]
        /\ it2[s] = table2[Chosen(s)].failed + it2[s \ {Chosen(s)}]
    BY <1>2, SumsOfSubset
  <2> QED BY <2>1, <2>2, <2>3
<1> HIDE DEF T
<1>3. SUBSET D \subseteq T
  BY <1>1, <1>2, SubsetsSet
<1> QED BY <1>3 DEF T

LEMMA SumsAreNat ==
    ASSUME NEW table, NEW D, IsFiniteSet(D), \A x \in D : table[x].failed \in Nat,
           NEW it, Sums(table, D, it)
    PROVE  \A s \in SUBSET D : it[s] \in Nat
<1> DEFINE T == {s \in SUBSET D : it[s] \in Nat}
<1>1. {} \in T
  <2>1. {} \in SUBSET D
    OBVIOUS
  <2>2. it[{}] = 0
    BY <2>1, SumsOfSubset
  <2> QED BY <2>1, <2>2
<1>2. ASSUME NEW s \in SUBSET D, s # {}, \A x \in s : s \ {x} \in T
      PROVE  s \in T
  <2> PICK p : p = Chosen(s)
    OBVIOUS
  <2>1. p \in s /\ p \in D /\ it[s \ {p}] \in Nat
    BY <1>2 DEF Chosen
  <2>2. it[s] = IF s = {} THEN 0 ELSE table[Chosen(s)].failed + it[s \ {Chosen(s)}]
    BY SumsOfSubset
  <2> QED BY <1>2, <2>1, <2>2
<1> HIDE DEF T
<1>3. SUBSET D \subseteq T
  BY <1>1, <1>2, SubsetsSet
<1> QED BY <1>3 DEF T

\* Any element may be taken out first.
LEMMA SumsTakeOut ==
    ASSUME NEW table, NEW D, IsFiniteSet(D), \A x \in D : table[x].failed \in Nat,
           NEW it, Sums(table, D, it)
    PROVE  \A x \in D : it[D] = table[x].failed + it[D \ {x}]
<1>0. \A s \in SUBSET D : it[s] \in Nat
  BY SumsAreNat
<1> DEFINE Out(s) == \A x \in s : it[s] = table[x].failed + it[s \ {x}]
           T == {s \in SUBSET D : Out(s)}
<1>1. {} \in T
  OBVIOUS
<1>2. ASSUME NEW s \in SUBSET D, s # {}, \A x \in s : s \ {x} \in T
      PROVE  s \in T
  <2> PICK p : p = Chosen(s)
    OBVIOUS
  <2>1. p \in s /\ p \in D /\ Out(s \ {p})
    BY <1>2 DEF Chosen
  <2>2. it[s] = table[p].failed + it[s \ {p}]
    <3>1. it[s] = table[Chosen(s)].failed + it[s \ {Chosen(s)}]
      BY <1>2, SumsOfSubset
    <3> QED BY <3>1
  <2>3. ASSUME NEW x \in s
        PROVE  it[s] = table[x].failed + it[s \ {x}]
    <3>1. CASE x = p
      BY <2>2, <3>1
    <3>2. CASE x # p
      <4>1. it[s \ {p}] = table[x].failed + it[(s \ {p}) \ {x}]
        BY <2>1, <3>2
      <4>2. it[s \ {x}] = table[p].failed + it[(s \ {x}) \ {p}]
        BY <1>2, <2>1, <3>2
      <4>3. (s \ {p}) \ {x} = (s \ {x}) \ {p}
        OBVIOUS
      <4> PICK a, b, c, d, e : /\ a = table[x].failed /\ b = table[p].failed
                               /\ c = it[(s \ {x}) \ {p}] /\ d = it[s \ {x}] /\ e = it[s \ {p}]
        OBVIOUS
      <4>4. a \in Nat /\ b \in Nat
        BY <2>1
      <4>5. c \in Nat /\ d \in Nat /\ e \in Nat
        <5>1. (s \ {x}) \ {p} \in SUBSET D /\ s \ {x} \in SUBSET D /\ s \ {p} \in SUBSET D
          OBVIOUS
        <5> QED BY <1>0, <5>1
      <4>6. it[s] = b + e /\ e = a + c /\ d = b + c
        BY <2>2, <4>1, <4>2, <4>3
      <4>7. it[s] = a + d
        BY <4>4, <4>5, <4>6
      <4> QED BY <4>7
    <3> QED BY <3>1, <3>2
  <2>4. Out(s)
    BY <2>3
  <2> HIDE DEF Out
  <2> QED BY <2>4
<1> HIDE DEF T
<1>3. SUBSET D \subseteq T
  BY <1>1, <1>2, SubsetsSet
<1>4. D \in T
  BY <1>3
<1> QED BY <1>4 DEF T

\* What the proofs use of the sum.
LEMMA FailuresFacts ==
    ASSUME NEW table, NEW D, IsFiniteSet(D), \A x \in D : table[x].failed \in Nat
    PROVE  /\ Failures(table, D) \in Nat
           /\ D = {} => Failures(table, D) = 0
           /\ \A x \in D : Failures(table, D) = table[x].failed + Failures(table, D \ {x})
           /\ \A other : (\A x \in D : other[x].failed = table[x].failed)
                           => Failures(other, D) = Failures(table, D)
<1> PICK it : it = CHOOSE i : Sums(table, D, i)
  OBVIOUS
<1>1. Sums(table, D, it) /\ Failures(table, D) = it[D]
  BY FailuresOfSubset, Zenon DEF Failures
<1>2. it[D] \in Nat
  BY <1>1, SumsAreNat
<1>3. D = {} => it[D] = 0
  <2>1. D \in SUBSET D
    OBVIOUS
  <2>2. it[D] = IF D = {} THEN 0 ELSE table[Chosen(D)].failed + it[D \ {Chosen(D)}]
    BY <1>1, <2>1, SumsOfSubset
  <2> QED BY <2>2
<1>4. ASSUME NEW E, E \subseteq D, NEW other, \A x \in E : other[x].failed = table[x].failed
      PROVE  Failures(other, E) = it[E]
  <2>1. IsFiniteSet(E)
    BY <1>4, FS_Subset
  <2>2. \A x \in E : other[x].failed \in Nat
    BY <1>4
  <2> PICK jt : jt = CHOOSE i : Sums(other, E, i)
    OBVIOUS
  <2>3. Sums(other, E, jt) /\ Failures(other, E) = jt[E]
    BY <2>1, <2>2, FailuresOfSubset, Zenon DEF Failures
  <2>4. jt[E] = it[E]
    BY <1>1, <1>4, <2>1, <2>3, SumsAgree
  <2> QED BY <2>3, <2>4
<1>5. ASSUME NEW x \in D
      PROVE  Failures(table, D) = table[x].failed + Failures(table, D \ {x})
  <2>1. Failures(table, D \ {x}) = it[D \ {x}]
    BY <1>4
  <2>2. it[D] = table[x].failed + it[D \ {x}]
    BY <1>1, SumsTakeOut
  <2> QED BY <1>1, <2>1, <2>2
<1>6. ASSUME NEW other, \A x \in D : other[x].failed = table[x].failed
      PROVE  Failures(other, D) = Failures(table, D)
  BY <1>1, <1>4, <1>6
<1> QED BY <1>1, <1>2, <1>3, <1>5, <1>6

Cohort(table, g) ==
    {m \in Challenges : /\ table[m] # None
                        /\ table[m].expected.generation = g}

LEMMA WrongIsFailures ==
    ASSUME NEW g
    PROVE  /\ Wrong(g) = Failures(challenges, Cohort(challenges, g))
           /\ Wrong(g)' = Failures(challenges', Cohort(challenges', g))
<1>1. Wrong(g) = Failures(challenges, Cohort(challenges, g))
  BY Zenon DEF Wrong, MapThenSumSet, MapThenFoldSet, Cohort, Failures, Sums, Chosen
<1>2. Wrong(g)' = Failures(challenges', Cohort(challenges', g))
  BY Zenon DEF Wrong, MapThenSumSet, MapThenFoldSet, Cohort, Failures, Sums, Chosen
<1> QED BY <1>1, <1>2

-----------------------------------------------------------------------------
(* The wrong codes of a cohort.                                            *)

AccTable == [Challenges -> ChallengeRow \cup {None}]

Bounded(table) == \A g \in 0..MaxGeneration : Failures(table, Cohort(table, g)) <= MaxWrong

\* The sum of a cohort is what one challenge adds to that of the others.
LEMMA CohortAt ==
    ASSUME NEW table \in AccTable, NEW m \in Challenges, NEW g
    PROVE  /\ Failures(table, Cohort(table, g) \ {m}) \in Nat
           /\ m \in Cohort(table, g) =>
                /\ table[m].failed \in Nat
                /\ Failures(table, Cohort(table, g))
                     = table[m].failed + Failures(table, Cohort(table, g) \ {m})
           /\ m \notin Cohort(table, g) =>
                Failures(table, Cohort(table, g)) = Failures(table, Cohort(table, g) \ {m})
<1> DEFINE C == Cohort(table, g)
<1>1. IsFiniteSet(Challenges)
  BY AccountBounds
<1>2. IsFiniteSet(C) /\ IsFiniteSet(C \ {m})
  BY <1>1, FS_Subset DEF Cohort
<1>3. \A x \in C : table[x].failed \in Nat
  BY AccountBounds DEF Cohort, AccTable, ChallengeRow
<1>4. Failures(table, C \ {m}) \in Nat
  BY <1>2, <1>3, FailuresFacts
<1>5. m \in C => table[m].failed \in Nat
                 /\ Failures(table, C) = table[m].failed + Failures(table, C \ {m})
  BY <1>2, <1>3, FailuresFacts
<1>6. m \notin C => C \ {m} = C
  OBVIOUS
<1> QED BY <1>4, <1>5, <1>6

\* Tables that differ in one challenge have the same others in a cohort.
LEMMA CohortOff ==
    ASSUME NEW table \in AccTable, NEW next \in AccTable, NEW m \in Challenges,
           \A x \in Challenges \ {m} : next[x] = table[x], NEW g
    PROVE  Failures(next, Cohort(next, g) \ {m}) = Failures(table, Cohort(table, g) \ {m})
<1> DEFINE C == Cohort(table, g) \ {m}
<1>1. Cohort(next, g) \ {m} = C
  BY DEF Cohort
<1>2. IsFiniteSet(C)
  BY FS_Subset, AccountBounds DEF Cohort
<1>3. \A x \in C : table[x].failed \in Nat /\ next[x].failed = table[x].failed
  BY AccountBounds DEF Cohort, AccTable, ChallengeRow
<1> HIDE DEF C
<1>4. Failures(next, C) = Failures(table, C)
  BY <1>2, <1>3, FailuresFacts
<1> QED BY <1>1, <1>4 DEF C

\* A challenge without failures, and one less, add nothing.
LEMMA BoundedWithout ==
    ASSUME NEW table \in AccTable, Bounded(table), NEW m \in Challenges,
           NEW row \in ChallengeRow \cup {None}, row # None => row.failed = 0
    PROVE  /\ [table EXCEPT ![m] = row] \in AccTable
           /\ Bounded([table EXCEPT ![m] = row])
<1> DEFINE nextTable == [table EXCEPT ![m] = row]
<1>0. PICK next : next = nextTable
  OBVIOUS
<1>1. next \in AccTable /\ next[m] = row /\ \A x \in Challenges \ {m} : next[x] = table[x]
  BY <1>0 DEF AccTable
<1> HIDE DEF nextTable
<1>2. ASSUME NEW g \in 0..MaxGeneration
      PROVE  Failures(next, Cohort(next, g)) <= MaxWrong
  <2> PICK rest : rest = Failures(table, Cohort(table, g) \ {m})
    OBVIOUS
  <2>1. rest \in Nat /\ Failures(next, Cohort(next, g) \ {m}) = rest
    <3>1. rest \in Nat
      BY CohortAt, Zenon
    <3>2. Failures(next, Cohort(next, g) \ {m}) = rest
      BY <1>1, CohortOff, Zenon
    <3> QED BY <3>1, <3>2
  <2>2. Failures(next, Cohort(next, g)) = rest
    <3>1. CASE m \in Cohort(next, g)
      <4>1. next[m].failed = 0
        BY <1>1, <3>1 DEF Cohort
      <4>2. Failures(next, Cohort(next, g)) = next[m].failed + rest
        BY <1>1, <2>1, <3>1, CohortAt, Zenon
      <4> QED BY <2>1, <4>1, <4>2
    <3>2. CASE m \notin Cohort(next, g)
      BY <1>1, <2>1, <3>2, CohortAt
    <3> QED BY <3>1, <3>2
  <2>3. rest <= Failures(table, Cohort(table, g))
    <3>1. CASE m \in Cohort(table, g)
      <4>1. table[m].failed \in Nat /\ Failures(table, Cohort(table, g)) = table[m].failed + rest
        BY <3>1, CohortAt
      <4> QED BY <2>1, <4>1
    <3>2. CASE m \notin Cohort(table, g)
      <4>1. Failures(table, Cohort(table, g)) = rest
        BY <3>2, CohortAt
      <4> QED BY <2>1, <4>1
    <3> QED BY <3>1, <3>2
  <2> PICK sum : sum = Failures(table, Cohort(table, g))
    OBVIOUS
  <2>4. sum \in Nat
    <3>1. m \in Cohort(table, g) => table[m].failed \in Nat /\ sum = table[m].failed + rest
      BY CohortAt
    <3>2. m \notin Cohort(table, g) => sum = rest
      BY CohortAt
    <3> QED BY <2>1, <3>1, <3>2
  <2>5. sum <= MaxWrong /\ rest <= sum /\ MaxWrong \in Nat
    BY <2>3, AccountBounds DEF Bounded
  <2>6. rest <= MaxWrong
    BY <2>1, <2>4, <2>5
  <2> QED BY <2>2, <2>6
<1> QED BY <1>0, <1>1, <1>2 DEF Bounded, nextTable

\* One more wrong code, while the cohort has room for it.
LEMMA BoundedCount ==
    ASSUME NEW table \in AccTable, Bounded(table), NEW m \in Challenges,
           table[m] # None,
           Failures(table, Cohort(table, table[m].expected.generation)) < MaxWrong
    PROVE  /\ [table EXCEPT ![m].failed = @ + 1] \in AccTable
           /\ Bounded([table EXCEPT ![m].failed = @ + 1])
<1> DEFINE count == [table[m] EXCEPT !.failed = @ + 1]
<1> PICK row : row = count
  OBVIOUS
<1>0. PICK next : next = [table EXCEPT ![m] = row]
  OBVIOUS
<1>1. [table EXCEPT ![m].failed = @ + 1] = next
  BY <1>0 DEF AccTable
<1> PICK gen : gen = table[m].expected.generation
  OBVIOUS
<1>2. table[m] \in ChallengeRow /\ table[m].failed \in Nat /\ MaxWrong \in Nat
  BY AccountBounds DEF AccTable, ChallengeRow
<1>3. m \in Cohort(table, gen)
  BY DEF Cohort
<1>9. PICK rest : rest = Failures(table, Cohort(table, gen) \ {m})
  OBVIOUS
<1>4. rest \in Nat /\ Failures(table, Cohort(table, gen)) = table[m].failed + rest
  BY <1>3, <1>9, CohortAt
<1>5. table[m].failed + rest + 1 <= MaxWrong /\ table[m].failed + 1 \in 0..MaxWrong
  <2>1. table[m].failed + rest < MaxWrong
    BY <1>4
  <2> QED BY <1>2, <1>4, <2>1
<1>6. row \in ChallengeRow /\ row.failed = table[m].failed + 1
      /\ row.expected = table[m].expected /\ row # None
  <2>1. row \in ChallengeRow /\ row.failed = table[m].failed + 1
        /\ row.expected = table[m].expected
    BY <1>2, <1>5 DEF ChallengeRow
  <2> QED BY <2>1, AccountBounds
<1>7. next \in AccTable /\ next[m] = row /\ \A x \in Challenges \ {m} : next[x] = table[x]
  BY <1>0, <1>6 DEF AccTable
<1> HIDE DEF count
<1>8. ASSUME NEW g \in 0..MaxGeneration
      PROVE  Failures(next, Cohort(next, g)) <= MaxWrong
  <2>1. Failures(next, Cohort(next, g) \ {m}) = Failures(table, Cohort(table, g) \ {m})
    <3>1. table \in AccTable /\ m \in Challenges
      OBVIOUS
    <3> QED BY ONLY <3>1, <1>7, CohortOff, Zenon
  <2>2. CASE g = gen
    <3>1. m \in Cohort(next, g)
      BY <1>6, <1>7, <2>2 DEF Cohort
    <3>2. Failures(next, Cohort(next, g)) = row.failed + rest
      <4>1. Failures(next, Cohort(next, g)) = next[m].failed + Failures(next, Cohort(next, g) \ {m})
        BY <1>7, <3>1, CohortAt, Zenon
      <4> QED BY <1>7, <1>9, <2>1, <2>2, <4>1
    <3> QED BY <1>2, <1>4, <1>5, <1>6, <3>2
  <2>3. CASE g # gen
    <3>1. m \notin Cohort(next, g) /\ m \notin Cohort(table, g)
      BY <1>6, <1>7, <2>3 DEF Cohort
    <3>2. Failures(next, Cohort(next, g)) = Failures(table, Cohort(table, g))
      BY <1>7, <2>1, <3>1, CohortAt
    <3> QED BY <3>2 DEF Bounded
  <2> QED BY <2>2, <2>3
<1> QED BY <1>1, <1>7, <1>8 DEF Bounded

-----------------------------------------------------------------------------
(* The inductive invariant.                                                *)

SessionRow == [epoch : 0..MaxEpoch, generation : 0..MaxGeneration]

SessionsOK == /\ sessions \in Seq(SessionRow)
              /\ Len(sessions) <= MaxSessions
              /\ SessionsAreCurrent

\* The open token is of the account as it is.
TokensOK == /\ tokens \in [Tokens -> TokenRow \cup {None}]
            /\ \A t, u \in Tokens : tokens[t] # None /\ tokens[u] # None => t = u
            /\ \A t \in Tokens : tokens[t] # None =>
                 /\ ~user.disabled
                 /\ tokens[t].email = user.email
                 /\ tokens[t].generation = user.generation
                 /\ tokens[t].epoch = user.hash.epoch

ChallengesOK == challenges \in AccTable /\ Bounded(challenges)

\* What a request holds at each point.  The last check of an OWNER's edit
\* rests on the first: only an OWNER asks for an OWNER.
CallKnows(c) ==
    /\ call[c].pc \in {"rehash", "verified", "consumed", "reset"}
         => call[c].seen \in Credentials
    /\ call[c].pc = "wrong" => call[c].on \in Challenges
    /\ call[c].pc = "confirm" => call[c].on \in Tokens
    /\ call[c].pc \in {"read", "write"} =>
         /\ call[c].patch \in Patches /\ call[c].patch.field # "password"
         /\ call[c].patch.field = "role" /\ call[c].patch.to = "OWNER" => call[c].owner
    /\ call[c].pc = "write" => call[c].seen \in EditedRow

CallsOK == /\ call \in [Calls -> Call]
           /\ \A c \in Calls : CallKnows(c)

AccountInv == /\ user \in UserRow
              /\ SessionsOK /\ TokensOK /\ ChallengesOK /\ CallsOK

-----------------------------------------------------------------------------
(* Requests.                                                               *)

\* Only c's request moves.
OnlyCall(c) == \A d \in Calls \ {c} : call'[d] = call[d]

LEMMA CallGoes ==
    ASSUME call \in [Calls -> Call], NEW c \in Calls,
           NEW pc \in {"rehash", "verified", "consumed", "wrong", "reset", "confirm", "write"},
           NEW seen \in Credentials \cup EditedRow \cup {None},
           NEW on \in Tokens \cup Challenges \cup {None},
           GoesOn(c, pc, seen, on)
    PROVE  /\ call' \in [Calls -> Call] /\ OnlyCall(c)
           /\ call'[c].pc = pc /\ call'[c].seen = seen /\ call'[c].on = on
           /\ call'[c].patch = call[c].patch /\ call'[c].owner = call[c].owner
<1> DEFINE row1 == [call[c] EXCEPT !.pc = pc]
           row2 == [row1 EXCEPT !.seen = seen]
           row3 == [row2 EXCEPT !.on = on]
<1>1. call' = [d \in Calls |-> IF d = c THEN row3 ELSE call[d]]
  BY DEF GoesOn
<1>2. call[c] \in Call
  OBVIOUS
<1>3. row1 \in Call /\ row1.pc = pc
      /\ row1.patch = call[c].patch /\ row1.owner = call[c].owner
  BY <1>2 DEF Call
<1> HIDE DEF row1
<1>4. row2 \in Call /\ row2.pc = pc /\ row2.seen = seen
      /\ row2.patch = call[c].patch /\ row2.owner = call[c].owner
  BY <1>3 DEF Call
<1> HIDE DEF row2
<1>5. row3 \in Call /\ row3.pc = pc /\ row3.seen = seen /\ row3.on = on
      /\ row3.patch = call[c].patch /\ row3.owner = call[c].owner
  BY <1>4 DEF Call
<1> HIDE DEF row3
<1>6. call' \in [Calls -> Call] /\ call'[c] = row3 /\ OnlyCall(c)
  BY <1>1, <1>5 DEF OnlyCall
<1> QED BY <1>5, <1>6

LEMMA CallEnds ==
    ASSUME call \in [Calls -> Call], NEW c \in Calls, IsOver(c)
    PROVE  /\ call' \in [Calls -> Call] /\ OnlyCall(c)
           /\ call'[c].pc = "idle"
<1>1. NoCall \in Call /\ NoCall.pc = "idle"
  BY DEF NoCall, Call
<1>2. call' = [d \in Calls |-> IF d = c THEN NoCall ELSE call[d]]
  BY DEF IsOver
<1>3. call'[c] = NoCall /\ OnlyCall(c) /\ call' \in [Calls -> Call]
  BY <1>1, <1>2 DEF OnlyCall
<1> QED BY <1>1, <1>3

\* Whatever the others hold, they go on holding.
LEMMA CallsKeep ==
    ASSUME CallsOK, NEW c \in Calls,
           call' \in [Calls -> Call], OnlyCall(c), CallKnows(c)'
    PROVE  CallsOK'
<1>1. ASSUME NEW d \in Calls
      PROVE  CallKnows(d)'
  <2>1. CASE d = c
    BY <2>1
  <2>2. CASE d # c
    <3>1. call'[d] = call[d] /\ CallKnows(d)
      BY <2>2 DEF OnlyCall, CallsOK
    <3> QED BY <3>1 DEF CallKnows
  <2> QED BY <2>1, <2>2
<1> QED BY <1>1 DEF CallsOK

LEMMA EndsKeeps ==
    ASSUME CallsOK, NEW c \in Calls, IsOver(c)
    PROVE  CallsOK' /\ call'[c].pc = "idle"
<1>1. call' \in [Calls -> Call] /\ OnlyCall(c) /\ call'[c].pc = "idle"
  BY CallEnds DEF CallsOK
<1>2. CallKnows(c)'
  BY <1>1 DEF CallKnows
<1> QED BY <1>1, <1>2, CallsKeep

\* A request that has read the account, or been given a name.
LEMMA GoesKeeps ==
    ASSUME CallsOK, NEW c \in Calls,
           NEW pc \in {"rehash", "verified", "consumed", "wrong", "reset", "confirm"},
           NEW seen \in Credentials \cup {None},
           NEW on \in Tokens \cup Challenges \cup {None},
           pc \in {"rehash", "verified", "consumed", "reset"} => seen \in Credentials,
           pc = "wrong" => on \in Challenges, pc = "confirm" => on \in Tokens,
           GoesOn(c, pc, seen, on)
    PROVE  CallsOK' /\ call'[c].pc = pc
<1>1. /\ call' \in [Calls -> Call] /\ OnlyCall(c)
      /\ call'[c].pc = pc /\ call'[c].seen = seen /\ call'[c].on = on
  BY CallGoes DEF CallsOK
<1>2. CallKnows(c)'
  BY <1>1 DEF CallKnows
<1> QED BY <1>1, <1>2, CallsKeep

-----------------------------------------------------------------------------
(* Sessions and tokens.                                                    *)

\* What a session and a token are bound to stays.
SameAccess == /\ user'.disabled = user.disabled /\ user'.email = user.email
              /\ user'.generation = user.generation
              /\ user'.hash.epoch = user.hash.epoch

LEMMA SessionsStay ==
    ASSUME SessionsOK, SameAccess, UNCHANGED sessions
    PROVE  SessionsOK'
BY DEF SessionsOK, SameAccess, SessionsAreCurrent

LEMMA TokensStay ==
    ASSUME TokensOK, SameAccess, UNCHANGED tokens
    PROVE  TokensOK'
BY DEF TokensOK, SameAccess

LEMMA NoSession ==
    ASSUME sessions' = <<>>
    PROVE  SessionsOK'
<1>1. <<>> \in Seq(SessionRow) /\ Len(<<>>) = 0 /\ DOMAIN <<>> = {}
  OBVIOUS
<1>2. 0 <= MaxSessions
  BY AccountBounds
<1> QED BY <1>1, <1>2 DEF SessionsOK, SessionsAreCurrent

LEMMA NoToken ==
    ASSUME tokens' = UseTokens
    PROVE  TokensOK'
BY DEF TokensOK, UseTokens

LEMMA MaxOfTwo ==
    ASSUME NEW k \in Int
    PROVE  Max({0, k}) = IF k > 0 THEN k ELSE 0
<1> PICK m : m = IF k > 0 THEN k ELSE 0
  OBVIOUS
<1>1. m \in {0, k} /\ \A y \in {0, k} : m >= y
  OBVIOUS
<1>2. ASSUME NEW x \in {0, k}, \A y \in {0, k} : x >= y
      PROVE  x = m
  BY <1>2
<1> QED BY <1>1, <1>2, Zenon DEF Max

\* What SubSeq keeps.
LEMMA PartOf ==
    ASSUME NEW S, NEW s \in Seq(S), NEW m \in Int, NEW n \in Int, 1 <= m, n <= Len(s), m <= n + 1
    PROVE  /\ SubSeq(s, m, n) \in Seq(S) /\ Len(SubSeq(s, m, n)) = n - m + 1
           /\ \A i \in 1..(n - m + 1) :
                m + i - 1 \in 1..Len(s) /\ SubSeq(s, m, n)[i] = s[m + i - 1]
<1>1. Len(s) \in Nat /\ \A i \in 1..Len(s) : s[i] \in S
  BY LenProperties
<1>2. \A i \in m..n : s[i] \in S
  BY <1>1
<1>3. /\ SubSeq(s, m, n) \in Seq(S)
      /\ Len(SubSeq(s, m, n)) = IF m <= n THEN n - m + 1 ELSE 0
      /\ \A i \in 1..(n - m + 1) : SubSeq(s, m, n)[i] = s[m + i - 1]
  BY <1>2, SubSeqProperties
<1>4. \A i \in 1..(n - m + 1) : m + i - 1 \in 1..Len(s)
  BY <1>1
<1>5. (IF m <= n THEN n - m + 1 ELSE 0) = n - m + 1
  OBVIOUS
<1> QED BY <1>3, <1>4, <1>5

LEMMA LastAndOne ==
    ASSUME NEW S, NEW s \in Seq(S), NEW k \in Nat, k <= Len(s), NEW x \in S, NEW t,
           t = Append(SubSeq(s, k + 1, Len(s)), x)
    PROVE  /\ t \in Seq(S) /\ Len(t) = Len(s) - k + 1
           /\ \A i \in DOMAIN t : t[i] = x \/ \E j \in DOMAIN s : t[i] = s[j]
<1>1. PICK kept : kept = SubSeq(s, k + 1, Len(s))
  OBVIOUS
<1>2. PICK n : n = Len(s)
  OBVIOUS
<1>3. n \in Nat /\ DOMAIN s = 1..n
  BY <1>2, LenProperties
<1>4. /\ kept \in Seq(S) /\ Len(kept) = n - k
      /\ \A i \in 1..(n - k) : k + i \in 1..n /\ kept[i] = s[k + i]
  <2>1. /\ k + 1 \in Int /\ n \in Int /\ 1 <= k + 1 /\ n <= Len(s) /\ k + 1 <= n + 1
        /\ n - (k + 1) + 1 = n - k /\ \A i \in 1..(n - k) : (k + 1) + i - 1 = k + i
    BY <1>2, <1>3
  <2>2. /\ kept \in Seq(S) /\ Len(kept) = n - (k + 1) + 1
        /\ \A i \in 1..(n - (k + 1) + 1) :
             (k + 1) + i - 1 \in 1..n /\ kept[i] = s[(k + 1) + i - 1]
    BY <1>1, <1>2, <2>1, PartOf
  <2> QED BY <2>1, <2>2
<1>5. t = Append(kept, x)
  BY <1>1
<1>6. /\ t \in Seq(S) /\ Len(t) = n - k + 1
      /\ \A i \in 1..(n - k) : t[i] = kept[i]
      /\ t[n - k + 1] = x
  <2>1. /\ t \in Seq(S) /\ Len(t) = Len(kept) + 1
        /\ \A i \in 1..Len(kept) : t[i] = kept[i]
        /\ t[Len(kept) + 1] = x
    BY ONLY <1>4, <1>5, AppendProperties, x \in S
  <2> QED BY <1>4, <2>1
<1>7. DOMAIN t = 1..(n - k + 1)
  <2>1. DOMAIN t = 1..Len(t)
    BY ONLY <1>6, LenProperties
  <2> QED BY <1>6, <2>1
<1>8. ASSUME NEW i \in DOMAIN t
      PROVE  t[i] = x \/ \E j \in DOMAIN s : t[i] = s[j]
  <2>1. i \in 1..(n - k) \/ i = n - k + 1
    BY <1>2, <1>3, <1>7
  <2>2. CASE i \in 1..(n - k)
    <3>1. t[i] = s[k + i] /\ k + i \in DOMAIN s
      BY ONLY <1>3, <1>4, <1>6, <2>2
    <3> QED BY ONLY <3>1
  <2>3. CASE i = n - k + 1
    BY ONLY <1>6, <2>3
  <2> QED BY ONLY <2>1, <2>2, <2>3
<1> QED BY <1>2, <1>6, <1>8

AllBut(s, i) == SubSeq(s, 1, i - 1) \o SubSeq(s, i + 1, Len(s))

LEMMA AllButOne ==
    ASSUME NEW S, NEW s \in Seq(S), NEW i \in DOMAIN s
    PROVE  /\ AllBut(s, i) \in Seq(S) /\ Len(AllBut(s, i)) = Len(s) - 1
           /\ \A k \in DOMAIN AllBut(s, i) : \E j \in DOMAIN s : AllBut(s, i)[k] = s[j]
<1>0. PICK t : t = AllBut(s, i)
  OBVIOUS
<1>1. PICK n : n = Len(s)
  OBVIOUS
<1>2. PICK front : front = SubSeq(s, 1, i - 1)
  OBVIOUS
<1>3. PICK back : back = SubSeq(s, i + 1, n)
  OBVIOUS
<1>4. n \in Nat /\ DOMAIN s = 1..n /\ i \in 1..n
  BY <1>1, LenProperties
<1>5. /\ front \in Seq(S) /\ Len(front) = i - 1
      /\ \A k \in 1..(i - 1) : k \in 1..n /\ front[k] = s[k]
  <2>1. /\ 1 \in Int /\ i - 1 \in Int /\ 1 <= 1 /\ i - 1 <= Len(s) /\ 1 <= (i - 1) + 1
        /\ (i - 1) - 1 + 1 = i - 1 /\ \A k \in 1..(i - 1) : 1 + k - 1 = k
    BY <1>1, <1>4
  <2>2. /\ front \in Seq(S) /\ Len(front) = (i - 1) - 1 + 1
        /\ \A k \in 1..((i - 1) - 1 + 1) : 1 + k - 1 \in 1..n /\ front[k] = s[1 + k - 1]
    BY <1>1, <1>2, <2>1, PartOf
  <2> QED BY <2>1, <2>2
<1>6. /\ back \in Seq(S) /\ Len(back) = n - i
      /\ \A k \in 1..(n - i) : i + k \in 1..n /\ back[k] = s[i + k]
  <2>1. /\ i + 1 \in Int /\ n \in Int /\ 1 <= i + 1 /\ n <= Len(s) /\ i + 1 <= n + 1
        /\ n - (i + 1) + 1 = n - i /\ \A k \in 1..(n - i) : (i + 1) + k - 1 = i + k
    BY <1>1, <1>4
  <2>2. /\ back \in Seq(S) /\ Len(back) = n - (i + 1) + 1
        /\ \A k \in 1..(n - (i + 1) + 1) :
             (i + 1) + k - 1 \in 1..n /\ back[k] = s[(i + 1) + k - 1]
    <3>1. s \in Seq(S)
      OBVIOUS
    <3>2. back = SubSeq(s, i + 1, n) /\ n = Len(s)
      BY <1>1, <1>3
    <3> QED BY ONLY <2>1, <3>1, <3>2, PartOf
  <2> QED BY <2>1, <2>2
<1>7. t = front \o back
  BY <1>0, <1>1, <1>2, <1>3 DEF AllBut
<1>8. /\ t \in Seq(S) /\ Len(t) = n - 1
      /\ \A k \in 1..(n - 1) : t[k] = IF k <= i - 1 THEN front[k] ELSE back[k - (i - 1)]
  <2>1. /\ t \in Seq(S) /\ Len(t) = Len(front) + Len(back)
        /\ \A k \in 1..(Len(front) + Len(back)) :
             t[k] = IF k <= Len(front) THEN front[k] ELSE back[k - Len(front)]
    BY ONLY <1>5, <1>6, <1>7, ConcatProperties
  <2>2. Len(front) + Len(back) = n - 1
    BY <1>4, <1>5, <1>6
  <2> QED BY <1>5, <2>1, <2>2
<1>9. DOMAIN t = 1..(n - 1)
  <2>1. DOMAIN t = 1..Len(t)
    BY ONLY <1>8, LenProperties
  <2> QED BY <1>8, <2>1
<1>10. ASSUME NEW k \in DOMAIN t
       PROVE  \E j \in DOMAIN s : t[k] = s[j]
  <2>1. k \in 1..(n - 1)
    BY <1>9
  <2>2. CASE k <= i - 1
    <3>1. k \in 1..(i - 1)
      BY <1>4, <2>1, <2>2
    <3>2. t[k] = s[k] /\ k \in DOMAIN s
      BY ONLY <1>4, <1>5, <1>8, <2>1, <2>2, <3>1
    <3> QED BY ONLY <3>2
  <2>3. CASE ~(k <= i - 1)
    <3>1. k - (i - 1) \in 1..(n - i)
      BY <1>4, <2>1, <2>3
    <3>2. t[k] = s[i + (k - (i - 1))] /\ i + (k - (i - 1)) \in DOMAIN s
      BY ONLY <1>4, <1>6, <1>8, <2>1, <2>3, <3>1
    <3> QED BY ONLY <3>2
  <2> QED BY ONLY <2>2, <2>3
<1> QED BY <1>0, <1>1, <1>8, <1>10

\* The sessions that are left, and at most the new one.
Follows(next, row) ==
    /\ next \in Seq(SessionRow) /\ Len(next) <= MaxSessions
    /\ \A i \in DOMAIN next :
         next[i] = row \/ \E j \in DOMAIN sessions : next[i] = sessions[j]

\* The newest sessions stay, and the new one is added.
LEMMA CreatedSession ==
    ASSUME SessionsOK, NEW row \in SessionRow
    PROVE  Follows(createSession(row.epoch, row.generation), row)
<1>0. PICK next : next = createSession(row.epoch, row.generation)
  OBVIOUS
<1>1. PICK n : n = Len(sessions)
  OBVIOUS
<1>2. n \in Nat /\ MaxSessions \in Nat \ {0} /\ sessions \in Seq(SessionRow) /\ n <= MaxSessions
  BY <1>1, LenProperties, AccountBounds DEF SessionsOK
<1>3. PICK extra : extra = Max({0, n - (MaxSessions - 1)})
  OBVIOUS
<1>4. extra = IF n - (MaxSessions - 1) > 0 THEN n - (MaxSessions - 1) ELSE 0
  <2>1. n - (MaxSessions - 1) \in Int
    BY <1>2
  <2> QED BY <1>3, <2>1, MaxOfTwo
<1>5. extra \in Nat /\ extra <= n /\ n - extra + 1 <= MaxSessions
  BY <1>2, <1>4
<1>6. row = [epoch |-> row.epoch, generation |-> row.generation]
  BY DEF SessionRow
<1>7. next = Append(SubSeq(sessions, extra + 1, n), row)
  BY <1>0, <1>1, <1>3, <1>6 DEF createSession
<1>8. /\ next \in Seq(SessionRow) /\ Len(next) = n - extra + 1
      /\ \A i \in DOMAIN next : next[i] = row \/ \E j \in DOMAIN sessions : next[i] = sessions[j]
  <2>1. row \in SessionRow
    OBVIOUS
  <2> QED BY ONLY <1>1, <1>2, <1>5, <1>7, <2>1, LastAndOne
<1>9. Len(next) <= MaxSessions
  BY <1>5, <1>8
<1> QED BY <1>0, <1>8, <1>9 DEF Follows

LEMMA EndedSession ==
    ASSUME SessionsOK, NEW i \in DOMAIN sessions, NEW row
    PROVE  Follows(AllBut(sessions, i), row)
<1>1. sessions \in Seq(SessionRow) /\ Len(sessions) <= MaxSessions /\ MaxSessions \in Nat
  BY AccountBounds DEF SessionsOK
<1>2. PICK next : next = AllBut(sessions, i)
  OBVIOUS
<1>3. /\ next \in Seq(SessionRow) /\ Len(next) = Len(sessions) - 1
      /\ \A k \in DOMAIN next : \E j \in DOMAIN sessions : next[k] = sessions[j]
  BY <1>1, <1>2, AllButOne
<1>4. Len(sessions) \in Nat
  BY ONLY <1>1, LenProperties
<1>5. Len(next) <= MaxSessions
  BY ONLY <1>1, <1>3, <1>4
<1> QED BY <1>2, <1>3, <1>5 DEF Follows

\* Sessions that are old ones or of the account as it is.
LEMMA SessionsMove ==
    ASSUME SessionsOK, UNCHANGED user, NEW row, Follows(sessions', row),
           \/ \E j \in DOMAIN sessions : row = sessions[j]
           \/ /\ ~user.disabled /\ row.epoch = user.hash.epoch
              /\ row.generation = user.generation
    PROVE  SessionsOK'
<1>1. ASSUME NEW i \in DOMAIN sessions'
      PROVE  /\ ~user.disabled /\ sessions'[i].epoch = user.hash.epoch
             /\ sessions'[i].generation = user.generation
  BY DEF SessionsOK, Follows, SessionsAreCurrent
<1> QED BY <1>1 DEF SessionsOK, Follows, SessionsAreCurrent

\* Another password closes everything that was open.
LEMMA NewPasswordKeeps ==
    ASSUME user \in UserRow, NewPassword
    PROVE  user' \in UserRow /\ SessionsOK' /\ TokensOK'
<1>1. sessions' = <<>> /\ tokens' = UseTokens
  BY DEF NewPassword
<1> PICK hash : hash = [epoch |-> user.hash.epoch + 1, current |-> TRUE]
  OBVIOUS
<1>2. hash \in Hash
  <2>1. user.hash.epoch \in 0..MaxEpoch /\ user.hash.epoch < MaxEpoch /\ MaxEpoch \in Nat
    BY AccountBounds DEF UserRow, Hash, NewPassword
  <2>2. user.hash.epoch + 1 \in 0..MaxEpoch
    BY <2>1
  <2> QED BY <2>2 DEF Hash
<1>3. user' \in UserRow
  <2>1. user' = [user EXCEPT !.hash = hash]
    BY DEF NewPassword
  <2> QED BY <1>2, <2>1 DEF UserRow
<1> QED BY <1>1, <1>3, NoSession, NoToken

-----------------------------------------------------------------------------
(* Every step keeps the invariant.                                         *)

\* A step that leaves the account alone, and at most moves a request.
LEMMA OnlyCallsMove ==
    ASSUME AccountInv, UNCHANGED <<user, sessions, tokens, challenges>>, CallsOK'
    PROVE  AccountInv'
<1>1. SameAccess
  BY DEF SameAccess
<1>2. SessionsOK' /\ TokensOK'
  BY <1>1, SessionsStay, TokensStay DEF AccountInv
<1> QED BY <1>2 DEF AccountInv, ChallengesOK, UserRow

LEMMA ReadCredentials ==
    ASSUME user \in UserRow
    PROVE  /\ CredentialsOf(user) \in Credentials
           /\ [f \in {"email", "role", "disabled", "generation"} |-> user[f]] \in EditedRow
BY DEF UserRow, CredentialsOf, Credentials, EditedRow

LEMMA LoginKeeps ==
    ASSUME AccountInv, NEW c \in Calls,
           verifyLoginCredentials(c) \/ requestReset(c)
    PROVE  AccountInv'
<1>1. PICK pc \in {"rehash", "verified", "reset"} :
        GoesOn(c, pc, CredentialsOf(user), None)
  BY DEF verifyLoginCredentials, requestReset
<1>2. UNCHANGED <<user, sessions, tokens, challenges>>
  BY DEF verifyLoginCredentials, requestReset
<1>3. CallsOK'
  <2>1. CredentialsOf(user) \in Credentials
    BY ReadCredentials DEF AccountInv
  <2> QED BY <1>1, <2>1, GoesKeeps DEF AccountInv
<1> QED BY <1>2, <1>3, OnlyCallsMove

LEMMA RefuseKeeps ==
    ASSUME AccountInv, NEW c \in Calls, NEW m \in Challenges, RefuseCode(c, m)
    PROVE  AccountInv'
<1>1. GoesOn(c, "wrong", None, m) /\ UNCHANGED <<user, sessions, tokens, challenges>>
  BY DEF RefuseCode
<1>2. CallsOK'
  BY <1>1, GoesKeeps DEF AccountInv
<1> QED BY <1>1, <1>2, OnlyCallsMove

LEMMA OpenLinkKeeps ==
    ASSUME AccountInv, NEW c \in Calls, NEW t \in Tokens,
           getActivePasswordResetUser(c, t)
    PROVE  AccountInv'
<1>1. GoesOn(c, "confirm", None, t) /\ UNCHANGED <<user, sessions, tokens, challenges>>
  BY DEF getActivePasswordResetUser
<1>2. CallsOK'
  BY <1>1, GoesKeeps DEF AccountInv
<1> QED BY <1>1, <1>2, OnlyCallsMove

LEMMA CrashedKeeps ==
    ASSUME AccountInv, NEW c \in Calls, Crash(c)
    PROVE  AccountInv'
<1>1. IsOver(c) /\ UNCHANGED <<user, sessions, tokens, challenges>>
  BY DEF Crash
<1> QED BY <1>1, EndsKeeps, OnlyCallsMove DEF AccountInv

LEMMA AuthorizeKeeps ==
    ASSUME AccountInv, NEW c \in Calls, NEW patch \in Patches,
           NEW owner \in BOOLEAN, authorizePatch(c, patch, owner)
    PROVE  AccountInv'
<1>1. /\ patch.field = "role" /\ patch.to = "OWNER" => owner
      /\ UNCHANGED <<user, sessions, tokens, challenges>>
  BY DEF authorizePatch
<1> PICK pc : pc = IF patch.field = "password" THEN "set" ELSE "read"
  OBVIOUS
<1>2. PICK row : row = [NoCall EXCEPT !.pc = pc, !.patch = patch, !.owner = owner]
  OBVIOUS
<1>3. call' = [call EXCEPT ![c] = row]
  BY <1>2 DEF authorizePatch
<1>4. row \in Call /\ row.pc = pc /\ row.patch = patch /\ row.owner = owner
  BY <1>2 DEF NoCall, Call
<1>5. call' \in [Calls -> Call] /\ OnlyCall(c) /\ call'[c] = row
  BY <1>3, <1>4 DEF AccountInv, CallsOK, OnlyCall
<1>6. CallKnows(c)'
  BY <1>1, <1>4, <1>5 DEF CallKnows
<1>7. CallsOK'
  BY <1>5, <1>6, CallsKeep DEF AccountInv
<1> QED BY <1>1, <1>7, OnlyCallsMove

LEMMA ReadKeeps ==
    ASSUME AccountInv, NEW c \in Calls, readUser(c)
    PROVE  AccountInv'
<1> PICK row : row = [f \in {"email", "role", "disabled", "generation"} |-> user[f]]
  OBVIOUS
<1>1. /\ call[c].pc = "read" /\ GoesOn(c, "write", row, None)
      /\ UNCHANGED <<user, sessions, tokens, challenges>>
  BY DEF readUser
<1>2. row \in EditedRow
  BY ReadCredentials DEF AccountInv
<1>3. /\ call' \in [Calls -> Call] /\ OnlyCall(c)
      /\ call'[c].pc = "write" /\ call'[c].seen = row
      /\ call'[c].patch = call[c].patch /\ call'[c].owner = call[c].owner
  <2>1. call \in [Calls -> Call]
    BY DEF AccountInv, CallsOK
  <2> QED BY ONLY <1>1, <1>2, <2>1, CallGoes, c \in Calls
<1>4. CallKnows(c)
  BY DEF AccountInv, CallsOK
<1>5. CallKnows(c)'
  BY ONLY <1>1, <1>2, <1>3, <1>4 DEF CallKnows
<1>6. CallsOK'
  BY <1>3, <1>5, CallsKeep DEF AccountInv
<1> QED BY <1>1, <1>6, OnlyCallsMove

\* An old hash in today's format: the account is the same to the rest.
LEMMA UpgradeKeeps ==
    ASSUME AccountInv, NEW c \in Calls, updateUserPasswordHashIfCurrent(c)
    PROVE  AccountInv'
<1>1. call[c].pc = "rehash" /\ CallKnows(c) /\ call[c].seen \in Credentials
  BY DEF updateUserPasswordHashIfCurrent, AccountInv, CallsOK, CallKnows
<1>2. UNCHANGED <<sessions, tokens, challenges>>
  BY DEF updateUserPasswordHashIfCurrent
<1>3. CASE user.hash = call[c].seen.hash
  <2> PICK seen : seen = [call[c].seen EXCEPT !.hash.current = TRUE]
    OBVIOUS
  <2>1. /\ user' = [user EXCEPT !.hash.current = TRUE]
        /\ GoesOn(c, "verified", seen, None)
    BY <1>3 DEF updateUserPasswordHashIfCurrent
  <2>2. seen \in Credentials
    BY <1>1 DEF Credentials, Hash
  <2>3. CallsOK'
    BY <2>1, <2>2, GoesKeeps DEF AccountInv
  <2>4. user \in UserRow
    BY DEF AccountInv
  <2>5. user' \in UserRow /\ SameAccess
    BY ONLY <2>1, <2>4 DEF SameAccess, UserRow, Hash
  <2>6. SessionsOK' /\ TokensOK'
    BY <1>2, <2>5, SessionsStay, TokensStay DEF AccountInv
  <2> QED BY <1>2, <2>3, <2>5, <2>6 DEF AccountInv, ChallengesOK
<1>4. CASE user.hash # call[c].seen.hash
  <2>1. IsOver(c) /\ UNCHANGED user
    BY <1>4 DEF updateUserPasswordHashIfCurrent
  <2> QED BY <1>2, <2>1, EndsKeeps, OnlyCallsMove DEF AccountInv
<1> QED BY <1>3, <1>4

LEMMA CreateSessionKeeps ==
    ASSUME AccountInv, NEW c \in Calls, createSessionIfCredentialsCurrent(c)
    PROVE  AccountInv'
<1> PICK seen : seen = call[c].seen
  OBVIOUS
<1>1. /\ seen \in Credentials
      /\ IsOver(c) /\ UNCHANGED <<user, tokens, challenges>>
      /\ sessions' = IF MayCreateSession(seen)
                       THEN createSession(seen.hash.epoch, seen.generation) ELSE sessions
  BY DEF createSessionIfCredentialsCurrent, AccountInv, CallsOK, CallKnows
<1>2. CASE ~MayCreateSession(seen)
  BY <1>1, <1>2, EndsKeeps, OnlyCallsMove DEF AccountInv
<1>3. CASE MayCreateSession(seen)
  <2>1. ~user.disabled /\ CredentialsOf(user) = seen
    BY <1>3 DEF MayCreateSession, IsCurrent
  <2>2. PICK row : row = [epoch |-> seen.hash.epoch, generation |-> seen.generation]
    OBVIOUS
  <2>3. row.epoch = seen.hash.epoch /\ row.generation = seen.generation
    BY <2>2
  <2>4. row \in SessionRow
    BY <1>1, <2>2 DEF SessionRow, Credentials, Hash
  <2>5. row.epoch = user.hash.epoch /\ row.generation = user.generation
    BY <2>1, <2>3 DEF CredentialsOf
  <2>6. sessions' = createSession(row.epoch, row.generation)
    BY <1>1, <1>3, <2>3
  <2>7. Follows(sessions', row)
    BY <2>4, <2>6, CreatedSession DEF AccountInv
  <2>8. SessionsOK'
    BY <1>1, <2>1, <2>5, <2>7, SessionsMove DEF AccountInv
  <2>9. TokensOK'
    BY <1>1, TokensStay DEF AccountInv, SameAccess
  <2> QED BY <1>1, <2>8, <2>9, EndsKeeps DEF AccountInv, ChallengesOK
<1> QED BY <1>2, <1>3

LEMMA EndSessionKeeps ==
    ASSUME AccountInv, NEW i, EndSession(i)
    PROVE  AccountInv'
<1>1. /\ i \in DOMAIN sessions /\ UNCHANGED <<user, tokens, challenges, call>>
      /\ sessions' = SubSeq(sessions, 1, i - 1) \o SubSeq(sessions, i + 1, Len(sessions))
  BY DEF EndSession
<1>2. Follows(sessions', sessions[i])
  BY <1>1, EndedSession DEF AccountInv, AllBut
<1>3. SessionsOK'
  BY <1>1, <1>2, SessionsMove DEF AccountInv
<1>4. TokensOK'
  BY <1>1, TokensStay DEF AccountInv, SameAccess
<1> QED BY <1>1, <1>3, <1>4 DEF AccountInv, ChallengesOK, CallsOK, CallKnows

\* The new link takes the place of the others.
LEMMA CreateTokenKeeps ==
    ASSUME AccountInv, NEW c \in Calls, createPasswordResetToken(c)
    PROVE  AccountInv'
<1>1. IsOver(c) /\ UNCHANGED <<user, sessions, challenges>>
  BY DEF createPasswordResetToken
<1>2. SessionsOK'
  BY <1>1, SessionsStay DEF AccountInv, SameAccess
<1>3. CASE UNCHANGED tokens
  BY <1>1, <1>3, EndsKeeps, OnlyCallsMove DEF AccountInv
<1>4. CASE ~UNCHANGED tokens
  <2> PICK row : row = [email |-> user.email, generation |-> user.generation,
                        epoch |-> user.hash.epoch]
    OBVIOUS
  <2>1. /\ ~user.disabled
        /\ \E t \in Tokens : tokens' = [UseTokens EXCEPT ![t] = row]
    BY <1>4 DEF createPasswordResetToken, IsCurrent
  <2>2. PICK t \in Tokens : tokens' = [UseTokens EXCEPT ![t] = row]
    BY <2>1
  <2>3. row \in TokenRow
    BY DEF AccountInv, UserRow, Hash, TokenRow
  <2>4. /\ tokens' \in [Tokens -> TokenRow \cup {None}] /\ tokens'[t] = row
        /\ \A u \in Tokens \ {t} : tokens'[u] = None
    BY <2>2, <2>3 DEF UseTokens
  <2>5. TokensOK'
    BY <1>1, <2>1, <2>4 DEF TokensOK
  <2> QED BY <1>1, <1>2, <2>5, EndsKeeps DEF AccountInv, ChallengesOK
<1> QED BY <1>3, <1>4

LEMMA LoseTokenKeeps ==
    ASSUME AccountInv, NEW t \in Tokens, LoseToken(t)
    PROVE  AccountInv'
<1>1. /\ tokens' = [tokens EXCEPT ![t] = None]
      /\ UNCHANGED <<user, sessions, challenges, call>>
  BY DEF LoseToken
<1>2. SessionsOK'
  BY <1>1, SessionsStay DEF AccountInv, SameAccess
<1>3. TokensOK'
  BY <1>1 DEF AccountInv, TokensOK
<1> QED BY <1>1, <1>2, <1>3 DEF AccountInv, ChallengesOK, CallsOK, CallKnows

LEMMA PasswordKeeps ==
    ASSUME AccountInv, NEW c \in Calls,
           resetPasswordWithToken(c) \/ setUserPassword(c)
    PROVE  AccountInv'
<1>1. /\ IsOver(c) /\ UNCHANGED challenges
      /\ NewPassword \/ UNCHANGED <<user, sessions, tokens>>
  BY DEF resetPasswordWithToken, setUserPassword
<1>2. CallsOK'
  BY <1>1, EndsKeeps DEF AccountInv
<1>3. CASE UNCHANGED <<user, sessions, tokens>>
  BY <1>1, <1>2, <1>3, OnlyCallsMove
<1>4. CASE NewPassword
  <2>1. user' \in UserRow /\ SessionsOK' /\ TokensOK'
    BY <1>4, NewPasswordKeeps DEF AccountInv
  <2> QED BY <1>1, <1>2, <2>1 DEF AccountInv, ChallengesOK
<1> QED BY <1>1, <1>3, <1>4

\* A step that touches the challenges alone.
LEMMA OnlyChallengesMove ==
    ASSUME AccountInv, UNCHANGED <<user, sessions, tokens>>, CallsOK',
           challenges' \in AccTable, Bounded(challenges')
    PROVE  AccountInv'
<1>1. SameAccess
  BY DEF SameAccess
<1>2. SessionsOK' /\ TokensOK'
  BY <1>1, SessionsStay, TokensStay DEF AccountInv
<1>3. ChallengesOK'
  BY DEF ChallengesOK, Bounded, Cohort, AccTable
<1> QED BY <1>2, <1>3 DEF AccountInv

LEMMA CreateChallengeKeeps ==
    ASSUME AccountInv, NEW c \in Calls, createLoginStepUpChallenge(c)
    PROVE  AccountInv'
<1>1. IsOver(c) /\ UNCHANGED <<user, sessions, tokens>>
  BY DEF createLoginStepUpChallenge
<1>2. CallsOK'
  BY <1>1, EndsKeeps DEF AccountInv
<1>3. CASE UNCHANGED challenges
  BY <1>1, <1>2, <1>3, OnlyCallsMove
<1>4. CASE ~UNCHANGED challenges
  <2>1. PICK row : row = [expected |-> CredentialsOf(user), failed |-> 0]
    OBVIOUS
  <2>2. PICK m \in Challenges : challenges' = [challenges EXCEPT ![m] = row]
    BY <1>4, <2>1 DEF createLoginStepUpChallenge
  <2>3. row \in ChallengeRow /\ row.failed = 0
    <3>1. CredentialsOf(user) \in Credentials
      BY ReadCredentials DEF AccountInv
    <3>2. 0 \in 0..MaxWrong
      BY AccountBounds
    <3> QED BY <2>1, <3>1, <3>2 DEF ChallengeRow
  <2>4. challenges' \in AccTable /\ Bounded(challenges')
    BY <2>2, <2>3, BoundedWithout DEF AccountInv, ChallengesOK
  <2> QED BY <1>1, <1>2, <2>4, OnlyChallengesMove
<1> QED BY <1>3, <1>4

LEMMA WithoutChallenge ==
    ASSUME ChallengesOK, NEW m \in Challenges,
           challenges' = [challenges EXCEPT ![m] = None]
    PROVE  challenges' \in AccTable /\ Bounded(challenges')
BY BoundedWithout DEF ChallengesOK

LEMMA ConsumeKeeps ==
    ASSUME AccountInv, NEW c \in Calls, NEW m \in Challenges,
           consumeLoginStepUpChallenge(c, m)
    PROVE  AccountInv'
<1> PICK seen : seen = challenges[m].expected
  OBVIOUS
<1>1. /\ GoesOn(c, "consumed", seen, None) /\ UNCHANGED <<user, sessions, tokens>>
      /\ challenges' = [challenges EXCEPT ![m] = None] /\ challenges[m] # None
  BY DEF consumeLoginStepUpChallenge, TakesCode
<1>2. seen \in Credentials
  BY <1>1 DEF AccountInv, ChallengesOK, AccTable, ChallengeRow
<1>3. CallsOK'
  BY <1>1, <1>2, GoesKeeps DEF AccountInv
<1>4. challenges' \in AccTable /\ Bounded(challenges')
  BY <1>1, WithoutChallenge DEF AccountInv
<1> QED BY <1>1, <1>3, <1>4, OnlyChallengesMove

LEMMA LoseChallengeKeeps ==
    ASSUME AccountInv, NEW m \in Challenges, LoseChallenge(m)
    PROVE  AccountInv'
<1>1. /\ challenges' = [challenges EXCEPT ![m] = None]
      /\ UNCHANGED <<user, sessions, tokens, call>>
  BY DEF LoseChallenge
<1>2. challenges' \in AccTable /\ Bounded(challenges')
  BY <1>1, WithoutChallenge DEF AccountInv
<1>3. CallsOK'
  BY <1>1 DEF AccountInv, CallsOK, CallKnows
<1> QED BY <1>1, <1>2, <1>3, OnlyChallengesMove

\* The sum is asked again in the statement that counts.
LEMMA CountKeeps ==
    ASSUME AccountInv, NEW c \in Calls, incrementLoginStepUpFailure(c)
    PROVE  AccountInv'
<1> PICK m : m = call[c].on
  OBVIOUS
<1>1. /\ call[c].pc = "wrong" /\ IsOver(c) /\ UNCHANGED <<user, sessions, tokens>>
      /\ challenges' = IF CountsFailure(m)
                         THEN [challenges EXCEPT ![m].failed = @ + 1] ELSE challenges
  BY DEF incrementLoginStepUpFailure
<1>2. m \in Challenges
  BY <1>1 DEF AccountInv, CallsOK, CallKnows
<1>3. CallsOK'
  BY <1>1, EndsKeeps DEF AccountInv
<1>4. CASE ~CountsFailure(m)
  BY <1>1, <1>3, <1>4, OnlyCallsMove
<1>5. CASE CountsFailure(m)
  <2> PICK gen : gen = challenges[m].expected.generation
    OBVIOUS
  <2>1. challenges[m] # None /\ Wrong(gen) < MaxWrong
    BY <1>5 DEF CountsFailure, TakesCode
  <2>2. Failures(challenges, Cohort(challenges, gen)) < MaxWrong
    <3>1. Wrong(gen) = Failures(challenges, Cohort(challenges, gen))
      BY WrongIsFailures, Zenon
    <3> QED BY <2>1, <3>1
  <2>3. challenges' = [challenges EXCEPT ![m].failed = @ + 1]
    BY <1>1, <1>5
  <2>4. challenges' \in AccTable /\ Bounded(challenges')
    BY <1>2, <2>1, <2>2, <2>3, BoundedCount DEF AccountInv, ChallengesOK
  <2> QED BY <1>1, <1>3, <2>4, OnlyChallengesMove
<1> QED BY <1>4, <1>5

-----------------------------------------------------------------------------
(* An edit.                                                                *)

LEMMA PatchKinds ==
    ASSUME NEW patch \in Patches
    PROVE  \/ patch.field = "email" /\ patch.to \in Emails
           \/ patch.field = "role" /\ patch.to \in Roles
           \/ patch.field = "disabled" /\ patch.to \in BOOLEAN
           \/ patch.field = "password"
BY DEF Patches

\* What is written: the field that was asked for, and the generation.
LEMMA PatchedRow ==
    ASSUME NEW row \in EditedRow, NEW patch \in Patches,
           patch.field # "password", NEW next, next = Patched(row, patch)
    PROVE  /\ next.email = IF patch.field = "email" THEN patch.to ELSE row.email
           /\ next.role = IF patch.field = "role" THEN patch.to ELSE row.role
           /\ next.disabled = IF patch.field = "disabled" THEN patch.to ELSE row.disabled
           /\ next.generation = IF next.email # row.email \/ next.disabled # row.disabled
                                  THEN row.generation + 1 ELSE row.generation
           /\ next.email \in Emails /\ next.role \in Roles /\ next.disabled \in BOOLEAN
           /\ row.generation \in 0..MaxGeneration
<1> PICK changed : changed = [row EXCEPT ![patch.field] = patch.to]
  OBVIOUS
<1>1. row = [email |-> row.email, role |-> row.role, disabled |-> row.disabled,
             generation |-> row.generation]
      /\ row.email \in Emails /\ row.role \in Roles /\ row.disabled \in BOOLEAN
      /\ row.generation \in 0..MaxGeneration
  BY DEF EditedRow
<1>2. /\ changed.email = IF patch.field = "email" THEN patch.to ELSE row.email
      /\ changed.role = IF patch.field = "role" THEN patch.to ELSE row.role
      /\ changed.disabled = IF patch.field = "disabled" THEN patch.to ELSE row.disabled
      /\ changed.generation = row.generation
      /\ DOMAIN changed = {"email", "role", "disabled", "generation"}
      /\ changed.email \in Emails /\ changed.role \in Roles /\ changed.disabled \in BOOLEAN
  <2>1. CASE patch.field = "email" /\ patch.to \in Emails
    BY <2>1 DEF EditedRow
  <2>2. CASE patch.field = "role" /\ patch.to \in Roles
    BY <2>2 DEF EditedRow
  <2>3. CASE patch.field = "disabled" /\ patch.to \in BOOLEAN
    BY <2>3 DEF EditedRow
  <2> QED BY <2>1, <2>2, <2>3, PatchKinds
<1>3. changed \in EditedRow
  BY <1>1, <1>2 DEF EditedRow
<1> DEFINE resets == changed.email # row.email \/ changed.disabled # row.disabled
<1>4. next = [changed EXCEPT !.generation = @ + (IF resets THEN 1 ELSE 0)]
  BY Zenon DEF Patched
<1>5. /\ next.email = changed.email /\ next.role = changed.role
      /\ next.disabled = changed.disabled
      /\ next.generation = changed.generation + (IF resets THEN 1 ELSE 0)
  BY <1>3, <1>4 DEF EditedRow
<1> QED BY <1>1, <1>2, <1>5

\* The account after an edit: it was still the row that was read.
Edited(patch) ==
    /\ user' \in UserRow
    /\ user'.email = IF patch.field = "email" THEN patch.to ELSE user.email
    /\ user'.role = IF patch.field = "role" THEN patch.to ELSE user.role
    /\ user'.disabled = IF patch.field = "disabled" THEN patch.to ELSE user.disabled
    /\ user'.hash = user.hash
    /\ user'.generation = IF user'.email # user.email \/ user'.disabled # user.disabled
                            THEN user.generation + 1 ELSE user.generation
    /\ IF user'.generation = user.generation
         THEN UNCHANGED <<sessions, tokens>>
         ELSE sessions' = <<>> /\ tokens' = UseTokens

LEMMA EditSteps ==
    ASSUME AccountInv, NEW c \in Calls, updateUser(c)
    PROVE  /\ call[c].pc = "write" /\ IsOver(c) /\ UNCHANGED challenges
           /\ call[c].patch \in Patches /\ call[c].patch.field # "password"
           /\ call[c].patch.field = "role" /\ call[c].patch.to = "OWNER" => call[c].owner
           /\ \/ UNCHANGED <<user, sessions, tokens>>
              \/ Edited(call[c].patch) /\ ~Protected(call[c].owner)
<1>1. PICK row : row = call[c].seen
  OBVIOUS
<1>2. PICK patch : patch = call[c].patch
  OBVIOUS
<1>3. PICK next : next = Patched(row, patch)
  OBVIOUS
<1>4. /\ call[c].pc = "write" /\ IsOver(c) /\ UNCHANGED challenges
      /\ IF RowIsAsRead(row) /\ ~Protected(call[c].owner)
           THEN /\ next.generation <= MaxGeneration
                /\ user' = [user EXCEPT !.email = next.email, !.role = next.role,
                                        !.disabled = next.disabled,
                                        !.generation = next.generation]
                /\ IF next.generation = row.generation
                     THEN UNCHANGED <<sessions, tokens>>
                     ELSE sessions' = <<>> /\ tokens' = UseTokens
           ELSE UNCHANGED <<user, sessions, tokens>>
  BY <1>1, <1>2, <1>3 DEF updateUser
<1>5. /\ row \in EditedRow /\ patch \in Patches /\ patch.field # "password"
      /\ patch.field = "role" /\ patch.to = "OWNER" => call[c].owner
  BY <1>1, <1>2, <1>4 DEF AccountInv, CallsOK, CallKnows
<1>6. /\ next.email = IF patch.field = "email" THEN patch.to ELSE row.email
      /\ next.role = IF patch.field = "role" THEN patch.to ELSE row.role
      /\ next.disabled = IF patch.field = "disabled" THEN patch.to ELSE row.disabled
      /\ next.generation = IF next.email # row.email \/ next.disabled # row.disabled
                             THEN row.generation + 1 ELSE row.generation
      /\ next.email \in Emails /\ next.role \in Roles /\ next.disabled \in BOOLEAN
      /\ row.generation \in 0..MaxGeneration
  BY <1>3, <1>5, PatchedRow
<1>7. ASSUME RowIsAsRead(row), ~Protected(call[c].owner)
      PROVE  Edited(patch)
  <2>1. /\ user.email = row.email /\ user.role = row.role /\ user.disabled = row.disabled
        /\ user.generation = row.generation
    <3>1. DOMAIN row = {"email", "role", "disabled", "generation"}
      BY <1>5 DEF EditedRow
    <3> QED BY <1>7, <3>1 DEF RowIsAsRead
  <2>2. user \in UserRow
    BY DEF AccountInv
  <2>3. next.generation \in 0..MaxGeneration
    <3>1. next.generation <= MaxGeneration /\ MaxGeneration \in Nat
      BY <1>4, <1>7, AccountBounds
    <3> QED BY <1>6, <3>1
  <2>4. /\ user' \in UserRow
        /\ user'.email = next.email /\ user'.role = next.role /\ user'.disabled = next.disabled
        /\ user'.generation = next.generation /\ user'.hash = user.hash
    <3> DEFINE row1 == [user EXCEPT !.email = next.email]
               row2 == [row1 EXCEPT !.role = next.role]
               row3 == [row2 EXCEPT !.disabled = next.disabled]
               row4 == [row3 EXCEPT !.generation = next.generation]
    <3>1. user' = row4
      BY <1>4, <1>7
    <3>2. row1 \in UserRow /\ row1.email = next.email /\ row1.hash = user.hash
      BY <1>6, <2>2 DEF UserRow
    <3> HIDE DEF row1
    <3>3. row2 \in UserRow /\ row2.email = next.email /\ row2.hash = user.hash
          /\ row2.role = next.role
      BY <1>6, <3>2 DEF UserRow
    <3> HIDE DEF row2
    <3>4. row3 \in UserRow /\ row3.email = next.email /\ row3.hash = user.hash
          /\ row3.role = next.role /\ row3.disabled = next.disabled
      BY <1>6, <3>3 DEF UserRow
    <3> HIDE DEF row3
    <3>5. row4 \in UserRow /\ row4.email = next.email /\ row4.hash = user.hash
          /\ row4.role = next.role /\ row4.disabled = next.disabled
          /\ row4.generation = next.generation
      BY <2>3, <3>4 DEF UserRow
    <3> HIDE DEF row4
    <3> QED BY <3>1, <3>5
  <2>5. IF user'.generation = user.generation
          THEN UNCHANGED <<sessions, tokens>>
          ELSE sessions' = <<>> /\ tokens' = UseTokens
    BY <1>4, <1>7, <2>1, <2>4
  <2> QED BY ONLY <1>6, <2>1, <2>4, <2>5 DEF Edited
<1> QED BY <1>2, <1>4, <1>5, <1>7

LEMMA EditKeeps ==
    ASSUME AccountInv, NEW c \in Calls, updateUser(c)
    PROVE  AccountInv'
<1>1. /\ IsOver(c) /\ UNCHANGED challenges
      /\ UNCHANGED <<user, sessions, tokens>> \/ Edited(call[c].patch)
  BY EditSteps
<1>2. CallsOK'
  BY <1>1, EndsKeeps DEF AccountInv
<1>3. CASE UNCHANGED <<user, sessions, tokens>>
  BY <1>1, <1>2, <1>3, OnlyCallsMove
<1>4. CASE Edited(call[c].patch)
  <2>1. user' \in UserRow
    BY <1>4 DEF Edited
  <2>2. CASE user'.generation = user.generation
    <3>1. SameAccess /\ UNCHANGED <<sessions, tokens>>
      <4>1. user.generation \in Nat
        BY AccountBounds DEF AccountInv, UserRow
      <4>2. user.generation + 1 # user.generation
        BY <4>1
      <4>3. user'.email = user.email /\ user'.disabled = user.disabled
        BY <1>4, <2>2, <4>2 DEF Edited
      <4> QED BY <1>4, <2>2, <4>3 DEF Edited, SameAccess
    <3> QED BY <1>1, <1>2, <2>1, <3>1, SessionsStay, TokensStay DEF AccountInv, ChallengesOK
  <2>3. CASE user'.generation # user.generation
    <3>1. sessions' = <<>> /\ tokens' = UseTokens
      BY <1>4, <2>3 DEF Edited
    <3> QED BY <1>1, <1>2, <2>1, <3>1, NoSession, NoToken DEF AccountInv, ChallengesOK
  <2> QED BY <2>2, <2>3
<1> QED BY <1>1, <1>3, <1>4

-----------------------------------------------------------------------------
\* The invariant holds at first, and every step keeps it.
LEMMA AccountStarts == AccInit => AccountInv
<1> SUFFICES ASSUME AccInit
             PROVE  AccountInv
  OBVIOUS
<1>1. 0 \in 0..MaxEpoch /\ 0 \in 0..MaxGeneration
  BY AccountBounds
<1>2. user \in UserRow
  BY <1>1 DEF AccInit, UserRow, Hash
<1>3. SessionsOK
  <2>1. <<>> \in Seq(SessionRow) /\ Len(<<>>) = 0 /\ DOMAIN <<>> = {} /\ 0 <= MaxSessions
    BY AccountBounds
  <2> QED BY <2>1 DEF AccInit, SessionsOK, SessionsAreCurrent
<1>4. TokensOK
  BY DEF AccInit, TokensOK
<1>5. ChallengesOK
  <2>1. challenges \in AccTable /\ \A m \in Challenges : challenges[m] = None
    BY DEF AccInit, AccTable
  <2>2. ASSUME NEW g \in 0..MaxGeneration
        PROVE  Failures(challenges, Cohort(challenges, g)) <= MaxWrong
    <3>1. Cohort(challenges, g) = {} /\ IsFiniteSet({})
      BY <2>1, FS_EmptySet DEF Cohort
    <3>2. Failures(challenges, {}) = 0
      BY <3>1, FailuresFacts
    <3> QED BY <3>1, <3>2, AccountBounds
  <2> QED BY <2>1, <2>2 DEF ChallengesOK, Bounded
<1>6. CallsOK
  BY DEF AccInit, CallsOK, CallKnows, NoCall, Call
<1> QED BY <1>2, <1>3, <1>4, <1>5, <1>6 DEF AccountInv

LEMMA AccountStep == AccountInv /\ [AccNext]_(accVars) => AccountInv'
<1> SUFFICES ASSUME AccountInv, [AccNext]_(accVars)
             PROVE  AccountInv'
  OBVIOUS
<1>1. CASE UNCHANGED accVars
  <2>1. UNCHANGED <<user, sessions, tokens, challenges, call>>
    BY <1>1 DEF accVars
  <2>2. CallsOK'
    BY <2>1 DEF AccountInv, CallsOK, CallKnows
  <2> QED BY <2>1, <2>2, OnlyCallsMove
<1>2. ASSUME NEW c \in Calls,
             \/ verifyLoginCredentials(c) \/ updateUserPasswordHashIfCurrent(c)
             \/ createSessionIfCredentialsCurrent(c)
             \/ createLoginStepUpChallenge(c)
             \/ \E m \in Challenges : consumeLoginStepUpChallenge(c, m) \/ RefuseCode(c, m)
             \/ incrementLoginStepUpFailure(c)
             \/ requestReset(c) \/ createPasswordResetToken(c)
             \/ \E t \in Tokens : getActivePasswordResetUser(c, t)
             \/ resetPasswordWithToken(c)
             \/ \E patch \in Patches, owner \in BOOLEAN : authorizePatch(c, patch, owner)
             \/ readUser(c) \/ updateUser(c) \/ setUserPassword(c)
             \/ Crash(c)
      PROVE  AccountInv'
  BY <1>2, LoginKeeps, UpgradeKeeps, CreateSessionKeeps, CreateChallengeKeeps, ConsumeKeeps,
     RefuseKeeps, CountKeeps, CreateTokenKeeps, OpenLinkKeeps, PasswordKeeps, AuthorizeKeeps,
     ReadKeeps, EditKeeps, CrashedKeeps, Zenon
<1>3. ASSUME \/ \E i \in 1..MaxSessions : EndSession(i)
             \/ \E t \in Tokens : LoseToken(t)
             \/ \E m \in Challenges : LoseChallenge(m)
      PROVE  AccountInv'
  BY <1>3, EndSessionKeeps, LoseTokenKeeps, LoseChallengeKeeps, Zenon
<1> QED BY <1>1, <1>2, <1>3, Zenon DEF AccNext

LEMMA AccountInvHolds == AccSpec => []AccountInv
<1>1. AccInit => AccountInv
  BY AccountStarts
<1>2. AccountInv /\ [AccNext]_(accVars) => AccountInv'
  BY AccountStep
<1> QED BY <1>1, <1>2, PTL DEF AccSpec

\* Whatever requests overlap and whichever of them die, the account has no more
\* sessions than the limit, and the challenges of one generation never take more
\* wrong codes together than the limit (createSessionIfCredentialsCurrent,
\* incrementLoginStepUpFailure).
THEOREM AccountsAreTyped == AccSpec => []AccTypeOK
<1>1. AccountInv => AccTypeOK
  <2> SUFFICES ASSUME AccountInv
               PROVE  AccTypeOK
    OBVIOUS
  <2>1. \A g \in 0..MaxGeneration : Wrong(g) <= MaxWrong
    <3> SUFFICES ASSUME NEW g \in 0..MaxGeneration
                 PROVE  Wrong(g) <= MaxWrong
      OBVIOUS
    <3>1. Wrong(g) = Failures(challenges, Cohort(challenges, g))
      BY WrongIsFailures, Zenon
    <3>2. Failures(challenges, Cohort(challenges, g)) <= MaxWrong
      BY DEF AccountInv, ChallengesOK, Bounded
    <3> QED BY <3>1, <3>2
  <2> QED BY <2>1 DEF AccTypeOK, AccountInv, SessionsOK, SessionRow, TokensOK, ChallengesOK,
                      AccTable, CallsOK
<1>2. AccSpec => []AccountInv
  BY AccountInvHolds
<1> QED BY <1>1, <1>2, PTL

\* No session and no reset link outlives the password, the address or the enabling
\* of the account it was made for: what opens one asks for the account as it is,
\* and what changes the account closes them in the same batch
\* (createSessionIfCredentialsCurrent, createPasswordResetToken, updateUser,
\* setUserPassword, resetPasswordWithToken).
THEOREM AccessIsAlwaysCurrent == AccSpec => []AccessIsCurrent
<1>1. AccountInv => AccessIsCurrent
  <2> SUFFICES ASSUME AccountInv
               PROVE  AccessIsCurrent
    OBVIOUS
  <2>1. SessionsAreCurrent
    BY DEF AccountInv, SessionsOK
  <2> DEFINE open == {t \in Tokens : tokens[t] # None}
  <2>2. open = {} \/ \E t \in Tokens : open = {t}
    BY DEF AccountInv, TokensOK
  <2>3. Cardinality(open) <= 1
    <3>1. CASE open = {}
      BY <3>1, FS_EmptySet
    <3>2. ASSUME NEW t \in Tokens, open = {t}
          PROVE  Cardinality(open) <= 1
      BY <3>2, FS_Singleton
    <3> QED BY <2>2, <3>1, <3>2
  <2>4. TokensAreCurrent
    BY <2>3 DEF TokensAreCurrent, AccountInv, TokensOK
  <2> QED BY <2>1, <2>4 DEF AccessIsCurrent
<1>2. AccSpec => []AccountInv
  BY AccountInvHolds
<1> QED BY <1>1, <1>2, PTL

-----------------------------------------------------------------------------
(* What a step changes.                                                    *)

LEMMA UserDiffers ==
    ASSUME user \in UserRow, user' \in UserRow, user' # user
    PROVE  \/ user'.email # user.email \/ user'.role # user.role
           \/ user'.disabled # user.disabled \/ user'.generation # user.generation
           \/ user'.hash # user.hash
BY DEF UserRow

\* Of the two fields that are counted none, or one, has changed.
LEMMA CountChanged ==
    /\ Cardinality({}) = 0
    /\ \A f : Cardinality({f}) = 1
BY FS_EmptySet, FS_Singleton

\* A step that changes the hash alone.
HashOnly == /\ user' \in UserRow
            /\ user'.email = user.email /\ user'.role = user.role
            /\ user'.disabled = user.disabled /\ user'.generation = user.generation

LEMMA HashOnlyIsExact ==
    ASSUME AccountInv, HashOnly, user' # user
    PROVE  /\ Changed = {"hash"}
           /\ user'.generation
                = user.generation + Cardinality(Changed \cap {"email", "disabled"})
<1>1. user'.hash # user.hash
  BY UserDiffers DEF AccountInv, HashOnly
<1>2. Changed = {"hash"}
  BY <1>1 DEF Changed, HashOnly
<1>3. Changed \cap {"email", "disabled"} = {}
  BY <1>2
<1>4. Cardinality(Changed \cap {"email", "disabled"}) = 0
  BY <1>3, CountChanged
<1>5. user.generation \in 0..MaxGeneration
  BY DEF AccountInv, UserRow
<1> QED BY <1>2, <1>4, <1>5 DEF HashOnly

LEMMA PasswordIsExact ==
    ASSUME AccountInv, NewPassword
    PROVE  HashOnly
<1>1. user' \in UserRow
  BY NewPasswordKeeps DEF AccountInv
<1>2. PICK hash : hash = [epoch |-> user.hash.epoch + 1, current |-> TRUE]
  OBVIOUS
<1>3. user' = [user EXCEPT !.hash = hash]
  BY <1>2 DEF NewPassword
<1> QED BY <1>1, <1>3 DEF HashOnly, AccountInv, UserRow

LEMMA EditIsExact ==
    ASSUME AccountInv, NEW patch \in Patches, patch.field # "password",
           Edited(patch), user' # user
    PROVE  /\ Changed = {patch.field}
           /\ user'[patch.field] = patch.to
           /\ user'.generation
                = user.generation + Cardinality(Changed \cap {"email", "disabled"})
<1>1. /\ user'.email # user.email \/ user'.role # user.role \/ user'.disabled # user.disabled
      /\ user.generation \in 0..MaxGeneration /\ user'.hash = user.hash
  BY UserDiffers DEF AccountInv, Edited, UserRow
<1>2. CASE patch.field = "email"
  <2>1. /\ user'.email = patch.to /\ user'.role = user.role /\ user'.disabled = user.disabled
    BY <1>2 DEF Edited
  <2>2. Changed = {"email"} /\ Changed \cap {"email", "disabled"} = {"email"}
    BY <1>1, <2>1 DEF Changed
  <2>3. Cardinality(Changed \cap {"email", "disabled"}) = 1
    BY <2>2, CountChanged
  <2>4. user'.generation = user.generation + 1
    BY <1>1, <2>1 DEF Edited
  <2> QED BY <1>2, <2>1, <2>2, <2>3, <2>4
<1>3. CASE patch.field = "disabled"
  <2>1. /\ user'.disabled = patch.to /\ user'.role = user.role /\ user'.email = user.email
    BY <1>3 DEF Edited
  <2>2. Changed = {"disabled"} /\ Changed \cap {"email", "disabled"} = {"disabled"}
    BY <1>1, <2>1 DEF Changed
  <2>3. Cardinality(Changed \cap {"email", "disabled"}) = 1
    BY <2>2, CountChanged
  <2>4. user'.generation = user.generation + 1
    BY <1>1, <2>1 DEF Edited
  <2> QED BY <1>3, <2>1, <2>2, <2>3, <2>4
<1>4. CASE patch.field = "role"
  <2>1. /\ user'.role = patch.to /\ user'.disabled = user.disabled /\ user'.email = user.email
        /\ user'.generation = user.generation
    BY <1>4 DEF Edited
  <2>2. Changed = {"role"} /\ Changed \cap {"email", "disabled"} = {}
    BY <1>1, <2>1 DEF Changed
  <2>3. Cardinality(Changed \cap {"email", "disabled"}) = 0
    BY <2>2, CountChanged
  <2> QED BY <1>1, <1>4, <2>1, <2>2, <2>3
<1> QED BY <1>2, <1>3, <1>4, PatchKinds

\* What EditsAreExact says of one step.
ExactStep ==
    user' # user =>
        /\ user'.generation
             = user.generation + Cardinality(Changed \cap {"email", "disabled"})
        /\ \E c \in Calls :
            /\ call'[c] # call[c]
            /\ \/ call[c].pc \in {"rehash", "confirm"} /\ Changed = {"hash"}
               \/ /\ call[c].pc \in {"write", "set"}
                  /\ Changed = {IF call[c].pc = "set" THEN "hash" ELSE call[c].patch.field}
                  /\ call[c].pc = "write" => user'[call[c].patch.field] = call[c].patch.to
                  /\ "OWNER" \in {user.role, user'.role} => call[c].owner

LEMMA LoginIsExact ==
    ASSUME AccountInv, NEW c \in Calls,
           updateUserPasswordHashIfCurrent(c) \/ resetPasswordWithToken(c)
    PROVE  ExactStep
<1> SUFFICES ASSUME user' # user
             PROVE  /\ HashOnly /\ call[c].pc \in {"rehash", "confirm"}
                    /\ call'[c] # call[c]
  <2>1. call[c].pc \in {"rehash", "confirm"} /\ HashOnly /\ call'[c] # call[c] /\ user' # user
          => ExactStep
    BY HashOnlyIsExact, Zenon DEF ExactStep
  <2> QED BY <2>1 DEF ExactStep
<1>1. CASE updateUserPasswordHashIfCurrent(c)
  <2>1. PICK seen : seen = [call[c].seen EXCEPT !.hash.current = TRUE]
    OBVIOUS
  <2>2. /\ call[c].pc = "rehash"
        /\ user' = [user EXCEPT !.hash.current = TRUE]
        /\ GoesOn(c, "verified", seen, None)
    BY <1>1, <2>1 DEF updateUserPasswordHashIfCurrent
  <2>3. call[c].seen \in Credentials /\ user \in UserRow
        /\ call \in [Calls -> Call]
    BY <2>2 DEF AccountInv, CallsOK, CallKnows
  <2>4. seen \in Credentials
    BY <2>1, <2>3 DEF Credentials, Hash
  <2>5. call'[c].pc = "verified"
    BY <2>2, <2>3, <2>4, CallGoes
  <2>6. HashOnly
    BY ONLY <2>2, <2>3 DEF HashOnly, UserRow, Hash
  <2> QED BY <2>2, <2>5, <2>6
<1>2. CASE resetPasswordWithToken(c)
  <2>1. call[c].pc = "confirm" /\ IsOver(c) /\ NewPassword
    BY <1>2 DEF resetPasswordWithToken
  <2>2. call'[c].pc = "idle"
    BY <2>1, CallEnds DEF AccountInv, CallsOK
  <2> QED BY <2>1, <2>2, PasswordIsExact
<1> QED BY <1>1, <1>2

LEMMA AdministratorIsExact ==
    ASSUME AccountInv, NEW c \in Calls,
           updateUser(c) \/ setUserPassword(c)
    PROVE  ExactStep
<1> SUFFICES ASSUME user' # user
             PROVE  /\ user'.generation = user.generation
                         + Cardinality(Changed \cap {"email", "disabled"})
                    /\ call'[c] # call[c]
                    /\ call[c].pc \in {"write", "set"}
                    /\ Changed = {IF call[c].pc = "set" THEN "hash" ELSE call[c].patch.field}
                    /\ call[c].pc = "write" => user'[call[c].patch.field] = call[c].patch.to
                    /\ "OWNER" \in {user.role, user'.role} => call[c].owner
  BY Zenon DEF ExactStep
<1>1. CASE updateUser(c)
  <2>1. PICK patch : patch = call[c].patch
    OBVIOUS
  <2>2. /\ call[c].pc = "write" /\ IsOver(c)
        /\ patch \in Patches /\ patch.field # "password"
        /\ patch.field = "role" /\ patch.to = "OWNER" => call[c].owner
        /\ Edited(patch) /\ ~Protected(call[c].owner)
    BY <1>1, <2>1, EditSteps
  <2>3. call'[c].pc = "idle"
    BY <2>2, CallEnds DEF AccountInv, CallsOK
  <2>4. /\ Changed = {patch.field} /\ user'[patch.field] = patch.to
        /\ user'.generation
             = user.generation + Cardinality(Changed \cap {"email", "disabled"})
    BY <2>2, EditIsExact
  <2>5. "OWNER" \in {user.role, user'.role} => call[c].owner
    BY <2>2 DEF Edited, Protected
  <2>6. call[c].pc # "set" /\ call[c].pc \in {"write", "set"} /\ call'[c] # call[c]
    BY <2>2, <2>3
  <2> QED BY <2>1, <2>4, <2>5, <2>6
<1>2. CASE setUserPassword(c)
  <2>1. /\ call[c].pc = "set" /\ IsOver(c)
        /\ ~Protected(call[c].owner) /\ NewPassword
    BY <1>2 DEF setUserPassword
  <2>2. call'[c].pc = "idle"
    BY <2>1, CallEnds DEF AccountInv, CallsOK
  <2>3. HashOnly
    BY <2>1, PasswordIsExact
  <2>4. /\ Changed = {"hash"}
        /\ user'.generation
             = user.generation + Cardinality(Changed \cap {"email", "disabled"})
    BY <2>3, HashOnlyIsExact
  <2>5. "OWNER" \in {user.role, user'.role} => call[c].owner
    BY <2>1, <2>3 DEF HashOnly, Protected
  <2>6. call[c].pc # "write" /\ call[c].pc \in {"write", "set"} /\ call'[c] # call[c]
    BY <2>1, <2>2
  <2> QED BY <2>1, <2>4, <2>5, <2>6
<1> QED BY <1>1, <1>2

LEMMA StepIsExact ==
    ASSUME AccountInv, [AccNext]_(accVars)
    PROVE  ExactStep
<1>1. CASE UNCHANGED user
  BY <1>1 DEF ExactStep
<1>2. CASE ~UNCHANGED user
  <2>1. \E c \in Calls :
          \/ updateUserPasswordHashIfCurrent(c) \/ resetPasswordWithToken(c)
          \/ updateUser(c) \/ setUserPassword(c)
    BY <1>2 DEF AccNext, accVars, verifyLoginCredentials,
        createSessionIfCredentialsCurrent, createLoginStepUpChallenge,
        consumeLoginStepUpChallenge, RefuseCode, incrementLoginStepUpFailure,
        requestReset, createPasswordResetToken, getActivePasswordResetUser,
        authorizePatch, readUser, Crash, EndSession, LoseToken,
        LoseChallenge
  <2> QED BY <2>1, LoginIsExact, AdministratorIsExact, Zenon
<1> QED BY <1>1, <1>2

\* No edit writes back what another request has changed meanwhile, every change of
\* address and of disabled is counted, and an OWNER's row is changed by an OWNER's
\* request or by its own login or reset (updateUser, setUserPassword).
THEOREM EditsAreAlwaysExact == AccSpec => EditsAreExact
<1>1. AccountInv /\ [AccNext]_(accVars) => [ExactStep]_(accVars)
  BY StepIsExact
<1>2. AccSpec => []AccountInv
  BY AccountInvHolds
<1>3. AccSpec => [][ExactStep]_(accVars)
  BY <1>1, <1>2, PTL DEF AccSpec
<1> QED BY <1>3 DEF EditsAreExact, ExactStep

=============================================================================
