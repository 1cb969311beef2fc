----------------------- MODULE StripeCheckoutsProofs -----------------------
(***************************************************************************)
(* Proofs about StripeCheckouts, for any number of requests, calls and     *)
(* configurations and any budget.                                          *)
(***************************************************************************)
EXTENDS StripeCheckouts, FiniteSetTheorems, WellFoundedInduction, TLAPS

-----------------------------------------------------------------------------
(* The inductive invariant.                                                *)

\* What was given to the donor is the session of the row, which is never
\* replaced; and as long as Stripe has refused none of the request's calls, the
\* row has its first key and Stripe has made a session for that key only.
Donation(q) ==
    LET row == stripe_checkout_sessions[q] IN
    /\ row.status = "NONE" => row.session = NULL /\ sessions[q] = {}
    /\ row.generation <= row.attempts
    /\ row.session = NULL => handed[q] = {}
    /\ handed[q] \subseteq {row.session}
    /\ q \notin refusals => /\ row.outcome # "DEFINITE_FAILURE" /\ row.generation = 1
                            /\ sessions[q] \subseteq {<<1, row.fp>>}

\* A request that was given a key lately still holds the claim of that time,
\* and its row names the claim, so that no call gives it back.
Admission(q) ==
    LET claim == provider_creation_claims[q] IN
    admitted[q] < Window =>
        /\ claim.id # NULL /\ claim.age <= admitted[q]
        /\ q \in Requests => stripe_checkout_sessions[q].claim = claim.id

\* What a call knows when it is at its pc.
Sound(k) ==
    LET row == stripe_checkout_sessions[k.request] IN
    /\ k.pc # "idle" => k.request \in Requests
    /\ k.pc \in {"reserve", "release", "reserve_throws", "lost"} => k.claim # NULL
    /\ k.pc \in {"retry_budget", "reclaim", "create", "attach", "refused", "ambiguous"} =>
          k.fp \in Fingerprints
    /\ k.pc \in {"create", "attach", "refused", "ambiguous"} =>
          /\ row.status # "NONE"
          /\ k.request \notin refusals => k.generation = 1 /\ k.fp = row.fp
    /\ k.pc = "refused" => k.request \in refusals

\* The claims that count against the budget.
Live == {q \in Claimants : provider_creation_claims[q].id # NULL /\ ~Expired(provider_creation_claims[q])}

IInv ==
    /\ TypeOK
    /\ \A q \in Requests : Donation(q)
    /\ \A q \in Claimants : Admission(q)
    /\ \A c \in Calls : Sound(call[c])
    /\ IsFiniteSet(Live) /\ Cardinality(Live) <= Limit

-----------------------------------------------------------------------------
(* Facts that the steps share.                                             *)

LEMMA OneMore ==
    ASSUME NEW S, NEW x, IsFiniteSet(S)
    PROVE  /\ IsFiniteSet(S \cup {x}) /\ Cardinality(S) \in Nat
           /\ Cardinality(S \cup {x}) \in Nat
           /\ Cardinality(S \cup {x}) <= Cardinality(S) + 1
<1>1. /\ IsFiniteSet(S \cup {x})
      /\ Cardinality(S \cup {x}) = IF x \in S THEN Cardinality(S) ELSE Cardinality(S) + 1
  BY FS_AddElement
<1>2. Cardinality(S) \in Nat /\ Cardinality(S \cup {x}) \in Nat
  BY <1>1, FS_CardinalityType
<1> QED BY <1>1, <1>2

\* There is always an id that no call and no row of the request holds.
LEMMA FreshId ==
    ASSUME NEW q PROVE FreshClaimId(q) \in ClaimIds
<1>1. PICK claims : claims = [c \in Calls |-> call[c].claim]
  OBVIOUS
<1>2. PICK expecteds : expecteds = [c \in Calls |-> call[c].expected]
  OBVIOUS
<1>3. PICK A : A = {claims[c] : c \in Calls}
  OBVIOUS
<1>4. PICK B : B = {expecteds[c] : c \in Calls}
  OBVIOUS
<1>5. IsFiniteSet(Calls) /\ Cardinality(Calls) \in Nat
  BY EnoughClaimIds, FS_CardinalityType
<1>6. IsFiniteSet(A) /\ Cardinality(A) <= Cardinality(Calls)
  <2>1. claims \in Surjection(Calls, A)
    BY <1>1, <1>3 DEF Surjection
  <2> QED BY <1>5, <2>1, FS_Surjection
<1>7. IsFiniteSet(B) /\ Cardinality(B) <= Cardinality(Calls)
  <2>1. expecteds \in Surjection(Calls, B)
    BY <1>2, <1>4 DEF Surjection
  <2> QED BY <1>5, <2>1, FS_Surjection
<1>8. PICK x : x = stripe_checkout_sessions[q].claim
  OBVIOUS
<1>9. PICK y : y = provider_creation_claims[q].id
  OBVIOUS
<1>10. PICK all : all = ((A \cup B) \cup {x}) \cup {y}
  OBVIOUS
<1>11. IsFiniteSet(all) /\ Cardinality(all) <= 2 * Cardinality(Calls) + 2
  <2>1. /\ IsFiniteSet(A \cup B)
        /\ Cardinality(A \cup B) = Cardinality(A) + Cardinality(B) - Cardinality(A \cap B)
    BY <1>6, <1>7, FS_Union
  <2>2. Cardinality(A) \in Nat /\ Cardinality(B) \in Nat /\ Cardinality(A \cap B) \in Nat
    <3>1. IsFiniteSet(A \cap B)
      BY <1>6, FS_Subset
    <3> QED BY <1>6, <1>7, <3>1, FS_CardinalityType
  <2>3. Cardinality(A \cup B) \in Nat /\ Cardinality(A \cup B) <= 2 * Cardinality(Calls)
    BY <1>5, <1>6, <1>7, <2>1, <2>2, FS_CardinalityType
  <2>4. /\ IsFiniteSet((A \cup B) \cup {x})
        /\ Cardinality((A \cup B) \cup {x}) \in Nat
        /\ Cardinality((A \cup B) \cup {x}) <= 2 * Cardinality(Calls) + 1
    <3>1. PICK S : S = A \cup B
      OBVIOUS
    <3>2. IsFiniteSet(S \cup {x}) /\ Cardinality(S \cup {x}) \in Nat
          /\ Cardinality(S \cup {x}) <= Cardinality(S) + 1
      BY <2>1, <3>1, OneMore
    <3> QED BY <1>5, <2>3, <3>1, <3>2
  <2>5. PICK S : S = (A \cup B) \cup {x}
    OBVIOUS
  <2>6. IsFiniteSet(S \cup {y}) /\ Cardinality(S \cup {y}) \in Nat
        /\ Cardinality(S \cup {y}) <= Cardinality(S) + 1
    BY <2>4, <2>5, OneMore
  <2> QED BY <1>5, <1>10, <2>4, <2>5, <2>6
<1>12. ClaimIds \ all # {}
  <2> SUFFICES ASSUME ClaimIds \subseteq all PROVE FALSE
    OBVIOUS
  <2>1. Cardinality(ClaimIds) <= Cardinality(all)
    BY <1>11, FS_Subset
  <2>2. Cardinality(ClaimIds) \in Nat /\ Cardinality(all) \in Nat
    BY <1>11, EnoughClaimIds, FS_CardinalityType
  <2> QED BY <1>5, <1>11, <2>1, <2>2, EnoughClaimIds
<1>m. PICK mine : mine = {{call[c].claim, call[c].expected} :
                             c \in {d \in Calls : call[d].request = q}}
  OBVIOUS
<1>13. PICK used : used = (UNION mine)
                         \cup {stripe_checkout_sessions[q].claim, provider_creation_claims[q].id}
  OBVIOUS
<1>14. used \subseteq all
  <2> SUFFICES ASSUME NEW i \in used PROVE i \in all
    OBVIOUS
  <2>1. CASE i \in {stripe_checkout_sessions[q].claim, provider_creation_claims[q].id}
    BY <1>8, <1>9, <1>10, <2>1
  <2>2. CASE \E c \in Calls : i \in {call[c].claim, call[c].expected}
    <3>1. PICK c \in Calls : i = call[c].claim \/ i = call[c].expected
      BY <2>2
    <3>2. call[c].claim \in A /\ call[c].expected \in B
      BY <1>1, <1>2, <1>3, <1>4
    <3> QED BY <1>10, <3>1, <3>2
  <2>3. CASE i \in UNION mine
    <3>1. PICK pair \in mine : i \in pair
      BY <2>3
    <3>2. \E c \in Calls : pair = {call[c].claim, call[c].expected}
      BY <1>m
    <3> QED BY <2>2, <3>1, <3>2
  <2> QED BY <1>13, <2>1, <2>3
<1>15. PICK free : free = ClaimIds \ used
  OBVIOUS
<1>16. free \subseteq Nat /\ free # {} /\ free \subseteq ClaimIds
  BY <1>12, <1>14, <1>15, EnoughClaimIds
<1>17. \E i \in free : \A j \in free : i <= j
  <2>1. \E i \in free : \A j \in free : ~(<<j, i>> \in OpToRel(<, Nat))
    BY <1>16, NatLessThanWellFounded, WFMin
  <2>2. PICK i \in free : \A j \in free : ~(<<j, i>> \in OpToRel(<, Nat))
    BY <2>1
  <2>3. ASSUME NEW j \in free PROVE i <= j
    <3>1. i \in Nat /\ j \in Nat
      BY <1>16
    <3>2. j < i => <<j, i>> \in OpToRel(<, Nat)
      BY <3>1 DEF OpToRel
    <3>3. ~(j < i)
      BY <2>2, <3>2, Zenon
    <3> QED BY <3>1, <3>3
  <2> QED BY <2>3
<1>18. FreshClaimId(q) = CHOOSE i \in free : \A j \in free : i <= j
  BY <1>m, <1>13, <1>15 DEF FreshClaimId
<1> QED BY <1>16, <1>17, <1>18

LEMMA Known ==
    ASSUME IInv
    PROVE  /\ stripe_checkout_sessions \in [Requests -> StripeCheckoutRecord]
           /\ provider_creation_claims \in [Claimants -> ProviderCreationClaim]
           /\ call \in [Calls -> CallState]
           /\ sessions \in [Requests -> SUBSET Sessions]
           /\ handed \in [Requests -> SUBSET Sessions]
           /\ refusals \subseteq Requests
           /\ admitted \in [Claimants -> 0..Window]
           /\ Requests \subseteq Claimants
           /\ \A c \in Calls : call[c] \in CallState
           /\ \A q \in Requests : stripe_checkout_sessions[q] \in StripeCheckoutRecord
           /\ \A q \in Claimants : provider_creation_claims[q] \in ProviderCreationClaim
           /\ Window \in Nat \ {0}
           /\ 1..MaxAttempts \subseteq Nat /\ 1 \in 1..MaxAttempts
           /\ NULL \notin Sessions /\ NULL \notin ClaimIds
  BY LimitsArePositive, NullIsNoName DEF IInv, TypeOK, Claimants

\* No step makes a row disappear, and none changes the parameters of one
\* whose calls Stripe has not refused.
RowsKept ==
    /\ refusals \subseteq refusals'
    /\ \A q \in Requests : stripe_checkout_sessions[q].status # "NONE"
                              => stripe_checkout_sessions'[q].status # "NONE"
    /\ \A q \in Requests : \/ q \in refusals'
                           \/ stripe_checkout_sessions[q].status = "NONE"
                           \/ stripe_checkout_sessions'[q].fp = stripe_checkout_sessions[q].fp

\* What a call knows stays true while others move.
LEMMA SoundKeeps ==
    ASSUME RowsKept, NEW k, Sound(k) PROVE Sound(k)'
  BY DEF Sound, RowsKept

LEMMA CallMoves ==
    ASSUME IInv, RowsKept, NEW c \in Calls, NEW k \in CallState, Sound(k)',
           call' = [call EXCEPT ![c] = k]
    PROVE  /\ call' \in [Calls -> CallState]
           /\ \A d \in Calls : Sound(call[d])'
<1>1. call' \in [Calls -> CallState] /\ call'[c] = k /\ \A d \in Calls \ {c} : call'[d] = call[d]
  BY Known
<1>2. ASSUME NEW d \in Calls PROVE Sound(call[d])'
  <2>1. CASE d = c
    BY <1>1, <2>1 DEF Sound
  <2>2. CASE d # c
    <3>1. Sound(call[d])
      BY DEF IInv
    <3>2. PICK j : j = call[d]
      OBVIOUS
    <3>3. Sound(j)'
      BY <3>1, <3>2, SoundKeeps
    <3> QED BY <1>1, <2>2, <3>2, <3>3 DEF Sound
  <2> QED BY <2>1, <2>2
<1> QED BY <1>1, <1>2

LEMMA SameDonations ==
    ASSUME IInv, UNCHANGED <<stripe_checkout_sessions, sessions, handed, refusals>>
    PROVE  \A q \in Requests : Donation(q)'
  BY DEF IInv, Donation

LEMMA SameAdmissions ==
    ASSUME IInv, UNCHANGED <<stripe_checkout_sessions, provider_creation_claims, admitted>>
    PROVE  \A q \in Claimants : Admission(q)'
  BY DEF IInv, Admission

LEMMA SameLive ==
    ASSUME IInv, UNCHANGED provider_creation_claims
    PROVE  (IsFiniteSet(Live) /\ Cardinality(Live) <= Limit)'
<1>1. Live' = Live
  BY DEF Live, Expired
<1> QED BY <1>1 DEF IInv

\* A step of a call that touches nothing else.
LEMMA Quiet ==
    ASSUME IInv, NEW c \in Calls, NEW k \in CallState, Sound(k),
           call' = [call EXCEPT ![c] = k],
           UNCHANGED <<stripe_checkout_sessions, provider_creation_claims, sessions, history>>
    PROVE  IInv'
<1>0. UNCHANGED <<handed, refusals, admitted>>
  BY DEF history
<1>1. RowsKept
  BY <1>0 DEF RowsKept
<1>2. Sound(k)'
  BY <1>1, SoundKeeps
<1>3. /\ call' \in [Calls -> CallState]
      /\ \A d \in Calls : Sound(call[d])'
  BY <1>1, <1>2, CallMoves
<1>4. TypeOK'
  BY <1>0, <1>3 DEF IInv, TypeOK
<1> QED BY <1>0, <1>3, <1>4, SameDonations, SameAdmissions, SameLive DEF IInv

\* What a call becomes.
LEMMA Becomes ==
    ASSUME IInv, NEW c \in Calls, NEW pc
    PROVE  /\ Goto(c, pc) => call' = [call EXCEPT ![c] = [call[c] EXCEPT !.pc = pc]]
           /\ Return(c) => call' = [call EXCEPT ![c] = IdleCall]
           /\ IdleCall \in CallState /\ Sound(IdleCall)
           /\ Q(c) \in Requests =>
                 /\ Answering(Q(c)) \in CallState /\ Sound(Answering(Q(c)))
                 /\ Answering(Q(c)).request = Q(c) /\ Answering(Q(c)).pc = "existing"
<1>1. Goto(c, pc) => call' = [call EXCEPT ![c] = [call[c] EXCEPT !.pc = pc]]
  BY DEF Goto
<1>2. IdleCall \in CallState /\ Sound(IdleCall)
  BY Known DEF IdleCall, CallState, Sound
<1>3. Q(c) \in Requests =>
                 /\ Answering(Q(c)) \in CallState /\ Sound(Answering(Q(c)))
                 /\ Answering(Q(c)).request = Q(c) /\ Answering(Q(c)).pc = "existing"
  BY Known DEF Answering, IdleCall, CallState, Sound
<1> QED BY <1>1, <1>2, <1>3 DEF Return

\* Planning with a row only chooses what to do next.
LEMMA Plans ==
    ASSUME IInv, NEW c \in Calls, NEW q \in Requests, Plan(c, q)
    PROVE  \E k \in CallState : Sound(k) /\ call' = [call EXCEPT ![c] = k]
<1>1. PICK fp \in Fingerprints :
         call' = [call EXCEPT ![c] = IF Answerable(stripe_checkout_sessions[q]) THEN Answering(q)
                                     ELSE Retrying(q, stripe_checkout_sessions[q], fp)]
  BY DEF Plan
<1>2. PICK row : row = stripe_checkout_sessions[q]
  OBVIOUS
<1>3. row \in StripeCheckoutRecord
  BY <1>2, Known
<1>4. Answering(q) \in CallState /\ Sound(Answering(q))
  BY Known DEF Answering, IdleCall, CallState, Sound
<1>5. IdleCall \in CallState /\ Sound(IdleCall)
  BY Known DEF IdleCall, CallState, Sound
<1>6. PICK reclaim : reclaim = [IdleCall EXCEPT !.pc = "reclaim", !.request = q, !.fp = fp]
  OBVIOUS
<1>7. reclaim \in CallState /\ Sound(reclaim)
  BY <1>6, Known DEF IdleCall, CallState, Sound
<1>8. PICK retry : retry = [IdleCall EXCEPT !.pc = "retry_budget", !.request = q, !.fp = fp,
                             !.generation = row.generation, !.expected = row.claim]
  OBVIOUS
<1>9. retry \in CallState /\ Sound(retry)
  BY <1>3, <1>8, Known DEF IdleCall, CallState, Sound, StripeCheckoutRecord
<1>10. Retrying(q, row, fp) \in {IdleCall, reclaim, retry}
  BY <1>6, <1>8 DEF Retrying
<1> QED BY <1>1, <1>2, <1>4, <1>5, <1>7, <1>9, <1>10

\* A step on one request leaves the others as they were.
LEMMA OtherRequests ==
    ASSUME IInv, NEW q,
           \A x \in Requests \ {q} :
              /\ stripe_checkout_sessions'[x] = stripe_checkout_sessions[x]
              /\ sessions'[x] = sessions[x] /\ handed'[x] = handed[x]
              /\ x \in refusals' <=> x \in refusals
    PROVE  \A x \in Requests \ {q} : Donation(x)'
<1> SUFFICES ASSUME NEW x \in Requests \ {q} PROVE Donation(x)'
  OBVIOUS
<1>1. Donation(x)
  BY DEF IInv
<1> QED BY <1>1 DEF Donation

LEMMA OtherClaimants ==
    ASSUME IInv, NEW q,
           \A x \in Requests \ {q} : stripe_checkout_sessions'[x] = stripe_checkout_sessions[x],
           \A x \in Claimants \ {q} : /\ provider_creation_claims'[x] = provider_creation_claims[x]
                                      /\ admitted'[x] = admitted[x]
    PROVE  \A x \in Claimants \ {q} : Admission(x)'
<1> SUFFICES ASSUME NEW x \in Claimants \ {q} PROVE Admission(x)'
  OBVIOUS
<1>1. Admission(x)
  BY DEF IInv
<1> QED BY <1>1 DEF Admission

\* The budget holds when no claim is added ...
LEMMA LiveShrinks ==
    ASSUME IInv, Live' \subseteq Live
    PROVE  (IsFiniteSet(Live) /\ Cardinality(Live) <= Limit)'
<1>1. IsFiniteSet(Live) /\ Cardinality(Live) <= Limit
  BY DEF IInv
<1>2. PICK S : S = Live
  OBVIOUS
<1>3. PICK T : T = Live'
  OBVIOUS
<1>4. IsFiniteSet(T) /\ Cardinality(T) <= Cardinality(S)
  BY <1>1, <1>2, <1>3, FS_Subset
<1>5. Cardinality(S) \in Nat /\ Cardinality(T) \in Nat
  BY <1>1, <1>2, <1>4, FS_CardinalityType
<1>6. Cardinality(T) <= Limit
  BY <1>1, <1>2, <1>4, <1>5, LimitsArePositive
<1> QED BY <1>3, <1>4, <1>6

\* ... and when one is added under the condition of the statement.
LEMMA ClaimTaken ==
    ASSUME IInv, NEW q \in Claimants, NEW i \in ClaimIds, claimProviderCreationBudgetEnabled(q),
           SetClaim(q, [id |-> i, age |-> 0])
    PROVE  /\ provider_creation_claims' \in [Claimants -> ProviderCreationClaim]
           /\ provider_creation_claims'[q] = [id |-> i, age |-> 0]
           /\ \A x \in Claimants \ {q} : provider_creation_claims'[x] = provider_creation_claims[x]
           /\ (IsFiniteSet(Live) /\ Cardinality(Live) <= Limit)'
           /\ admitted[q] = Window
<1>1. [id |-> i, age |-> 0] \in ProviderCreationClaim
  BY Known DEF ProviderCreationClaim
<1>2. /\ provider_creation_claims' \in [Claimants -> ProviderCreationClaim]
      /\ provider_creation_claims'[q] = [id |-> i, age |-> 0]
      /\ \A x \in Claimants \ {q} : provider_creation_claims'[x] = provider_creation_claims[x]
  BY <1>1, Known DEF SetClaim
<1>3. admitted[q] = Window
  <2>1. provider_creation_claims[q].age = Window
    BY DEF claimProviderCreationBudgetEnabled, Expired
  <2>2. Admission(q) /\ admitted[q] \in 0..Window /\ Window \in Nat
    BY Known DEF IInv
  <2> QED BY <2>1, <2>2 DEF Admission
<1>4. PICK T : T = Counted(q)
  OBVIOUS
<1>5. T \subseteq Live /\ Cardinality(T) < Limit
  BY <1>4 DEF claimProviderCreationBudgetEnabled, Counted, Live
<1>6. IsFiniteSet(T)
  BY <1>5, FS_Subset DEF IInv
<1>7. PICK U : U = T \cup {q}
  OBVIOUS
<1>8. IsFiniteSet(U) /\ Cardinality(U) \in Nat /\ Cardinality(U) <= Limit
  <2>1. /\ IsFiniteSet(T \cup {q}) /\ Cardinality(T) \in Nat
        /\ Cardinality(T \cup {q}) \in Nat
        /\ Cardinality(T \cup {q}) <= Cardinality(T) + 1
    BY <1>6, OneMore
  <2> QED BY <1>5, <1>7, <2>1, LimitsArePositive
<1>9. PICK V : V = Live'
  OBVIOUS
<1>10. V \subseteq U
  BY <1>2, <1>4, <1>7, <1>9 DEF Live, Counted, Expired
<1>11. IsFiniteSet(V) /\ Cardinality(V) <= Cardinality(U)
  BY <1>8, <1>10, FS_Subset
<1>12. Cardinality(V) <= Limit
  BY <1>8, <1>11, FS_CardinalityType, LimitsArePositive
<1> QED BY <1>2, <1>3, <1>9, <1>11, <1>12

\* A claim is given back or swept only when no recent admission rests on it.
LEMMA ClaimGone ==
    ASSUME IInv, NEW q \in Claimants, SetClaim(q, NoClaim), UNCHANGED <<stripe_checkout_sessions, admitted>>,
           admitted[q] = Window
    PROVE  /\ provider_creation_claims' \in [Claimants -> ProviderCreationClaim]
           /\ \A x \in Claimants : Admission(x)'
           /\ (IsFiniteSet(Live) /\ Cardinality(Live) <= Limit)'
<1>1. NoClaim \in ProviderCreationClaim /\ NoClaim.id = NULL
  BY Known DEF ProviderCreationClaim, NoClaim
<1>2. /\ provider_creation_claims' \in [Claimants -> ProviderCreationClaim]
      /\ provider_creation_claims'[q] = NoClaim
      /\ \A x \in Claimants \ {q} : provider_creation_claims'[x] = provider_creation_claims[x]
  BY <1>1, Known DEF SetClaim
<1>3. Live' \subseteq Live
  BY <1>1, <1>2 DEF Live, Expired
<1>4. \A x \in Claimants \ {q} : Admission(x)'
  BY <1>2, OtherClaimants
<1>5. Admission(q)'
  BY Known DEF Admission
<1> QED BY <1>2, <1>3, <1>4, <1>5, LiveShrinks

LEMMA Released ==
    ASSUME IInv, NEW c \in Calls, Q(c) \in Requests, call[c].claim # NULL, ReleaseClaim(c),
           UNCHANGED <<stripe_checkout_sessions, admitted>>
    PROVE  /\ provider_creation_claims' \in [Claimants -> ProviderCreationClaim]
           /\ \A x \in Claimants : Admission(x)'
           /\ (IsFiniteSet(Live) /\ Cardinality(Live) <= Limit)'
<1>1. CASE releaseUnusedProviderCreationClaimEnabled(Q(c), call[c].claim)
  <2>1. SetClaim(Q(c), NoClaim)
    BY <1>1 DEF ReleaseClaim
  <2>2. Q(c) \in Claimants /\ Admission(Q(c)) /\ admitted[Q(c)] \in 0..Window /\ Window \in Nat
    BY Known DEF IInv
  <2>3. admitted[Q(c)] = Window
    BY <1>1, <2>2 DEF releaseUnusedProviderCreationClaimEnabled, Admission
  <2> QED BY <2>1, <2>2, <2>3, ClaimGone
<1>2. CASE ~releaseUnusedProviderCreationClaimEnabled(Q(c), call[c].claim)
  <2>1. UNCHANGED provider_creation_claims
    BY <1>2 DEF ReleaseClaim
  <2> QED BY <2>1, Known, SameAdmissions, SameLive
<1> QED BY <1>1, <1>2

-----------------------------------------------------------------------------
(* The steps of a call.                                                    *)

LEMMA InitInv == Init => IInv
<1> SUFFICES ASSUME Init PROVE IInv
  OBVIOUS
<1>1. TypeOK
  <2>1. 1 \in 1..MaxAttempts /\ Window \in 0..Window
    BY LimitsArePositive
  <2>2. NoCheckout \in StripeCheckoutRecord /\ NoClaim \in ProviderCreationClaim
        /\ IdleCall \in CallState
    BY <2>1 DEF NoCheckout, StripeCheckoutRecord, NoClaim, ProviderCreationClaim, IdleCall, CallState
  <2> QED BY <2>1, <2>2 DEF Init, TypeOK
<1>2. \A q \in Requests : Donation(q)
  BY DEF Init, Donation, NoCheckout
<1>3. \A q \in Claimants : Admission(q)
  BY LimitsArePositive DEF Init, Admission
<1>4. \A c \in Calls : Sound(call[c])
  BY DEF Init, Sound, IdleCall
<1>5. Live = {}
  BY DEF Init, Live, NoClaim
<1>6. IsFiniteSet(Live) /\ Cardinality(Live) <= Limit
  BY <1>5, FS_EmptySet, LimitsArePositive
<1> QED BY <1>1, <1>2, <1>3, <1>4, <1>6 DEF IInv

LEMMA StartStep ==
    ASSUME IInv, NEW c \in Calls, Start(c) PROVE IInv'
<1>1. PICK q \in Requests :
          IF stripe_checkout_sessions[q].status = "NONE"
          THEN call' = [call EXCEPT ![c] = [IdleCall EXCEPT !.pc = "budget", !.request = q]]
          ELSE Plan(c, q)
  BY DEF Start
<1>2. UNCHANGED <<stripe_checkout_sessions, provider_creation_claims, sessions, history>>
  BY DEF Start
<1>3. CASE stripe_checkout_sessions[q].status = "NONE"
  <2>1. PICK k : k = [IdleCall EXCEPT !.pc = "budget", !.request = q]
    OBVIOUS
  <2>2. k \in CallState /\ Sound(k)
    BY <2>1, Known DEF IdleCall, CallState, Sound
  <2> QED BY <1>1, <1>2, <1>3, <2>1, <2>2, Quiet
<1>4. CASE stripe_checkout_sessions[q].status # "NONE"
  <2>1. PICK k \in CallState : Sound(k) /\ call' = [call EXCEPT ![c] = k]
    BY <1>1, <1>4, Plans
  <2> QED BY <1>2, <2>1, Quiet
<1> QED BY <1>3, <1>4

LEMMA LimitedStep ==
    ASSUME IInv, NEW c \in Calls, Limited(c) PROVE IInv'
  BY Becomes, Quiet DEF Limited

\* Both budget checks.
LEMMA ClaimBudgetStep ==
    ASSUME IInv, NEW c \in Calls, NEW next \in {"reserve", "reclaim"}, ClaimBudget(c, next),
           Q(c) \in Requests, next = "reclaim" => call[c].fp \in Fingerprints
    PROVE  IInv'
<1>0. PICK q \in Requests : q = Q(c)
  OBVIOUS
<1>1. PICK i : i = claimProviderCreationBudget(q, FreshClaimId(q)).id
  OBVIOUS
<1>2. i \in ClaimIds
  <2>1. provider_creation_claims[q] \in ProviderCreationClaim
    BY Known
  <2> QED BY <1>1, <2>1, FreshId DEF claimProviderCreationBudget, ProviderCreationClaim
<1>3. claimProviderCreationBudget(q, FreshClaimId(q)) = [id |-> i, age |-> 0]
  BY <1>1 DEF claimProviderCreationBudget
<1>4. /\ claimProviderCreationBudgetEnabled(q)
      /\ SetClaim(q, [id |-> i, age |-> 0])
      /\ UNCHANGED <<stripe_checkout_sessions, sessions, handed, refusals, admitted>>
  BY <1>0, <1>3 DEF ClaimBudget, history
<1>5. PICK k : k = [call[c] EXCEPT !.pc = next, !.claimed = TRUE, !.claim = i]
  OBVIOUS
<1>6. call' = [call EXCEPT ![c] = k]
  BY <1>0, <1>1, <1>5, Known DEF ClaimBudget, CallState
<1>7. k \in CallState /\ Sound(k)
  <2>1. call[c] \in CallState /\ NULL \notin ClaimIds
    BY Known
  <2>2. k \in CallState /\ k.pc = next /\ k.claim = i /\ k.request = q /\ k.fp = call[c].fp
    BY <1>0, <1>2, <1>5, <2>1 DEF CallState, Q
  <2> QED BY <1>2, <2>1, <2>2 DEF Sound
<1>8. RowsKept
  BY <1>4 DEF RowsKept
<1>9. /\ call' \in [Calls -> CallState]
      /\ \A d \in Calls : Sound(call[d])'
  BY <1>6, <1>7, <1>8, SoundKeeps, CallMoves
<1>10. q \in Claimants
  BY Known
<1>11. /\ provider_creation_claims' \in [Claimants -> ProviderCreationClaim]
       /\ \A x \in Claimants \ {q} : provider_creation_claims'[x] = provider_creation_claims[x]
       /\ (IsFiniteSet(Live) /\ Cardinality(Live) <= Limit)'
       /\ admitted[q] = Window
  BY <1>2, <1>4, <1>10, ClaimTaken
<1>12. TypeOK'
  BY <1>4, <1>9, <1>11 DEF IInv, TypeOK
<1>13. \A x \in Claimants : Admission(x)'
  <2>1. Admission(q)'
    BY <1>4, <1>11, Known DEF Admission
  <2>2. \A x \in Claimants \ {q} : Admission(x)'
    BY <1>4, <1>11, OtherClaimants
  <2> QED BY <2>1, <2>2
<1> QED BY <1>4, <1>9, <1>11, <1>12, <1>13, SameDonations DEF IInv

LEMMA BudgetStep ==
    ASSUME IInv, NEW c \in Calls, Budget(c) PROVE IInv'
<1>0. Sound(call[c]) /\ call[c].pc = "budget" /\ call[c] \in CallState
  BY Known DEF Budget, At, IInv
<1>1. Q(c) \in Requests
  BY <1>0 DEF Sound, Q
<1>2. CASE ClaimBudget(c, "reserve")
  BY <1>1, <1>2, ClaimBudgetStep
<1>3. CASE Limited(c)
  BY <1>3, LimitedStep
<1>4. CASE /\ Goto(c, "concurrent")
           /\ UNCHANGED <<stripe_checkout_sessions, provider_creation_claims, sessions, history>>
  <2>1. PICK k : k = [call[c] EXCEPT !.pc = "concurrent"]
    OBVIOUS
  <2>2. k \in CallState /\ k.pc = "concurrent" /\ k.request = Q(c)
    BY <1>0, <2>1 DEF CallState, Q
  <2>3. Sound(k)
    BY <1>1, <2>2 DEF Sound
  <2> QED BY <1>4, <2>1, <2>2, <2>3, Becomes, Quiet
<1> QED BY <1>2, <1>3, <1>4 DEF Budget

LEMMA ConcurrentStep ==
    ASSUME IInv, NEW c \in Calls, Concurrent(c) PROVE IInv'
<1>0. Sound(call[c]) /\ call[c].pc = "concurrent"
  BY DEF Concurrent, At, IInv
<1>1. Q(c) \in Requests
  BY <1>0 DEF Sound, Q
<1>2. UNCHANGED <<stripe_checkout_sessions, provider_creation_claims, sessions, history>>
  BY DEF Concurrent
<1>3. CASE Row(c).status = "NONE"
  BY <1>2, <1>3, Becomes, Quiet DEF Concurrent
<1>4. CASE Row(c).status # "NONE"
  <2>1. PICK k \in CallState : Sound(k) /\ call' = [call EXCEPT ![c] = k]
    BY <1>1, <1>4, Plans DEF Concurrent
  <2> QED BY <1>2, <2>1, Quiet
<1> QED BY <1>3, <1>4

\* A call that has written a row it now owns goes to Stripe with it.
LEMMA Owning ==
    ASSUME IInv, NEW c \in Calls, NEW row \in StripeCheckoutRecord, NEW fp \in Fingerprints,
           Q(c) \in Requests, Own(c, row, fp), SetRow(Q(c), row), row.status # "NONE", row.fp = fp,
           Q(c) \notin refusals => row.generation = 1,
           RowsKept
    PROVE  /\ call' \in [Calls -> CallState]
           /\ \A d \in Calls : Sound(call[d])'
<1>1. PICK k : k = [IdleCall EXCEPT !.pc = "create", !.request = Q(c), !.fp = fp,
                                    !.generation = row.generation]
  OBVIOUS
<1>2. call' = [call EXCEPT ![c] = k]
  BY <1>1 DEF Own
<1>3. /\ k \in CallState /\ k.pc = "create" /\ k.request = Q(c) /\ k.fp = fp
      /\ k.generation = row.generation
  BY <1>1, Known DEF IdleCall, CallState, StripeCheckoutRecord
<1>4. stripe_checkout_sessions'[Q(c)] = row
  BY Known DEF SetRow
<1>5. Sound(k)'
  BY <1>3, <1>4 DEF Sound, RowsKept
<1> QED BY <1>2, <1>3, <1>5, CallMoves

\* A call that moves without owning the row it may have written.
LEMMA Goes ==
    ASSUME IInv, NEW c \in Calls, NEW pc \in {"reserve_throws", "release", "lost"}, Goto(c, pc),
           call[c].claim # NULL, Q(c) \in Requests, RowsKept
    PROVE  /\ call' \in [Calls -> CallState]
           /\ \A d \in Calls : Sound(call[d])'
<1>1. PICK k : k = [call[c] EXCEPT !.pc = pc]
  OBVIOUS
<1>2. call' = [call EXCEPT ![c] = k]
  BY <1>1, Becomes
<1>3. k \in CallState /\ k.pc = pc /\ k.request = Q(c) /\ k.claim = call[c].claim
  BY <1>1, Known DEF CallState, Q
<1>4. Sound(k)
  BY <1>3 DEF Sound
<1> QED BY <1>2, <1>3, <1>4, SoundKeeps, CallMoves

\* The admission of a request whose row takes the claim of its call.
LEMMA Admitted ==
    ASSUME IInv, NEW c \in Calls, Q(c) \in Requests, Admit(c), call[c].claim # NULL,
           UNCHANGED provider_creation_claims,
           NEW row, SetRow(Q(c), row), row.claim = call[c].claim
    PROVE  /\ admitted' \in [Claimants -> 0..Window]
           /\ \A x \in Claimants : Admission(x)'
<1>0. PICK q \in Requests : q = Q(c)
  OBVIOUS
<1>k. q \in Claimants /\ provider_creation_claims[q] \in ProviderCreationClaim
      /\ Window \in Nat /\ admitted \in [Claimants -> 0..Window]
      /\ stripe_checkout_sessions \in [Requests -> StripeCheckoutRecord]
  BY Known
<1>1. PICK age : age = IF provider_creation_claims[q].id = call[c].claim
                       THEN provider_creation_claims[q].age ELSE Window
  OBVIOUS
<1>2. age \in 0..Window
  BY <1>1, <1>k DEF ProviderCreationClaim
<1>3. admitted' = [admitted EXCEPT ![q] = age]
  BY <1>0, <1>1 DEF Admit
<1>4. /\ admitted' \in [Claimants -> 0..Window] /\ admitted'[q] = age
      /\ \A x \in Claimants \ {q} : admitted'[x] = admitted[x]
  BY <1>2, <1>3, <1>k
<1>5. /\ stripe_checkout_sessions'[q] = row
      /\ \A x \in Requests \ {q} : stripe_checkout_sessions'[x] = stripe_checkout_sessions[x]
  BY <1>0, <1>k DEF SetRow
<1>6. Admission(q)'
  <2>1. provider_creation_claims[q].age \in 0..Window
    BY <1>k DEF ProviderCreationClaim
  <2>2. age < Window => provider_creation_claims[q].id = call[c].claim
                        /\ provider_creation_claims[q].age = age
    BY <1>1, <1>k
  <2> QED BY <1>k, <1>2, <1>4, <1>5, <2>1, <2>2 DEF Admission
<1>7. \A x \in Claimants \ {q} : Admission(x)'
  BY <1>4, <1>5, OtherClaimants
<1> QED BY <1>4, <1>6, <1>7

\* The insert of a row.
LEMMA ReserveStep ==
    ASSUME IInv, NEW c \in Calls, Reserve(c) PROVE IInv'
<1>0. Sound(call[c]) /\ call[c].pc = "reserve"
      /\ UNCHANGED <<provider_creation_claims, sessions, handed, refusals>>
  BY DEF Reserve, At, IInv
<1>1. Q(c) \in Requests /\ call[c].claim # NULL
  BY <1>0 DEF Sound, Q
<1>k. call[c] \in CallState /\ call[c].claim \in ClaimIds
  <2>1. call[c] \in CallState
    BY Known
  <2> QED BY <1>1, <2>1 DEF CallState
<1>2. CASE /\ \E pc \in {"reserve_throws", "release"} : Goto(c, pc)
           /\ UNCHANGED <<stripe_checkout_sessions, admitted>>
  <2>1. RowsKept
    BY <1>0, <1>2 DEF RowsKept
  <2>2. PICK pc \in {"reserve_throws", "release"} : Goto(c, pc)
    BY <1>2
  <2>3. /\ call' \in [Calls -> CallState]
        /\ \A d \in Calls : Sound(call[d])'
    BY <1>1, <2>1, <2>2, Goes
  <2>4. TypeOK'
    BY <1>0, <1>2, <2>3 DEF IInv, TypeOK
  <2> QED BY <1>0, <1>2, <2>3, <2>4, SameDonations, SameAdmissions, SameLive DEF IInv
<1>3. CASE /\ Row(c).status = "NONE"
           /\ Admit(c)
           /\ \E fp \in Fingerprints :
                LET row == reserveStripeCheckout(fp, call[c].claim) IN
                /\ SetRow(Q(c), row)
                /\ \/ Own(c, row, fp)
                   \/ Goto(c, "reserve_throws")
  <2>1. PICK fp \in Fingerprints :
                /\ SetRow(Q(c), reserveStripeCheckout(fp, call[c].claim))
                /\ \/ Own(c, reserveStripeCheckout(fp, call[c].claim), fp)
                   \/ Goto(c, "reserve_throws")
    BY <1>3
  <2>2. PICK row : row = reserveStripeCheckout(fp, call[c].claim)
    OBVIOUS
  <2>3. /\ row \in StripeCheckoutRecord
        /\ row.status = "CREATING" /\ row.fp = fp /\ row.claim = call[c].claim
        /\ row.generation = 1 /\ row.attempts = 1 /\ row.outcome = "NONE" /\ row.session = NULL
    BY <1>k, <2>2, Known DEF reserveStripeCheckout, NoCheckout, StripeCheckoutRecord
  <2>4. /\ stripe_checkout_sessions' \in [Requests -> StripeCheckoutRecord]
        /\ stripe_checkout_sessions'[Q(c)] = row
        /\ \A x \in Requests \ {Q(c)} : stripe_checkout_sessions'[x] = stripe_checkout_sessions[x]
    BY <1>1, <2>1, <2>2, <2>3, Known DEF SetRow
  <2>5. RowsKept
    BY <1>0, <1>3, <2>3, <2>4 DEF RowsKept, Row
  <2>6. /\ call' \in [Calls -> CallState]
        /\ \A d \in Calls : Sound(call[d])'
    <3>1. CASE Own(c, row, fp)
      BY <1>1, <2>1, <2>2, <2>3, <2>5, <3>1, Owning
    <3>2. CASE Goto(c, "reserve_throws")
      BY <1>1, <2>5, <3>2, Goes
    <3> QED BY <2>1, <2>2, <3>1, <3>2
  <2>7. /\ admitted' \in [Claimants -> 0..Window]
        /\ \A x \in Claimants : Admission(x)'
    BY <1>0, <1>1, <1>3, <2>1, <2>2, <2>3, Admitted
  <2>8. \A x \in Requests : Donation(x)'
    <3>1. PICK q \in Requests : q = Q(c)
      BY <1>1
    <3>2. Donation(q) /\ stripe_checkout_sessions[q].status = "NONE"
      BY <1>3, <3>1 DEF IInv, Row
    <3>3. Donation(q)'
      BY <1>0, <2>3, <2>4, <3>1, <3>2 DEF Donation
    <3>4. \A x \in Requests \ {q} : Donation(x)'
      BY <1>0, <2>4, <3>1, OtherRequests
    <3> QED BY <3>3, <3>4
  <2>10. TypeOK'
    BY <1>0, <2>4, <2>6, <2>7 DEF IInv, TypeOK
  <2> QED BY <1>0, <2>6, <2>7, <2>8, <2>10, SameLive DEF IInv
<1> QED BY <1>2, <1>3 DEF Reserve

\* A claim of no use is given back, and the call answers with the row.
LEMMA ReleaseStep ==
    ASSUME IInv, NEW c \in Calls, Release(c) PROVE IInv'
<1>0. /\ Sound(call[c]) /\ call[c].pc \in {"release", "reserve_throws"} /\ ReleaseClaim(c)
      /\ UNCHANGED <<stripe_checkout_sessions, sessions, handed, refusals, admitted>>
  BY DEF Release, IInv, history
<1>1. Q(c) \in Requests /\ call[c].claim # NULL
  BY <1>0 DEF Sound, Q
<1>2. PICK k \in CallState : Sound(k) /\ call' = [call EXCEPT ![c] = k]
  BY <1>1, Plans, Becomes DEF Release
<1>3. RowsKept
  BY <1>0 DEF RowsKept
<1>4. /\ call' \in [Calls -> CallState]
      /\ \A d \in Calls : Sound(call[d])'
  BY <1>2, <1>3, SoundKeeps, CallMoves
<1>5. /\ provider_creation_claims' \in [Claimants -> ProviderCreationClaim]
      /\ \A x \in Claimants : Admission(x)'
      /\ (IsFiniteSet(Live) /\ Cardinality(Live) <= Limit)'
  BY <1>0, <1>1, Released
<1>6. TypeOK'
  BY <1>0, <1>4, <1>5 DEF IInv, TypeOK
<1> QED BY <1>0, <1>4, <1>5, <1>6, SameDonations DEF IInv

LEMMA ReleaseLostStep ==
    ASSUME IInv, NEW c \in Calls, ReleaseLost(c) PROVE IInv'
<1>0. /\ Sound(call[c]) /\ call[c].pc = "lost"
      /\ ReleaseClaim(c) \/ UNCHANGED provider_creation_claims
      /\ call' = [call EXCEPT ![c] = Answering(Q(c))]
      /\ UNCHANGED <<stripe_checkout_sessions, sessions, handed, refusals, admitted>>
  BY DEF ReleaseLost, IInv, history, Answer, At
<1>1. Q(c) \in Requests /\ call[c].claim # NULL
  BY <1>0 DEF Sound, Q
<1>3. RowsKept
  BY <1>0 DEF RowsKept
<1>4. /\ call' \in [Calls -> CallState]
      /\ \A d \in Calls : Sound(call[d])'
  <2>1. PICK k \in CallState : Sound(k) /\ call' = [call EXCEPT ![c] = k]
    BY <1>0, <1>1, Becomes
  <2> QED BY <2>1, <1>3, SoundKeeps, CallMoves
<1>5. /\ provider_creation_claims' \in [Claimants -> ProviderCreationClaim]
      /\ \A x \in Claimants : Admission(x)'
      /\ (IsFiniteSet(Live) /\ Cardinality(Live) <= Limit)'
  <2>1. CASE ReleaseClaim(c)
    BY <1>0, <1>1, <2>1, Released
  <2>2. CASE UNCHANGED provider_creation_claims
    BY <1>0, <2>2, Known, SameAdmissions, SameLive
  <2> QED BY <1>0, <2>1, <2>2
<1>6. TypeOK'
  BY <1>0, <1>4, <1>5 DEF IInv, TypeOK
<1> QED BY <1>0, <1>4, <1>5, <1>6, SameDonations DEF IInv

LEMMA RetryBudgetStep ==
    ASSUME IInv, NEW c \in Calls, RetryBudget(c) PROVE IInv'
<1>0. Sound(call[c]) /\ call[c].pc = "retry_budget" /\ call[c] \in CallState
  BY Known DEF RetryBudget, At, IInv
<1>1. Q(c) \in Requests /\ call[c].fp \in Fingerprints
  BY <1>0 DEF Sound, Q
<1>2. CASE ClaimBudget(c, "reclaim")
  BY <1>1, <1>2, ClaimBudgetStep
<1>3. CASE Limited(c)
  BY <1>3, LimitedStep
<1>4. CASE /\ IF provider_creation_claims[Q(c)].id = call[c].expected
              THEN call' = [call EXCEPT ![c].pc = "reclaim", ![c].claim = provider_creation_claims[Q(c)].id]
              ELSE Return(c)
           /\ UNCHANGED <<stripe_checkout_sessions, provider_creation_claims, sessions, history>>
  <2>1. CASE provider_creation_claims[Q(c)].id = call[c].expected
    <3>1. PICK k : k = [call[c] EXCEPT !.pc = "reclaim", !.claim = call[c].expected]
      OBVIOUS
    <3>2. call' = [call EXCEPT ![c] = k]
      BY <1>0, <1>4, <2>1, <3>1, Known DEF CallState
    <3>3. k \in CallState /\ k.pc = "reclaim" /\ k.request = Q(c) /\ k.fp = call[c].fp
      BY <1>0, <3>1 DEF CallState, Q
    <3>4. Sound(k)
      BY <1>1, <3>3 DEF Sound
    <3> QED BY <1>4, <3>2, <3>3, <3>4, Quiet
  <2>2. CASE provider_creation_claims[Q(c)].id # call[c].expected
    BY <1>4, <2>2, Becomes, Quiet
  <2> QED BY <2>1, <2>2
<1> QED BY <1>2, <1>3, <1>4 DEF RetryBudget

\* A call takes over the row.
LEMMA ReclaimStep ==
    ASSUME IInv, NEW c \in Calls, Reclaim(c) PROVE IInv'
<1>0. Sound(call[c]) /\ call[c].pc = "reclaim" /\ call[c] \in CallState
      /\ UNCHANGED <<provider_creation_claims, sessions, handed, refusals>>
  BY Known DEF Reclaim, At, IInv
<1>1. Q(c) \in Requests /\ call[c].fp \in Fingerprints
  BY <1>0 DEF Sound, Q
<1>q. PICK q \in Requests : q = Q(c)
  BY <1>1
<1>k. stripe_checkout_sessions[q] \in StripeCheckoutRecord /\ Row(c) = stripe_checkout_sessions[q]
      /\ Donation(q)
  BY <1>q, Known DEF Row, IInv
\* The row it takes over.
<1>2. ASSUME NEW row \in StripeCheckoutRecord, SetRow(q, row), Own(c, row, call[c].fp),
             row.status = "CREATING", row.fp = call[c].fp, row.session = stripe_checkout_sessions[q].session,
             row.generation <= row.attempts, stripe_checkout_sessions[q].status # "NONE",
             q \notin refusals => /\ row.outcome # "DEFINITE_FAILURE" /\ row.generation = 1
                                  /\ row.fp = stripe_checkout_sessions[q].fp,
             admitted' \in [Claimants -> 0..Window], \A x \in Claimants : Admission(x)'
      PROVE  IInv'
  <2>1. /\ stripe_checkout_sessions' \in [Requests -> StripeCheckoutRecord]
        /\ stripe_checkout_sessions'[q] = row
        /\ \A x \in Requests \ {q} : stripe_checkout_sessions'[x] = stripe_checkout_sessions[x]
    BY <1>2, Known DEF SetRow
  <2>2. RowsKept
    BY <1>0, <1>2, <2>1 DEF RowsKept
  <2>3. /\ call' \in [Calls -> CallState]
        /\ \A d \in Calls : Sound(call[d])'
    BY <1>1, <1>2, <1>q, <2>2, Owning
  <2>4. Donation(q)'
    BY <1>0, <1>2, <1>k, <2>1 DEF Donation
  <2>5. \A x \in Requests \ {q} : Donation(x)'
    BY <1>0, <2>1, OtherRequests
  <2>6. TypeOK'
    BY <1>0, <1>2, <2>1, <2>3 DEF IInv, TypeOK
  <2> QED BY <1>0, <1>2, <2>3, <2>4, <2>5, <2>6, SameLive DEF IInv
<1>3. CASE /\ call[c].claim # NULL
           /\ reclaimRefusedEnabled(Row(c), call[c].expected, call[c].generation)
  <2>1. PICK row : row = reclaimRefused(stripe_checkout_sessions[q], call[c].fp, call[c].claim)
    OBVIOUS
  <2>2. SetRow(q, row) /\ Own(c, row, call[c].fp) /\ Admit(c)
    BY <1>3, <1>q, <1>k, <2>1 DEF Reclaim
  <2>3. /\ stripe_checkout_sessions[q].status = "FAILED"
        /\ stripe_checkout_sessions[q].outcome = "DEFINITE_FAILURE"
        /\ stripe_checkout_sessions[q].attempts < MaxAttempts
    BY <1>3, <1>k DEF reclaimRefusedEnabled
  <2>4. q \in refusals /\ stripe_checkout_sessions[q].generation <= stripe_checkout_sessions[q].attempts
    BY <1>k, <2>3 DEF Donation
  <2>5. call[c].claim \in ClaimIds
    BY <1>0, <1>3 DEF CallState
  <2>6. /\ stripe_checkout_sessions[q].attempts + 1 \in 1..MaxAttempts
        /\ stripe_checkout_sessions[q].generation + 1 \in 1..MaxAttempts
        /\ stripe_checkout_sessions[q].generation + 1 <= stripe_checkout_sessions[q].attempts + 1
    BY <1>k, <2>3, <2>4, LimitsArePositive DEF StripeCheckoutRecord
  <2>7. /\ row \in StripeCheckoutRecord
        /\ row.status = "CREATING" /\ row.fp = call[c].fp /\ row.claim = call[c].claim
        /\ row.session = stripe_checkout_sessions[q].session
        /\ row.generation <= row.attempts
    BY <1>1, <1>k, <2>1, <2>5, <2>6 DEF reclaimRefused, StripeCheckoutRecord
  <2>8. /\ admitted' \in [Claimants -> 0..Window]
        /\ \A x \in Claimants : Admission(x)'
    BY <1>0, <1>1, <1>3, <1>q, <2>2, <2>7, Admitted
  <2> QED BY <1>2, <2>2, <2>3, <2>4, <2>7, <2>8
<1>4. CASE /\ call[c].claim = NULL
           /\ reclaimIndeterminateEnabled(Row(c), call[c].fp)
  <2>1. PICK row : row = reclaimIndeterminate(stripe_checkout_sessions[q])
    OBVIOUS
  <2>2. SetRow(q, row) /\ Own(c, row, call[c].fp) /\ UNCHANGED admitted
    BY <1>4, <1>q, <1>k, <2>1 DEF Reclaim
  <2>3. /\ stripe_checkout_sessions[q].status \in {"FAILED", "CREATING"}
        /\ stripe_checkout_sessions[q].fp = call[c].fp
        /\ stripe_checkout_sessions[q].attempts < MaxAttempts
    BY <1>4, <1>k DEF reclaimIndeterminateEnabled
  <2>4. stripe_checkout_sessions[q].attempts + 1 \in 1..MaxAttempts
    BY <1>k, <2>3, LimitsArePositive DEF StripeCheckoutRecord
  <2>5. /\ row \in StripeCheckoutRecord
        /\ row.status = "CREATING" /\ row.fp = call[c].fp
        /\ row.claim = stripe_checkout_sessions[q].claim
        /\ row.session = stripe_checkout_sessions[q].session
        /\ row.outcome = stripe_checkout_sessions[q].outcome
        /\ row.generation = stripe_checkout_sessions[q].generation
        /\ row.attempts = stripe_checkout_sessions[q].attempts + 1
    BY <1>k, <2>1, <2>3, <2>4 DEF reclaimIndeterminate, StripeCheckoutRecord
  <2>6. row.generation <= row.attempts
    BY <1>k, <2>5, LimitsArePositive DEF Donation, StripeCheckoutRecord
  <2>7. \A x \in Claimants : Admission(x)'
    <3>1. /\ stripe_checkout_sessions'[q] = row
          /\ \A x \in Requests \ {q} : stripe_checkout_sessions'[x] = stripe_checkout_sessions[x]
      BY <2>2, Known DEF SetRow
    <3>2. Admission(q)
      BY Known DEF IInv
    <3>3. Admission(q)'
      BY <1>0, <2>2, <2>5, <3>1, <3>2 DEF Admission
    <3>4. \A x \in Claimants \ {q} : Admission(x)'
      BY <1>0, <2>2, <3>1, OtherClaimants
    <3> QED BY <3>3, <3>4
  <2> QED BY <1>2, <1>k, <2>2, <2>3, <2>5, <2>6, <2>7, Known DEF Donation
<1>5. CASE ((Goto(c, "lost") /\ call[c].claim # NULL) \/ Answer(c)) /\ UNCHANGED <<stripe_checkout_sessions, admitted>>
  <2>1. RowsKept
    BY <1>0, <1>5 DEF RowsKept
  <2>2. /\ call' \in [Calls -> CallState]
        /\ \A d \in Calls : Sound(call[d])'
    <3>1. CASE Goto(c, "lost") /\ call[c].claim # NULL
      BY <1>1, <2>1, <3>1, Goes
    <3>2. CASE Answer(c)
      <4>1. PICK k \in CallState : Sound(k) /\ call' = [call EXCEPT ![c] = k]
        BY <1>1, <3>2, Becomes DEF Answer
      <4> QED BY <2>1, <4>1, SoundKeeps, CallMoves
    <3> QED BY <1>5, <3>1, <3>2
  <2>3. TypeOK'
    BY <1>0, <1>5, <2>2 DEF IInv, TypeOK
  <2> QED BY <1>0, <1>5, <2>2, <2>3, SameDonations, SameAdmissions, SameLive DEF IInv
<1> QED BY <1>3, <1>4, <1>5 DEF Reclaim

\* Only the session of the row is given to the donor.
LEMMA ExistingStep ==
    ASSUME IInv, NEW c \in Calls, Existing(c) PROVE IInv'
<1>0. /\ Sound(call[c]) /\ call[c].pc = "existing" /\ Return(c)
      /\ UNCHANGED <<stripe_checkout_sessions, provider_creation_claims, sessions, refusals, admitted>>
  BY DEF Existing, IInv, At
<1>1. PICK q \in Requests : q = Q(c)
  BY <1>0 DEF Sound, Q
<1>2. RowsKept
  BY <1>0 DEF RowsKept
<1>3. /\ call' \in [Calls -> CallState]
      /\ \A d \in Calls : Sound(call[d])'
  BY <1>0, <1>2, Becomes, SoundKeeps, CallMoves
<1>4. /\ handed' \in [Requests -> SUBSET Sessions]
      /\ \A x \in Requests : Donation(x)'
  <2>1. CASE UNCHANGED handed
    BY <1>0, <2>1, Known, SameDonations
  <2>2. CASE /\ stripe_checkout_sessions[q].session # NULL
             /\ handed' = [handed EXCEPT ![q] = @ \cup {stripe_checkout_sessions[q].session}]
    <3>1. stripe_checkout_sessions[q].session \in Sessions
      <4>1. stripe_checkout_sessions[q] \in StripeCheckoutRecord
        BY Known
      <4> QED BY <2>2, <4>1 DEF StripeCheckoutRecord
    <3>2. /\ handed' \in [Requests -> SUBSET Sessions]
          /\ handed'[q] = handed[q] \cup {stripe_checkout_sessions[q].session}
          /\ \A x \in Requests \ {q} : handed'[x] = handed[x]
      BY <2>2, <3>1, Known
    <3>3. Donation(q)'
      <4>1. Donation(q)
        BY DEF IInv
      <4> QED BY <1>0, <2>2, <3>2, <4>1 DEF Donation
    <3>4. \A x \in Requests \ {q} : Donation(x)'
      BY <1>0, <3>2, OtherRequests
    <3> QED BY <3>2, <3>3, <3>4
  <2> QED BY <1>1, <2>1, <2>2 DEF Existing, Row
<1>5. TypeOK'
  BY <1>0, <1>3, <1>4 DEF IInv, TypeOK
<1> QED BY <1>0, <1>3, <1>4, <1>5, SameAdmissions, SameLive DEF IInv

\* The call of Stripe.
LEMMA CreateStep ==
    ASSUME IInv, NEW c \in Calls, Create(c) PROVE IInv'
<1>0. /\ Sound(call[c]) /\ call[c].pc = "create" /\ call[c] \in CallState
      /\ UNCHANGED <<stripe_checkout_sessions, provider_creation_claims, handed, admitted>>
  BY Known DEF Create, IInv, At
<1>1. PICK q \in Requests : q = Q(c)
  BY <1>0 DEF Sound, Q
<1>2. /\ stripe_checkout_sessions[q].status # "NONE" /\ call[c].fp \in Fingerprints
      /\ q \notin refusals => call[c].generation = 1 /\ call[c].fp = stripe_checkout_sessions[q].fp
  BY <1>0, <1>1 DEF Sound, Q
<1>3. PICK pc \in {"attach", "ambiguous", "refused"} :
         /\ Goto(c, pc)
         /\ \/ sessions' = [sessions EXCEPT ![q] = @ \cup {Key(c)}] \/ UNCHANGED sessions
         /\ IF pc = "refused" THEN refusals' = refusals \cup {q} /\ UNCHANGED sessions
                              ELSE UNCHANGED refusals
  BY <1>1 DEF Create
<1>4. RowsKept
  BY <1>0, <1>3 DEF RowsKept
<1>5. PICK k : k = [call[c] EXCEPT !.pc = pc]
  OBVIOUS
<1>6. k \in CallState /\ k.pc = pc /\ k.request = q /\ k.fp = call[c].fp /\ k.generation = call[c].generation
  BY <1>0, <1>1, <1>5 DEF CallState, Q
<1>7. Sound(k)'
  BY <1>0, <1>2, <1>3, <1>6 DEF Sound
<1>8. /\ call' \in [Calls -> CallState]
      /\ \A d \in Calls : Sound(call[d])'
  BY <1>3, <1>4, <1>5, <1>6, <1>7, Becomes, CallMoves
<1>9. PICK s \in Sessions : s = Key(c) /\ s = <<call[c].generation, call[c].fp>>
  BY <1>0, <1>2 DEF Key, Sessions, CallState
<1>10. /\ sessions' \in [Requests -> SUBSET Sessions]
       /\ sessions'[q] \subseteq sessions[q] \cup {s}
       /\ \A x \in Requests \ {q} : sessions'[x] = sessions[x]
  <2>1. CASE sessions' = [sessions EXCEPT ![q] = @ \cup {s}]
    BY <1>9, <2>1, Known
  <2>2. CASE UNCHANGED sessions
    BY <2>2, Known
  <2> QED BY <1>3, <1>9, <2>1, <2>2
<1>11. refusals' \subseteq Requests /\ refusals \subseteq refusals'
       /\ \A x \in Requests \ {q} : x \in refusals' <=> x \in refusals
  BY <1>3, Known
<1>12. Donation(q)'
  <2>1. Donation(q)
    BY DEF IInv
  <2> QED BY <1>0, <1>2, <1>9, <1>10, <1>11, <2>1 DEF Donation
<1>13. \A x \in Requests \ {q} : Donation(x)'
  BY <1>0, <1>10, <1>11, OtherRequests
<1>14. TypeOK'
  BY <1>0, <1>8, <1>10, <1>11 DEF IInv, TypeOK
<1> QED BY <1>0, <1>8, <1>12, <1>13, <1>14, SameAdmissions, SameLive DEF IInv

\* A row changes and keeps its parameters and its claim; its session is set
\* once.
LEMMA RowChanges ==
    ASSUME IInv, NEW q \in Requests, NEW row \in StripeCheckoutRecord, SetRow(q, row),
           UNCHANGED <<provider_creation_claims, sessions, refusals, admitted>>,
           row.status # "NONE", row.fp = stripe_checkout_sessions[q].fp,
           row.claim = stripe_checkout_sessions[q].claim,
           row.generation = stripe_checkout_sessions[q].generation,
           row.attempts = stripe_checkout_sessions[q].attempts,
           stripe_checkout_sessions[q].session # NULL => row.session = stripe_checkout_sessions[q].session,
           row.outcome = "DEFINITE_FAILURE" =>
              q \in refusals \/ stripe_checkout_sessions[q].outcome = "DEFINITE_FAILURE",
           handed' \in [Requests -> SUBSET Sessions],
           \A x \in Requests \ {q} : handed'[x] = handed[x],
           handed'[q] \subseteq handed[q] \cup ({row.session} \ {NULL}),
           NEW c, UNCHANGED call \/ (c \in Calls /\ Return(c))
    PROVE  IInv'
<1>1. /\ stripe_checkout_sessions' \in [Requests -> StripeCheckoutRecord]
      /\ stripe_checkout_sessions'[q] = row
      /\ \A x \in Requests \ {q} : stripe_checkout_sessions'[x] = stripe_checkout_sessions[x]
  BY Known DEF SetRow
<1>2. RowsKept
  BY <1>1 DEF RowsKept
<1>3. /\ call' \in [Calls -> CallState]
      /\ \A d \in Calls : Sound(call[d])'
  <2>1. CASE UNCHANGED call
    <3>1. ASSUME NEW d \in Calls PROVE Sound(call[d])'
      <4>1. Sound(call[d])
        BY DEF IInv
      <4>2. PICK k : k = call[d]
        OBVIOUS
      <4>3. Sound(k)'
        BY <1>2, <4>1, <4>2, SoundKeeps
      <4> QED BY <2>1, <4>2, <4>3 DEF Sound
    <3> QED BY <2>1, <3>1, Known
  <2>2. CASE c \in Calls /\ Return(c)
    BY <1>2, <2>2, Becomes, SoundKeeps, CallMoves
  <2> QED BY <2>1, <2>2
<1>4. Donation(q)'
  <2>1. Donation(q)
    BY DEF IInv
  <2> QED BY <1>1, <2>1 DEF Donation
<1>5. \A x \in Requests \ {q} : Donation(x)'
  BY <1>1, OtherRequests
<1>6. \A x \in Claimants : Admission(x)'
  <2>1. Admission(q)
    BY Known DEF IInv
  <2>2. Admission(q)'
    BY <1>1, <2>1 DEF Admission
  <2>3. \A x \in Claimants \ {q} : Admission(x)'
    BY <1>1, OtherClaimants
  <2> QED BY <2>2, <2>3
<1>7. TypeOK'
  BY <1>1, <1>3 DEF IInv, TypeOK
<1> QED BY <1>3, <1>4, <1>5, <1>6, <1>7, SameLive DEF IInv

LEMMA FailStep ==
    ASSUME IInv, NEW c \in Calls, Fail(c) PROVE IInv'
<1>0. /\ Sound(call[c]) /\ call[c].pc \in {"refused", "ambiguous"} /\ Return(c)
      /\ UNCHANGED <<provider_creation_claims, sessions, handed, refusals, admitted>>
  BY DEF Fail, IInv, history
<1>1. PICK q \in Requests : q = Q(c)
  BY <1>0 DEF Sound, Q
<1>2. call[c].pc = "refused" => q \in refusals
  BY <1>0, <1>1 DEF Sound, Q
<1>3. CASE failStripeCheckoutCreationEnabled(Row(c))
  <2>1. PICK row : row = failStripeCheckoutCreation(stripe_checkout_sessions[q],
                            IF At(c, "refused") THEN "DEFINITE_FAILURE" ELSE "AMBIGUOUS")
    OBVIOUS
  <2>2. SetRow(q, row)
    BY <1>1, <1>3, <2>1 DEF Fail, Row
  <2>3. stripe_checkout_sessions[q] \in StripeCheckoutRecord
    BY Known
  <2>4. /\ row \in StripeCheckoutRecord
        /\ row.status = "FAILED" /\ row.fp = stripe_checkout_sessions[q].fp
        /\ row.claim = stripe_checkout_sessions[q].claim
        /\ row.generation = stripe_checkout_sessions[q].generation
        /\ row.attempts = stripe_checkout_sessions[q].attempts
        /\ row.session = stripe_checkout_sessions[q].session
        /\ row.outcome = "DEFINITE_FAILURE" => call[c].pc = "refused"
    <3>1. CASE At(c, "refused")
      BY <2>1, <2>3, <3>1 DEF failStripeCheckoutCreation, StripeCheckoutRecord, At
    <3>2. CASE ~At(c, "refused")
      BY <2>1, <2>3, <3>2 DEF failStripeCheckoutCreation, StripeCheckoutRecord
    <3> QED BY <3>1, <3>2
  <2> QED BY <1>0, <1>2, <2>2, <2>4, RowChanges, Known
<1>4. CASE ~failStripeCheckoutCreationEnabled(Row(c))
  <2>1. UNCHANGED stripe_checkout_sessions
    BY <1>4 DEF Fail
  <2> QED BY <1>0, <2>1, Becomes, Quiet DEF history
<1> QED BY <1>3, <1>4

\* A session is attached to a row that has none.
LEMMA Attached ==
    ASSUME NEW old \in StripeCheckoutRecord, NEW s \in Sessions, NULL \notin Sessions,
           NEW row, row = attachStripeCheckoutSession(old, s)
    PROVE  /\ row \in StripeCheckoutRecord
           /\ row.session # NULL /\ (old.session # NULL => row.session = old.session)
           /\ row.fp = old.fp /\ row.claim = old.claim
           /\ row.generation = old.generation /\ row.attempts = old.attempts
           /\ row.outcome = "DEFINITE_FAILURE" => old.outcome = "DEFINITE_FAILURE"
           /\ old.status # "NONE" => row.status # "NONE"
<1>1. CASE old.session # NULL
  BY <1>1 DEF attachStripeCheckoutSession
<1>2. CASE old.session = NULL /\ old.status = "CREATING"
  BY <1>2 DEF attachStripeCheckoutSession, StripeCheckoutRecord
<1>3. CASE old.session = NULL /\ old.status # "CREATING"
  BY <1>3 DEF attachStripeCheckoutSession, StripeCheckoutRecord
<1> QED BY <1>1, <1>2, <1>3

LEMMA AttachStep ==
    ASSUME IInv, NEW c \in Calls, Attach(c) PROVE IInv'
<1>0. /\ Sound(call[c]) /\ call[c].pc = "attach" /\ Return(c) /\ call[c] \in CallState
      /\ UNCHANGED <<provider_creation_claims, sessions, refusals, admitted>>
  BY Known DEF Attach, IInv, At
<1>1. PICK q \in Requests : q = Q(c)
  BY <1>0 DEF Sound, Q
<1>2. stripe_checkout_sessions[q].status # "NONE" /\ call[c].fp \in Fingerprints
  BY <1>0, <1>1 DEF Sound, Q
<1>3. PICK s \in Sessions : s = Key(c)
  BY <1>0, <1>2 DEF Key, Sessions, CallState
<1>4. PICK row : row = attachStripeCheckoutSession(stripe_checkout_sessions[q], s)
  OBVIOUS
<1>5. stripe_checkout_sessions[q] \in StripeCheckoutRecord /\ NULL \notin Sessions
      /\ handed \in [Requests -> SUBSET Sessions]
  BY Known
<1>6. /\ row \in StripeCheckoutRecord
      /\ row.session # NULL
      /\ stripe_checkout_sessions[q].session # NULL => row.session = stripe_checkout_sessions[q].session
      /\ row.fp = stripe_checkout_sessions[q].fp /\ row.claim = stripe_checkout_sessions[q].claim
      /\ row.generation = stripe_checkout_sessions[q].generation
      /\ row.attempts = stripe_checkout_sessions[q].attempts
      /\ row.outcome = "DEFINITE_FAILURE" => stripe_checkout_sessions[q].outcome = "DEFINITE_FAILURE"
      /\ row.status # "NONE"
  BY <1>2, <1>4, <1>5, Attached
<1>7. CASE SetRow(q, row) /\ handed' = [handed EXCEPT ![q] = @ \cup ({s} \cap {row.session})]
  <2>1. /\ handed' \in [Requests -> SUBSET Sessions]
        /\ \A x \in Requests \ {q} : handed'[x] = handed[x]
        /\ handed'[q] \subseteq handed[q] \cup ({row.session} \ {NULL})
    BY <1>5, <1>6, <1>7
  <2> QED BY <1>0, <1>6, <1>7, <2>1, RowChanges
<1>8. CASE SetRow(q, row) /\ UNCHANGED handed
  BY <1>0, <1>5, <1>6, <1>8, RowChanges
<1>9. CASE UNCHANGED <<stripe_checkout_sessions, handed>>
  BY <1>0, <1>9, Becomes, Quiet DEF history
<1> QED BY <1>1, <1>3, <1>4, <1>7, <1>8, <1>9 DEF Attach, Row, SetRow

LEMMA CrashStep ==
    ASSUME IInv, NEW c \in Calls, Crash(c) PROVE IInv'
  BY Becomes, Quiet DEF Crash

-----------------------------------------------------------------------------
(* The rest of the system.                                                 *)

LEMMA ProviderEventStep ==
    ASSUME IInv, NEW q \in Requests, ProviderEvent(q) PROVE IInv'
<1>1. PICK s \in sessions[q], status \in {"OPEN", "CLOSED", "FAILED"} :
        LET row == attachStripeCheckoutSession(stripe_checkout_sessions[q], s) IN
        /\ row.session = s
        /\ SetRow(q, IF status = "OPEN" \/ row.status = "CLOSED" THEN row
                     ELSE [row EXCEPT !.status = status, !.event = TRUE])
        /\ UNCHANGED <<provider_creation_claims, call, sessions, history>>
  BY DEF ProviderEvent
<1>2. s \in Sessions /\ NULL \notin Sessions /\ stripe_checkout_sessions[q] \in StripeCheckoutRecord
      /\ handed \in [Requests -> SUBSET Sessions]
  BY Known
<1>3. stripe_checkout_sessions[q].status # "NONE"
  BY <1>1 DEF IInv, Donation
<1>4. PICK row : row = attachStripeCheckoutSession(stripe_checkout_sessions[q], s)
  OBVIOUS
<1>5. /\ row \in StripeCheckoutRecord
      /\ stripe_checkout_sessions[q].session # NULL => row.session = stripe_checkout_sessions[q].session
      /\ row.fp = stripe_checkout_sessions[q].fp /\ row.claim = stripe_checkout_sessions[q].claim
      /\ row.generation = stripe_checkout_sessions[q].generation
      /\ row.attempts = stripe_checkout_sessions[q].attempts
      /\ row.outcome = "DEFINITE_FAILURE" => stripe_checkout_sessions[q].outcome = "DEFINITE_FAILURE"
      /\ row.status # "NONE"
  BY <1>2, <1>3, <1>4, Attached
<1>6. PICK new : new = IF status = "OPEN" \/ row.status = "CLOSED" THEN row
                       ELSE [row EXCEPT !.status = status, !.event = TRUE]
  OBVIOUS
<1>7. /\ new \in StripeCheckoutRecord /\ new.status # "NONE"
      /\ new.session = row.session /\ new.fp = row.fp /\ new.claim = row.claim
      /\ new.generation = row.generation /\ new.attempts = row.attempts /\ new.outcome = row.outcome
  <2>1. CASE status = "OPEN" \/ row.status = "CLOSED"
    BY <1>5, <1>6, <2>1
  <2>2. CASE ~(status = "OPEN" \/ row.status = "CLOSED")
    BY <1>5, <1>6, <2>2 DEF StripeCheckoutRecord
  <2> QED BY <2>1, <2>2
<1>8. SetRow(q, new) /\ UNCHANGED <<provider_creation_claims, call, sessions, handed, refusals, admitted>>
  BY <1>1, <1>4, <1>6 DEF history
<1> QED BY <1>2, <1>5, <1>7, <1>8, RowChanges

\* Nothing but claims and admissions moves.
LEMMA ClaimsMove ==
    ASSUME IInv, UNCHANGED <<stripe_checkout_sessions, call, sessions, handed, refusals>>,
           provider_creation_claims' \in [Claimants -> ProviderCreationClaim],
           admitted' \in [Claimants -> 0..Window],
           \A x \in Claimants : Admission(x)',
           (IsFiniteSet(Live) /\ Cardinality(Live) <= Limit)'
    PROVE  IInv'
<1>1. TypeOK'
  BY DEF IInv, TypeOK
<1>2. \A c \in Calls : Sound(call[c])'
  BY DEF IInv, Sound
<1> QED BY <1>1, <1>2, SameDonations DEF IInv

LEMMA OtherDonationStep ==
    ASSUME IInv, NEW q \in Others, OtherDonation(q) PROVE IInv'
<1>1. q \in Claimants /\ q \notin Requests
  BY OthersAreOther DEF Claimants
<1>2. PICK id : id = CHOOSE j \in ClaimIds : TRUE
  OBVIOUS
<1>3. id \in ClaimIds
  <2>1. FreshClaimId(q) \in ClaimIds
    BY FreshId
  <2> QED BY <1>2, <2>1
<1>4. PICK i : i = claimProviderCreationBudget(q, id).id
  OBVIOUS
<1>5. i \in ClaimIds /\ claimProviderCreationBudget(q, id) = [id |-> i, age |-> 0]
  <2>1. provider_creation_claims[q] \in ProviderCreationClaim
    BY <1>1, Known
  <2> QED BY <1>3, <1>4, <2>1 DEF claimProviderCreationBudget, ProviderCreationClaim
<1>6. /\ claimProviderCreationBudgetEnabled(q) /\ SetClaim(q, [id |-> i, age |-> 0])
      /\ admitted' = [admitted EXCEPT ![q] = 0]
      /\ UNCHANGED <<stripe_checkout_sessions, call, sessions, handed, refusals>>
  BY <1>2, <1>5 DEF OtherDonation
<1>7. /\ provider_creation_claims' \in [Claimants -> ProviderCreationClaim]
      /\ provider_creation_claims'[q] = [id |-> i, age |-> 0]
      /\ \A x \in Claimants \ {q} : provider_creation_claims'[x] = provider_creation_claims[x]
      /\ (IsFiniteSet(Live) /\ Cardinality(Live) <= Limit)'
  BY <1>1, <1>5, <1>6, ClaimTaken
<1>8. /\ admitted' \in [Claimants -> 0..Window] /\ admitted'[q] = 0
      /\ \A x \in Claimants \ {q} : admitted'[x] = admitted[x]
  BY <1>1, <1>6, Known
<1>9. \A x \in Claimants : Admission(x)'
  <2>1. Admission(q)'
    BY <1>1, <1>5, <1>7, <1>8, Known DEF Admission
  <2>2. \A x \in Claimants \ {q} : Admission(x)'
    BY <1>6, <1>7, <1>8, OtherClaimants
  <2> QED BY <2>1, <2>2
<1> QED BY <1>6, <1>7, <1>8, <1>9, ClaimsMove

LEMMA SweepStep ==
    ASSUME IInv, NEW q \in Claimants, Sweep(q) PROVE IInv'
<1>1. /\ provider_creation_claims[q].age = Window /\ SetClaim(q, NoClaim)
      /\ UNCHANGED <<stripe_checkout_sessions, call, sessions, handed, refusals, admitted>>
  BY DEF Sweep, Expired, history
<1>2. admitted[q] = Window
  <2>1. Admission(q) /\ admitted[q] \in 0..Window /\ Window \in Nat
    BY Known DEF IInv
  <2> QED BY <1>1, <2>1 DEF Admission
<1> QED BY <1>1, <1>2, ClaimGone, ClaimsMove, Known

\* Time passes for all claims and admissions alike.
LEMMA TickStep ==
    ASSUME IInv, Tick PROVE IInv'
<1>0. UNCHANGED <<call, sessions, handed, refusals>>
  BY DEF Tick
<1>1. ASSUME NEW age \in 0..Window
      PROVE  Older(age) \in 0..Window /\ Older(age) >= age
             /\ Older(age) = IF age < Window THEN age + 1 ELSE Window
  BY LimitsArePositive DEF Older
<1>4. ASSUME NEW q \in Requests
      PROVE  LET old == stripe_checkout_sessions[q]
                 new == stripe_checkout_sessions'[q] IN
             /\ new \in StripeCheckoutRecord
             /\ new.status = old.status /\ new.outcome = old.outcome
             /\ new.generation = old.generation /\ new.attempts = old.attempts
             /\ new.fp = old.fp /\ new.session = old.session /\ new.claim = old.claim
  <2>1. stripe_checkout_sessions[q] \in StripeCheckoutRecord
    BY Known
  <2>2. stripe_checkout_sessions'[q] =
          [stripe_checkout_sessions[q] EXCEPT !.stale = (stripe_checkout_sessions[q].status = "CREATING")]
    BY DEF Tick
  <2> QED BY <2>1, <2>2 DEF StripeCheckoutRecord
<1>3. stripe_checkout_sessions' \in [Requests -> StripeCheckoutRecord]
  <2>1. stripe_checkout_sessions' = [q \in Requests |-> stripe_checkout_sessions'[q]]
    BY DEF Tick
  <2> QED BY <1>4, <2>1
<1>5. ASSUME NEW q \in Claimants
      PROVE  /\ provider_creation_claims'[q] \in ProviderCreationClaim
             /\ provider_creation_claims'[q].id = provider_creation_claims[q].id
             /\ provider_creation_claims'[q].age = Older(provider_creation_claims[q].age)
             /\ provider_creation_claims[q].age \in 0..Window
             /\ admitted'[q] = Older(admitted[q]) /\ admitted'[q] \in 0..Window
             /\ admitted[q] \in 0..Window
  <2>1. provider_creation_claims[q] \in ProviderCreationClaim /\ admitted[q] \in 0..Window
    BY Known
  <2>2. Older(provider_creation_claims[q].age) \in 0..Window
    BY <1>1, <2>1 DEF ProviderCreationClaim
  <2>3. provider_creation_claims'[q] =
          [provider_creation_claims[q] EXCEPT !.age = Older(provider_creation_claims[q].age)]
    BY DEF Tick
  <2>4. admitted'[q] = Older(admitted[q])
    BY DEF Tick
  <2> QED BY <1>1, <2>1, <2>2, <2>3, <2>4 DEF ProviderCreationClaim
<1>6. /\ provider_creation_claims' \in [Claimants -> ProviderCreationClaim]
      /\ admitted' \in [Claimants -> 0..Window]
  <2>1. provider_creation_claims' = [q \in Claimants |-> provider_creation_claims'[q]]
        /\ admitted' = [q \in Claimants |-> admitted'[q]]
    BY DEF Tick
  <2> QED BY <1>5, <2>1
<1>7. TypeOK'
  BY <1>0, <1>3, <1>6 DEF IInv, TypeOK
<1>8. ASSUME NEW q \in Requests PROVE Donation(q)'
  <2>1. Donation(q)
    BY DEF IInv
  <2> QED BY <1>0, <1>4, <2>1 DEF Donation
<1>9. ASSUME NEW q \in Claimants PROVE Admission(q)'
  <2>1. Admission(q)
    BY DEF IInv
  <2>2. CASE admitted'[q] < Window
    <3>1. admitted[q] < Window /\ admitted'[q] = admitted[q] + 1
      BY <1>1, <1>5, <2>2, LimitsArePositive
    <3>2. provider_creation_claims'[q].age <= admitted'[q]
      BY <1>1, <1>5, <2>1, <3>1, LimitsArePositive DEF Admission
    <3> QED BY <1>4, <1>5, <2>1, <3>1, <3>2 DEF Admission
  <2> QED BY <2>2 DEF Admission
<1>10. RowsKept
  BY <1>0, <1>4 DEF RowsKept
<1>11. ASSUME NEW c \in Calls PROVE Sound(call[c])'
  <2>1. Sound(call[c])
    BY DEF IInv
  <2>2. PICK k : k = call[c]
    OBVIOUS
  <2>3. Sound(k)'
    BY <1>10, <2>1, <2>2, SoundKeeps
  <2> QED BY <1>0, <2>2, <2>3 DEF Sound
<1>12. Live' \subseteq Live
  BY <1>1, <1>5 DEF Live, Expired
<1> QED BY <1>7, <1>8, <1>9, <1>11, <1>12, LiveShrinks DEF IInv

-----------------------------------------------------------------------------
(* The theorems.                                                           *)

\* The invariant holds in every state, for any number of requests and calls.
THEOREM InvariantHolds == Spec => []IInv
<1>1. IInv /\ UNCHANGED vars => IInv'
  <2> SUFFICES ASSUME IInv, UNCHANGED vars PROVE IInv'
    OBVIOUS
  <2>1. UNCHANGED <<stripe_checkout_sessions, provider_creation_claims, call, sessions, handed,
                    refusals, admitted>>
    BY DEF vars
  <2> QED BY <2>1, ClaimsMove, SameAdmissions, SameLive, Known
<1>2. IInv /\ [Next]_vars => IInv'
  BY <1>1, StartStep, BudgetStep, ConcurrentStep, ReserveStep, ReleaseStep, RetryBudgetStep,
     ReclaimStep, ReleaseLostStep, ExistingStep, CreateStep, FailStep, AttachStep, CrashStep,
     ProviderEventStep, OtherDonationStep, SweepStep, TickStep DEF Next, Step
<1> QED BY InitInv, <1>2, PTL DEF Spec

\* Every variable keeps its type, provided claim ids do not run out.
THEOREM TypeCorrect == Spec => []TypeOK
<1>1. IInv => TypeOK
  BY DEF IInv
<1> QED BY <1>1, InvariantHolds, PTL

\* A donation is never offered as two payable sessions, and Stripe makes one
\* at most unless it has definitely refused a call of the request.
THEOREM OneSession == Spec => []OneSessionPerDonation
<1>1. IInv => OneSessionPerDonation
  <2> SUFFICES ASSUME IInv, NEW q \in Requests
               PROVE  /\ Cardinality(handed[q]) <= 1
                      /\ q \notin refusals => Cardinality(sessions[q]) <= 1
    BY DEF OneSessionPerDonation
  <2>1. Donation(q)
    BY DEF IInv
  <2>2. ASSUME NEW S, NEW x, S \subseteq {x} PROVE Cardinality(S) <= 1
    <3>1. CASE S = {}
      BY <3>1, FS_EmptySet
    <3>2. CASE S = {x}
      BY <3>2, FS_Singleton
    <3> QED BY <2>2, <3>1, <3>2
  <2>3. \E x : handed[q] \subseteq {x}
    BY <2>1 DEF Donation
  <2>4. q \notin refusals => \E x : sessions[q] \subseteq {x}
    BY <2>1 DEF Donation
  <2> QED BY <2>2, <2>3, <2>4
<1> QED BY <1>1, InvariantHolds, PTL

\* In any window of the budget at most Limit requests get a key for Stripe,
\* although claims are released, taken over by a retry, and swept.
THEOREM WithinBudget == Spec => []AdmittedWithinBudget
<1>1. IInv => AdmittedWithinBudget
  <2> SUFFICES ASSUME IInv PROVE AdmittedWithinBudget
    OBVIOUS
  <2>1. PICK S : S = {q \in Claimants : admitted[q] < Window}
    OBVIOUS
  <2>2. ASSUME NEW q \in S PROVE q \in Live
    <3>1. q \in Claimants /\ admitted[q] < Window /\ Admission(q) /\ admitted[q] \in 0..Window
          /\ provider_creation_claims[q] \in ProviderCreationClaim
      BY <2>1, <2>2, Known DEF IInv
    <3> QED BY <3>1, LimitsArePositive DEF Admission, Live, Expired, ProviderCreationClaim
  <2>3. PICK L : L = Live
    OBVIOUS
  <2>4. IsFiniteSet(L) /\ Cardinality(L) <= Limit /\ S \subseteq L
    BY <2>2, <2>3 DEF IInv
  <2>5. IsFiniteSet(S) /\ Cardinality(S) <= Cardinality(L)
    BY <2>4, FS_Subset
  <2>6. Cardinality(S) \in Nat /\ Cardinality(L) \in Nat
    BY <2>4, <2>5, FS_CardinalityType
  <2> QED BY <2>1, <2>4, <2>5, <2>6, LimitsArePositive DEF AdmittedWithinBudget
<1> QED BY <1>1, InvariantHolds, PTL

=============================================================================
