----------------------------- MODULE MCAccounts -----------------------------
(* One account under two overlapping requests.                             *)
EXTENDS Accounts, TLC

CONSTANTS c1, c2, e1, e2, t1, t2, m1, m2

MCCalls == {c1, c2}
MCEmails == {e1, e2}
MCTokens == {t1, t2}
MCChallenges == {m1, m2}

MCSymmetry == UNION {Permutations(S) : S \in {MCCalls, MCEmails, MCTokens, MCChallenges}}

=============================================================================
