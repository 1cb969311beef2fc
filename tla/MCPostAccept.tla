---------------------------- MODULE MCPostAccept ----------------------------
(* Small instances of PostAccept for TLC.                                  *)
EXTENDS PostAccept, TLC

\* Runs, requests and addresses are only compared for equality.
PostAcceptSymmetry == Permutations(Runs) \cup Permutations(Requests) \cup Permutations(Emails)

=============================================================================
