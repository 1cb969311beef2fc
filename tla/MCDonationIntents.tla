------------------------- MODULE MCDonationIntents -------------------------
(* One gift under two overlapping invocations and the cron.                *)
EXTENDS DonationIntents, TLC

Symmetry == Permutations(Requests) \cup Permutations(Orders)
=============================================================================
