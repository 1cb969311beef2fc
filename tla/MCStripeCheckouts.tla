------------------------- MODULE MCStripeCheckouts -------------------------
\* One donation with two calls in flight, another of its client, two
\* configurations.
EXTENDS StripeCheckouts, TLC

Symmetry == Permutations(Calls) \cup Permutations(Fingerprints)

=============================================================================
