--------------------------- MODULE MCStripeLedger ---------------------------
\* Two deliveries in flight over the history of one donation.
EXTENDS StripeLedger, TLC

Symmetry == Permutations(Workers)

=============================================================================
