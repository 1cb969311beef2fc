---------------------- MODULE MCStripeAcknowledgments ----------------------
\* Two workers over two renewals of an adopted subscription and a past invoice.
EXTENDS StripeAcknowledgments, TLC

Symmetry == Permutations(Workers)

=============================================================================
