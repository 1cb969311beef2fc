------------------------ MODULE MCStripeStatements ------------------------
\* Two runs, a donor whose gifts change, settings that change back and forth.
EXTENDS StripeStatements, TLC

Symmetry == Permutations(Runs) \cup Permutations(Settings)

=============================================================================
