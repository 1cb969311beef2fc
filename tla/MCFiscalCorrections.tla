------------------------ MODULE MCFiscalCorrections ------------------------
(* Small instances of FiscalCorrections for TLC.                           *)
EXTENDS FiscalCorrections, TLC

\* Runs, corrections and processing claims are only compared for equality.
CorrectionSymmetry == Permutations(Runs) \cup Permutations(Corrections) \cup Permutations(Tokens)

=============================================================================
