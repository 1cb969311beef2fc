------------------------- MODULE MCFiscalOperations -------------------------
(* Small instances of FiscalOperations for TLC.                            *)
EXTENDS FiscalOperations, TLC

\* Runs only name handler invocations: they are interchangeable.
RunSymmetry == Permutations(Runs)

=============================================================================
