-------------------------- MODULE MCWompiIssuance --------------------------
(* WompiIssuance for TLC: claim ids, attempt ids and payments are          *)
(* interchangeable.                                                        *)
EXTENDS WompiIssuance, TLC

WompiSymmetry == Permutations(Claims) \cup Permutations(Attempts)

PaymentSymmetry == WompiSymmetry \cup Permutations(Events)

=============================================================================
