--------------------------- MODULE MCPaymentOrder ---------------------------
(* PaymentOrder for TLC: two workers are interchangeable.                  *)
EXTENDS PaymentOrder, TLC

Symmetry == Permutations(Workers)

=============================================================================
