--------------------------- MODULE MCPaymentRefund ---------------------------
(* PaymentRefund for TLC: the admins are interchangeable.                  *)
EXTENDS PaymentRefund, TLC

Symmetry == Permutations(Workers)

=============================================================================
