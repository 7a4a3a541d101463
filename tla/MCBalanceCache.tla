--------------------------- MODULE MCBalanceCache ---------------------------
(* Small sets of charges and workers. *)
EXTENDS BalanceCache
=============================================================================
