--------------------------- MODULE MCIdempotency ---------------------------
(* Idempotency on small constants: response bodies and request symmetry. *)
EXTENDS Idempotency, TLC

MCBodies == [by: Requests, whole: BOOLEAN]
Symmetry == Permutations(Requests) \cup Permutations(Payloads)
=============================================================================
