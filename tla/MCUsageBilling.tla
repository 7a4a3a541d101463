--------------------------- MODULE MCUsageBilling ---------------------------
(* Small sets of requests, keys, fingerprints and cleaners. *)
EXTENDS UsageBilling, TLC
Symmetry == Permutations(Requests) \cup Permutations(Cleaners)
=============================================================================
