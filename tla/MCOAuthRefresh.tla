--------------------------- MODULE MCOAuthRefresh ---------------------------
(* Two processes with a sweep each, one of them serving a request. *)
EXTENDS OAuthRefresh
CONSTANTS s1, s2, r1
MCProcess == [c \in Callers |-> IF c = s2 THEN "p2" ELSE "p1"]
=============================================================================
