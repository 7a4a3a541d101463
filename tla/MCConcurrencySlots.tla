------------------------ MODULE MCConcurrencySlots ------------------------
(* Two requests of one user and one of another, on two processes, compete  *)
(* for one account.                                                        *)
EXTENDS ConcurrencySlots
CONSTANTS r1, r2, r3, u1, u2, a1, p1, p2
MCProcess == [r \in Requests |-> IF r = r2 THEN p2 ELSE p1]
MCUser == [r \in Requests |-> IF r = r3 THEN u2 ELSE u1]
MCAccount == [r \in Requests |-> a1]
MCLimit == [k \in Keys |-> 1]
MCMaxWait == [k \in Keys |-> IF k = u1 THEN 2 ELSE 1]
=============================================================================
