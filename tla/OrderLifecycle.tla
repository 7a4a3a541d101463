--------------------------- MODULE OrderLifecycle ---------------------------
(***************************************************************************)
(* What the payment service promises about an order, with no workers, no   *)
(* audit log and no clock: which status follows which, and what must be    *)
(* true of the money and the goods when it does.  PaymentOrder implements  *)
(* it up to COMPLETED and PaymentRefund from there on.                     *)
(***************************************************************************)

VARIABLES
    status,         \* the order's status column
    paid,           \* the provider was paid, or an admin vouched for it
    delivered,      \* the goods have reached the buyer
    returned        \* the provider owes the buyer nothing any more

vars == <<status, paid, delivered, returned>>

money == <<paid, delivered, returned>>

Refundable == {"COMPLETED", "REFUND_REQUESTED", "REFUND_PENDING",
               "REFUND_FAILED"}

Init ==
    /\ status = "PENDING"
    /\ paid = FALSE
    /\ delivered = FALSE
    /\ returned = FALSE

\* Money arrives, whatever the order's status.
Pay ==
    /\ paid' = TRUE
    /\ UNCHANGED <<status, delivered, returned>>

\* The payment is acknowledged, or a stuck fulfilment is given up for a new
\* attempt; a COMPLETED order is never paid again.
Accept ==
    /\ status \in {"PENDING", "CANCELLED", "EXPIRED", "FAILED", "RECHARGING"}
    /\ status' = "PAID"
    /\ paid' = TRUE
    /\ UNCHANGED <<delivered, returned>>

\* Only an order that nobody has accepted a payment for is closed.
Close ==
    /\ status = "PENDING"
    /\ status' \in {"CANCELLED", "EXPIRED"}
    /\ UNCHANGED money

Work ==
    /\ status \in {"PAID", "FAILED"}
    /\ paid
    /\ status' = "RECHARGING"
    /\ UNCHANGED money

\* A worker that was taken for dead may still deliver.
Deliver ==
    /\ paid
    /\ delivered' = TRUE
    /\ UNCHANGED <<status, paid, returned>>

Complete ==
    /\ status = "RECHARGING"
    /\ delivered
    /\ status' = "COMPLETED"
    /\ UNCHANGED money

\* A fulfilment or the creation of the order fails; the latter may come
\* late, when the order has moved on.
Fail ==
    /\ status' = "FAILED"
    /\ UNCHANGED money

RequestRefund ==
    /\ status = "COMPLETED"
    /\ status' = "REFUND_REQUESTED"
    /\ UNCHANGED money

BeginRefund ==
    /\ status \in Refundable
    /\ status' = "REFUNDING"
    /\ UNCHANGED money

ReturnMoney ==
    /\ returned' = TRUE
    /\ UNCHANGED <<status, paid, delivered>>

\* REFUNDED needs the money back, and no refund step leaves it.
EndRefund ==
    /\ status = "REFUNDING"
    /\ status' \in Refundable \cup {"REFUNDED"}
    /\ status' = "REFUNDED" => returned
    /\ UNCHANGED money

Next ==
    \/ Pay \/ Accept \/ Close \/ Work \/ Deliver \/ Complete \/ Fail
    \/ RequestRefund \/ BeginRefund \/ ReturnMoney \/ EndRefund

Spec == Init /\ [][Next]_vars

=============================================================================
