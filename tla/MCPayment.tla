------------------------------ MODULE MCPayment ------------------------------
(* Values of the constants of PaymentSystem for its runs.                  *)
EXTENDS PaymentSystem

CONSTANTS o1, o2, p1, p2, g, e1, e2, t1, t2

Request(event, order, payment, txn, status) ==
    [path |-> g,
     body |-> [event_id |-> event, gateway |-> g, order_id |-> order,
               payment_id |-> payment, gateway_txn_id |-> txn, status |-> status]]

\* A payment reported PENDING and then SUCCESS under one gateway_txn_id; only the
\* reconciler captures the other one.
Plain == {Request(e1, o1, p1, t1, "PENDING"), Request(e2, o1, p1, t1, "SUCCESS")}

\* Event ids used twice: for another status, or for another payment and order, and a
\* webhook that names the wrong order.
Arbitrary == {Request(e1, o1, p1, t1, "PENDING"), Request(e1, o1, p1, t1, "SUCCESS"),
              Request(e2, o2, p1, t2, "SUCCESS"), Request(e2, o2, p2, t2, "FAILED")}
=============================================================================
