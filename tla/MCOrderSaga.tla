---------------------------- MODULE MCOrderSaga -----------------------------
(* The instances of OrderSaga that TLC checks.                             *)
EXTENDS OrderSaga, TLC

CONSTANTS r1, r2, o1

MCOrders == {o1}
MCReqs   == {r1, r2}
=============================================================================
