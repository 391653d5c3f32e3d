---------------------------- MODULE MCSagaSystem ----------------------------
(* The instance of SagaSystem that TLC checks: two orders compete for the  *)
(* money of one account.                                                   *)
EXTENDS SagaSystem, TLC

CONSTANTS o1, o2, a1, a2

MCIds     == <<a1, a2>>
MCInitial == (a1 :> 12) @@ (a2 :> 0)
MCOrders  == {o1, o2}
OneOrder  == {o1}
MCWanted  == [o \in MCOrders |-> [from |-> a1, to |-> a2, amount |-> 5]]

\* The orders ask for the same transfer.
OrderSymmetry == Permutations(MCOrders)
=============================================================================
