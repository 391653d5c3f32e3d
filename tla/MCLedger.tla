------------------------------ MODULE MCLedger ------------------------------
(* The instance of Ledger that TLC checks.                                 *)
EXTENDS Ledger, TLC

CONSTANTS c1, s1, a1, a2, a3, x1

MCIds       == <<a1, a2, a3>>
MCStrangers == {x1}
MCInitial   == (a1 :> 15) @@ (a2 :> 11) @@ (a3 :> 3)
MCAmounts   == {-4, 12}
MCClients   == {c1}
MCStressers == {s1}
=============================================================================
