------------------------------ MODULE MCWsHub -------------------------------
(* The instance of WsHub that TLC checks.                                  *)
EXTENDS WsHub

CONSTANTS c1, c2

MCClients == {c1, c2}
=============================================================================
