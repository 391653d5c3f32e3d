-------------------------- MODULE MCCircuitBreaker --------------------------
(* The instances of CircuitBreaker that TLC checks.                        *)
EXTENDS CircuitBreaker, TLC

CONSTANTS g1, g2, g3

TwoGoroutines   == {g1, g2}
ThreeGoroutines == {g1, g2, g3}
=============================================================================
