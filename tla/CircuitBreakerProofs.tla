------------------------ MODULE CircuitBreakerProofs ------------------------
(* Proofs about CircuitBreaker, for every set of goroutines and every      *)
(* threshold.                                                              *)
EXTENDS CircuitBreaker, TLAPS

\* The invariant holds of a hub that has served no request.
LEMMA InitIInv == Init => IInv
BY BreakerAssumption
   DEF Init, IInv, TypeOK, States, SharedBreaker, NeverTripsEarly

\* Every atomic step of every goroutine preserves the invariant.
LEMMA InvStep == IInv /\ [Next]_vars => IInv'
<1> SUFFICES ASSUME IInv, [Next]_vars PROVE IInv'
  OBVIOUS
<1> USE BreakerAssumption DEF IInv, TypeOK, States, Goto
<1>1. ASSUME NEW g \in Goroutines, lookup(g) PROVE IInv'
  <2>1. TypeOK'
    BY <1>1 DEF lookup
  <2>2. SharedBreaker' /\ (registry = made)'
    BY <1>1 DEF lookup, SharedBreaker
  <2>3. (failures <= counted)' /\ NeverTripsEarly'
    BY <1>1 DEF lookup, NeverTripsEarly
  <2> QED
    BY <2>1, <2>2, <2>3
<1>2. ASSUME NEW g \in Goroutines, create(g) PROVE IInv'
  <2>1. TypeOK'
    BY <1>2 DEF create, lookupVars
  <2>2. SharedBreaker' /\ (registry = made)'
    BY <1>2 DEF create, SharedBreaker, lookupVars
  <2>3. (failures <= counted)' /\ NeverTripsEarly'
    BY <1>2 DEF create, NeverTripsEarly
  <2> QED
    BY <2>1, <2>2, <2>3
<1>3. ASSUME NEW g \in Goroutines, load(g) PROVE IInv'
  <2>1. TypeOK'
    BY <1>3 DEF load
  <2>2. SharedBreaker' /\ (registry = made)'
    BY <1>3 DEF load, SharedBreaker
  <2>3. (failures <= counted)' /\ NeverTripsEarly'
    BY <1>3 DEF load, NeverTripsEarly
  <2> QED
    BY <2>1, <2>2, <2>3
<1>4. ASSUME NEW g \in Goroutines, check(g) PROVE IInv'
  <2>1. TypeOK'
    BY <1>4 DEF check
  <2>2. SharedBreaker' /\ (registry = made)'
    BY <1>4 DEF check, SharedBreaker
  <2>3. (failures <= counted)' /\ NeverTripsEarly'
    BY <1>4 DEF check, NeverTripsEarly
  <2> QED
    BY <2>1, <2>2, <2>3
<1>5. ASSUME NEW g \in Goroutines, probe(g) PROVE IInv'
  <2>1. TypeOK'
    BY <1>5 DEF probe
  <2>2. SharedBreaker' /\ (registry = made)'
    BY <1>5 DEF probe, SharedBreaker
  <2>3. (failures <= counted)' /\ NeverTripsEarly'
    BY <1>5 DEF probe, NeverTripsEarly
  <2> QED
    BY <2>1, <2>2, <2>3
<1>6. ASSUME NEW g \in Goroutines, upstream(g) PROVE IInv'
  <2>1. TypeOK'
    BY <1>6 DEF upstream
  <2>2. SharedBreaker' /\ (registry = made)'
    BY <1>6 DEF upstream, SharedBreaker
  <2>3. (failures <= counted)' /\ NeverTripsEarly'
    BY <1>6 DEF upstream, NeverTripsEarly
  <2> QED
    BY <2>1, <2>2, <2>3
<1>7. ASSUME NEW g \in Goroutines, reset(g) PROVE IInv'
  <2>1. TypeOK'
    BY <1>7 DEF reset
  <2>2. SharedBreaker' /\ (registry = made)'
    BY <1>7 DEF reset, SharedBreaker
  <2>3. (failures <= counted)' /\ NeverTripsEarly'
    BY <1>7 DEF reset, NeverTripsEarly
  <2> QED
    BY <2>1, <2>2, <2>3
<1>8. ASSUME NEW g \in Goroutines, close(g) PROVE IInv'
  <2>1. TypeOK'
    BY <1>8 DEF close
  <2>2. SharedBreaker' /\ (registry = made)'
    BY <1>8 DEF close, SharedBreaker
  <2>3. (failures <= counted)' /\ NeverTripsEarly'
    BY <1>8 DEF close, NeverTripsEarly
  <2> QED
    BY <2>1, <2>2, <2>3
<1>9. ASSUME NEW g \in Goroutines, count(g) PROVE IInv'
  <2>1. TypeOK'
    BY <1>9 DEF count, Saturate
  <2>2. SharedBreaker' /\ (registry = made)'
    BY <1>9 DEF count, SharedBreaker
  <2>3. (failures <= counted)' /\ NeverTripsEarly'
    BY <1>9 DEF count, NeverTripsEarly, Saturate
  <2> QED
    BY <2>1, <2>2, <2>3
<1>10. ASSUME NEW g \in Goroutines, stamp(g) PROVE IInv'
  <2>1. TypeOK'
    BY <1>10 DEF stamp
  <2>2. SharedBreaker' /\ (registry = made)'
    BY <1>10 DEF stamp, SharedBreaker
  <2>3. (failures <= counted)' /\ NeverTripsEarly'
    BY <1>10 DEF stamp, NeverTripsEarly
  <2> QED
    BY <2>1, <2>2, <2>3
<1>11. ASSUME NEW g \in Goroutines, trip(g) PROVE IInv'
  <2>1. TypeOK'
    BY <1>11 DEF trip
  <2>2. SharedBreaker' /\ (registry = made)'
    BY <1>11 DEF trip, SharedBreaker
  <2>3. (failures <= counted)' /\ NeverTripsEarly'
    BY <1>11 DEF trip, NeverTripsEarly
  <2> QED
    BY <2>1, <2>2, <2>3
<1>12. CASE Tick
  BY <1>12 DEF Tick, SharedBreaker, NeverTripsEarly
<1>13. CASE BackendFlips
  BY <1>13 DEF BackendFlips, SharedBreaker, NeverTripsEarly
<1>14. CASE UNCHANGED vars
  BY <1>14 DEF vars, SharedBreaker, NeverTripsEarly
<1> HIDE DEF IInv
<1> QED
  BY <1>1, <1>2, <1>3, <1>4, <1>5, <1>6, <1>7, <1>8, <1>9, <1>10, <1>11, <1>12, <1>13, <1>14 DEF Next, Step

\* Type correctness of the breaker.
THEOREM TypeCorrect == Spec => []TypeOK
<1>1. IInv => TypeOK
  BY DEF IInv
<1> QED
  BY <1>1, InitIInv, InvStep, PTL DEF Spec

\* getOrCreateCB hands every goroutine the same breaker.
THEOREM OneBreakerPerName == Spec => []SharedBreaker
<1>1. IInv => SharedBreaker
  BY DEF IInv
<1> QED
  BY <1>1, InitIInv, InvStep, PTL DEF Spec

\* Under every interleaving of RecordSuccess, RecordFailure and Allow the
\* breaker stays closed until Threshold failures have been recorded.
THEOREM NoEarlyTrip == Spec => []NeverTripsEarly
<1>1. IInv => NeverTripsEarly
  BY DEF IInv
<1> QED
  BY <1>1, InitIInv, InvStep, PTL DEF Spec
=============================================================================
