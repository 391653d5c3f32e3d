-------------------------- MODULE OrderSagaProofs ---------------------------
(* Proofs about OrderSaga, for every set of orders and of handler threads. *)
EXTENDS OrderSaga, TLAPS

\* The invariant holds of the empty table.
LEMMA InitIInv == Init => IInv
<1> SUFFICES ASSUME Init PROVE IInv
  OBVIOUS
<1> USE SagaAssumption DEF Init, Idle, NoSaga, Accepting
<1>1. TypeOK
  BY DEF TypeOK, OrderStatus, OrderEvent, Events, Verdicts
<1>2. AbsentIsFresh /\ OneAcceptor
  BY DEF AbsentIsFresh, OneAcceptor
<1>3. DecidedIsNotPending /\ LockHolder
  BY DEF DecidedIsNotPending, LockHolder, CheckedStatusIsCurrent
<1>4. HeldStatuses /\ EventsTellTruth
  BY DEF HeldStatuses, EventsTellTruth
<1> QED
  BY <1>1, <1>2, <1>3, <1>4 DEF IInv

\* The target of an event is a status, and no event leads back to PENDING.
LEMMA Targets ==
  ASSUME NEW e \in OrderEvent
  PROVE  targetStatus(e) \in OrderStatus \ {"PENDING"}
BY DEF targetStatus, OrderEvent, OrderStatus

\* Type correctness is preserved by every step.
LEMMA TypeStep == TypeOK /\ [Next]_vars => TypeOK'
<1> SUFFICES ASSUME TypeOK, [Next]_vars PROVE TypeOK'
  OBVIOUS
<1> USE SagaAssumption DEF TypeOK, Idle, NoSaga, SetStatus, Event
<1>1. ASSUME NEW r \in Reqs, NEW o \in Orders, insertOrderPending(r, o) PROVE TypeOK'
  BY <1>1 DEF insertOrderPending, OrderStatus, OrderEvent
<1>2. ASSUME NEW r \in Reqs, NEW o \in Orders, NEW e \in OrderEvent, selectForUpdate(r, o, e)
      PROVE TypeOK'
  BY <1>2 DEF selectForUpdate
<1>3. ASSUME NEW r \in Reqs, executeSaga(r) PROVE TypeOK'
  BY <1>3 DEF executeSaga, Events, OrderStatus, OrderEvent, Verdicts
<1>4. ASSUME NEW r \in Reqs, respondFails(r) PROVE TypeOK'
  BY <1>4 DEF respondFails, OrderEvent
<1>5. ASSUME NEW r \in Reqs, commitTransition(r) PROVE TypeOK'
  BY <1>5, Targets, SMTT(40) DEF commitTransition
<1>6. ASSUME NEW r \in Reqs, rollbackTransition(r) PROVE TypeOK'
  BY <1>6 DEF rollbackTransition, OrderEvent
<1>7. ASSUME NEW r \in Reqs, respondPut(r) PROVE TypeOK'
  BY <1>7, Targets DEF respondPut, Events, OrderEvent
<1>8. ASSUME NEW o \in Orders, NEW s \in BOOLEAN, SagaReply(o, s) PROVE TypeOK'
  BY <1>8 DEF SagaReply, Verdicts
<1>9. ASSUME NEW o \in Orders, updateOrderStatus(o) PROVE TypeOK'
  BY <1>9 DEF updateOrderStatus, Verdicts, OrderStatus
<1>10. ASSUME NEW o \in Orders, updateFails(o) PROVE TypeOK'
  BY <1>10, SMTT(40) DEF updateFails
<1>11. ASSUME NEW o \in Orders, publishSaga(o) PROVE TypeOK'
  BY <1>11 DEF publishSaga, Events, Verdicts, OrderStatus, SagaEvents
<1>12. ASSUME NEW e \in publishing, publishOrderEvent(e) PROVE TypeOK'
  BY <1>12 DEF publishOrderEvent
<1>13. CASE Crash
  BY <1>13 DEF Crash, OrderEvent
<1>14. CASE UNCHANGED vars
  BY <1>14 DEF vars
<1> QED
  BY <1>1, <1>2, <1>3, <1>4, <1>5, <1>6, <1>7, <1>8, <1>9, <1>10, <1>11,
     <1>12, <1>13, <1>14 DEF Next, PostStep, PutStep, SagaStep

\* The whole invariant is preserved by every step.
LEMMA InvStep == IInv /\ [Next]_vars => IInv'
<1> SUFFICES ASSUME IInv, [Next]_vars PROVE IInv'
  OBVIOUS
<1> USE SagaAssumption
<1> DEFINE Parts == /\ AbsentIsFresh /\ OneAcceptor /\ DecidedIsNotPending
                    /\ LockHolder /\ HeldStatuses /\ EventsTellTruth
<1>0. TypeOK /\ TypeOK'
  BY TypeStep DEF IInv
<1> USE DEF TypeOK, IInv, AbsentIsFresh, OneAcceptor, DecidedIsNotPending,
            LockHolder, CheckedStatusIsCurrent, HeldStatuses, EventsTellTruth,
            Accepting, Idle, NoSaga, SetStatus, Event
<1>1. ASSUME NEW r \in Reqs, NEW o \in Orders, insertOrderPending(r, o) PROVE Parts'
  <2>1. AbsentIsFresh'
    BY <1>0, <1>1 DEF insertOrderPending
  <2>2. OneAcceptor'
    BY <1>0, <1>1 DEF insertOrderPending
  <2>3. DecidedIsNotPending'
    BY <1>0, <1>1 DEF insertOrderPending
  <2>4. LockHolder'
    BY <1>0, <1>1 DEF insertOrderPending
  <2>5. HeldStatuses'
    BY <1>0, <1>1 DEF insertOrderPending
  <2>6. EventsTellTruth'
    BY <1>0, <1>1 DEF insertOrderPending, Events
  <2> QED
    BY <2>1, <2>2, <2>3, <2>4, <2>5, <2>6
<1>2. ASSUME NEW r \in Reqs, NEW o \in Orders, NEW e \in OrderEvent, selectForUpdate(r, o, e) PROVE Parts'
  <2>1. AbsentIsFresh'
    BY <1>0, <1>2 DEF selectForUpdate
  <2>2. OneAcceptor'
    BY <1>0, <1>2 DEF selectForUpdate
  <2>3. DecidedIsNotPending'
    BY <1>0, <1>2 DEF selectForUpdate
  <2>4. LockHolder'
    BY <1>0, <1>2 DEF selectForUpdate
  <2>5. HeldStatuses'
    BY <1>0, <1>2 DEF selectForUpdate
  <2>6. EventsTellTruth'
    BY <1>0, <1>2 DEF selectForUpdate, Events
  <2> QED
    BY <2>1, <2>2, <2>3, <2>4, <2>5, <2>6
<1>3. ASSUME NEW r \in Reqs, executeSaga(r) PROVE Parts'
  <2>1. AbsentIsFresh'
    BY <1>0, <1>3 DEF executeSaga
  <2>2. OneAcceptor'
    BY <1>0, <1>3 DEF executeSaga
  <2>3. DecidedIsNotPending'
    BY <1>0, <1>3 DEF executeSaga
  <2>4. LockHolder'
    BY <1>0, <1>3 DEF executeSaga
  <2>5. HeldStatuses'
    BY <1>0, <1>3 DEF executeSaga
  <2>6. EventsTellTruth'
    BY <1>0, <1>3 DEF executeSaga, Events
  <2> QED
    BY <2>1, <2>2, <2>3, <2>4, <2>5, <2>6
<1>4. ASSUME NEW r \in Reqs, respondFails(r) PROVE Parts'
  <2>1. AbsentIsFresh'
    BY <1>0, <1>4 DEF respondFails
  <2>2. OneAcceptor'
    BY <1>0, <1>4 DEF respondFails
  <2>3. DecidedIsNotPending'
    BY <1>0, <1>4 DEF respondFails
  <2>4. LockHolder'
    BY <1>0, <1>4 DEF respondFails
  <2>5. HeldStatuses'
    BY <1>0, <1>4 DEF respondFails
  <2>6. EventsTellTruth'
    BY <1>0, <1>4 DEF respondFails, Events
  <2> QED
    BY <2>1, <2>2, <2>3, <2>4, <2>5, <2>6
<1>5. ASSUME NEW r \in Reqs, commitTransition(r) PROVE Parts'
  <2>1. AbsentIsFresh'
    BY <1>0, <1>5, Targets DEF commitTransition, OrderStatus
  <2>2. OneAcceptor'
    BY <1>0, <1>5, Targets DEF commitTransition
  <2>3. DecidedIsNotPending'
    BY <1>0, <1>5, Targets DEF commitTransition
  <2>4. LockHolder'
    BY <1>0, <1>5, Targets DEF commitTransition
  <2>5. HeldStatuses'
    BY <1>0, <1>5, Targets DEF commitTransition
  <2>6. EventsTellTruth'
    BY <1>0, <1>5, Targets DEF commitTransition, Events
  <2> QED
    BY <2>1, <2>2, <2>3, <2>4, <2>5, <2>6
<1>6. ASSUME NEW r \in Reqs, rollbackTransition(r) PROVE Parts'
  <2>1. AbsentIsFresh'
    BY <1>0, <1>6 DEF rollbackTransition
  <2>2. OneAcceptor'
    BY <1>0, <1>6 DEF rollbackTransition
  <2>3. DecidedIsNotPending'
    BY <1>0, <1>6 DEF rollbackTransition
  <2>4. LockHolder'
    BY <1>0, <1>6 DEF rollbackTransition
  <2>5. HeldStatuses'
    BY <1>0, <1>6 DEF rollbackTransition
  <2>6. EventsTellTruth'
    BY <1>0, <1>6 DEF rollbackTransition, Events
  <2> QED
    BY <2>1, <2>2, <2>3, <2>4, <2>5, <2>6
<1>7. ASSUME NEW r \in Reqs, respondPut(r) PROVE Parts'
  <2>1. AbsentIsFresh'
    BY <1>0, <1>7 DEF respondPut
  <2>2. OneAcceptor'
    BY <1>0, <1>7 DEF respondPut
  <2>3. DecidedIsNotPending'
    BY <1>0, <1>7 DEF respondPut
  <2>4. LockHolder'
    BY <1>0, <1>7 DEF respondPut
  <2>5. HeldStatuses'
    BY <1>0, <1>7 DEF respondPut
  <2>6. EventsTellTruth'
    BY <1>0, <1>7 DEF respondPut, Events
  <2> QED
    BY <2>1, <2>2, <2>3, <2>4, <2>5, <2>6
<1>8. ASSUME NEW o \in Orders, NEW s \in BOOLEAN, SagaReply(o, s) PROVE Parts'
  <2>1. AbsentIsFresh'
    BY <1>0, <1>8 DEF SagaReply
  <2>2. OneAcceptor'
    BY <1>0, <1>8 DEF SagaReply
  <2>3. DecidedIsNotPending'
    BY <1>0, <1>8 DEF SagaReply
  <2>4. LockHolder'
    BY <1>0, <1>8 DEF SagaReply
  <2>5. HeldStatuses'
    BY <1>0, <1>8 DEF SagaReply
  <2>6. EventsTellTruth'
    BY <1>0, <1>8 DEF SagaReply, Events
  <2> QED
    BY <2>1, <2>2, <2>3, <2>4, <2>5, <2>6
<1>9. ASSUME NEW o \in Orders, updateOrderStatus(o) PROVE Parts'
  <2>1. AbsentIsFresh'
    BY <1>0, <1>9 DEF updateOrderStatus, Verdicts
  <2>2. OneAcceptor'
    BY <1>0, <1>9 DEF updateOrderStatus, Verdicts
  <2>3. DecidedIsNotPending'
    BY <1>0, <1>9 DEF updateOrderStatus, Verdicts
  <2>4. LockHolder'
    BY <1>0, <1>9 DEF updateOrderStatus, Verdicts
  <2>5. HeldStatuses'
    BY <1>0, <1>9 DEF updateOrderStatus, Verdicts
  <2>6. EventsTellTruth'
    BY <1>0, <1>9 DEF updateOrderStatus, Events, Verdicts
  <2> QED
    BY <2>1, <2>2, <2>3, <2>4, <2>5, <2>6
<1>10. ASSUME NEW o \in Orders, updateFails(o) PROVE Parts'
  <2>1. AbsentIsFresh'
    BY <1>0, <1>10 DEF updateFails
  <2>2. OneAcceptor'
    BY <1>0, <1>10 DEF updateFails
  <2>3. DecidedIsNotPending'
    BY <1>0, <1>10 DEF updateFails
  <2>4. LockHolder'
    BY <1>0, <1>10 DEF updateFails
  <2>5. HeldStatuses'
    BY <1>0, <1>10 DEF updateFails
  <2>6. EventsTellTruth'
    BY <1>0, <1>10 DEF updateFails, Events
  <2> QED
    BY <2>1, <2>2, <2>3, <2>4, <2>5, <2>6
<1>11. ASSUME NEW o \in Orders, publishSaga(o) PROVE Parts'
  <2>1. AbsentIsFresh'
    BY <1>0, <1>11 DEF publishSaga
  <2>2. OneAcceptor'
    BY <1>0, <1>11 DEF publishSaga
  <2>3. DecidedIsNotPending'
    BY <1>0, <1>11 DEF publishSaga
  <2>4. LockHolder'
    BY <1>0, <1>11 DEF publishSaga
  <2>5. HeldStatuses'
    BY <1>0, <1>11 DEF publishSaga
  <2>6. EventsTellTruth'
    BY <1>0, <1>11 DEF publishSaga, Events
  <2> QED
    BY <2>1, <2>2, <2>3, <2>4, <2>5, <2>6
<1>12. ASSUME NEW e \in publishing, publishOrderEvent(e) PROVE Parts'
  <2>1. AbsentIsFresh'
    BY <1>0, <1>12 DEF publishOrderEvent
  <2>2. OneAcceptor'
    BY <1>0, <1>12 DEF publishOrderEvent
  <2>3. DecidedIsNotPending'
    BY <1>0, <1>12 DEF publishOrderEvent
  <2>4. LockHolder'
    BY <1>0, <1>12 DEF publishOrderEvent
  <2>5. HeldStatuses'
    BY <1>0, <1>12 DEF publishOrderEvent
  <2>6. EventsTellTruth'
    BY <1>0, <1>12 DEF publishOrderEvent, Events
  <2> QED
    BY <2>1, <2>2, <2>3, <2>4, <2>5, <2>6
<1>13. ASSUME Crash PROVE Parts'
  <2>1. AbsentIsFresh'
    BY <1>0, <1>13 DEF Crash
  <2>2. OneAcceptor'
    BY <1>0, <1>13 DEF Crash
  <2>3. DecidedIsNotPending'
    BY <1>0, <1>13 DEF Crash
  <2>4. LockHolder'
    BY <1>0, <1>13 DEF Crash
  <2>5. HeldStatuses'
    BY <1>0, <1>13 DEF Crash
  <2>6. EventsTellTruth'
    BY <1>0, <1>13 DEF Crash
  <2> QED
    BY <2>1, <2>2, <2>3, <2>4, <2>5, <2>6
<1>14. ASSUME UNCHANGED vars PROVE Parts'
  <2>1. AbsentIsFresh' /\ OneAcceptor'
    BY <1>14 DEF vars
  <2>2. DecidedIsNotPending' /\ LockHolder'
    BY <1>14 DEF vars
  <2>3. HeldStatuses'
    BY <1>14 DEF vars
  <2>4. EventsTellTruth'
    BY <1>14 DEF vars
  <2> QED
    BY <2>1, <2>2, <2>3, <2>4
<1> HIDE DEF TypeOK, AbsentIsFresh, OneAcceptor, DecidedIsNotPending, LockHolder,
             HeldStatuses, EventsTellTruth
<1> QED
  BY <1>0, <1>1, <1>2, <1>3, <1>4, <1>5, <1>6, <1>7, <1>8, <1>9, <1>10, <1>11,
     <1>12, <1>13, <1>14 DEF Next, PostStep, PutStep, SagaStep

\* Type correctness of the order server.
THEOREM TypeCorrect == Spec => []TypeOK
<1>1. Init => TypeOK
  BY InitIInv DEF IInv
<1> QED
  BY <1>1, TypeStep, PTL DEF Spec

\* The inductive invariant holds throughout.
THEOREM Invariance == Spec => []IInv
BY InitIInv, InvStep, PTL DEF Spec

\* ON CONFLICT DO NOTHING and the absence of any restart logic give an order at
\* most one saga, whatever is posted twice and whenever the JVM dies.
THEOREM AtMostOneSaga == Spec => []OneSagaPerOrder
<1>1. IInv => OneSagaPerOrder
  BY DEF IInv, OneAcceptor, OneSagaPerOrder
<1> QED
  BY <1>1, Invariance, PTL

\* A PENDING order always has a live owner or a saga known to be lost.
THEOREM PendingOwned == Spec => []PendingIsOwned
<1>1. IInv => PendingIsOwned
  BY DEF IInv, TypeOK, OneAcceptor, DecidedIsNotPending, PendingIsOwned
<1> QED
  BY <1>1, Invariance, PTL

\* The events on order-events only name statuses the row has held.
THEOREM TruthfulEvents == Spec => []EventsTellTruth
<1>1. IInv => EventsTellTruth
  BY DEF IInv
<1> QED
  BY <1>1, Invariance, PTL

\* SELECT ... FOR UPDATE: the status a PUT checked is the one it replaces.
THEOREM NoStaleCheck == Spec => []CheckedStatusIsCurrent
<1>1. IInv => CheckedStatusIsCurrent
  BY DEF IInv, LockHolder
<1> QED
  BY <1>1, Invariance, PTL

\* A step of the server is a step of OrderLifecycle or leaves its state alone.
LEMMA LifecycleStep == IInv /\ [Next]_vars => [Life!Next]_(Life!lifeVars)
<1> SUFFICES ASSUME IInv, [Next]_vars PROVE [Life!Next]_(Life!lifeVars)
  OBVIOUS
<1> USE SagaAssumption
<1> USE DEF Life!lifeVars, Life!Next, decisionOf, IInv, TypeOK, SetStatus
<1>1. ASSUME NEW r \in Reqs, NEW o \in Orders, insertOrderPending(r, o)
      PROVE  Life!Create(o)
  BY <1>1 DEF insertOrderPending, Life!Create, AbsentIsFresh
<1>2. ASSUME NEW r \in Reqs, NEW o \in Orders, NEW e \in OrderEvent,
             selectForUpdate(r, o, e)
      PROVE  UNCHANGED Life!lifeVars
  BY <1>2 DEF selectForUpdate
<1>3. ASSUME NEW r \in Reqs, executeSaga(r) PROVE UNCHANGED Life!lifeVars
  BY <1>3 DEF executeSaga, NoSaga, Accepting, OneAcceptor, AbsentIsFresh
<1>4. ASSUME NEW r \in Reqs, respondFails(r) PROVE Life!Lose({req[r].order})
  BY <1>4 DEF respondFails, Life!Lose, Accepting, OneAcceptor, AbsentIsFresh
<1>5. ASSUME NEW r \in Reqs, commitTransition(r) PROVE Life!Move(req[r].order)
  <2> DEFINE o == req[r].order
             t == targetStatus(req[r].event)
  <2>1. o \in Orders /\ row[o] = req[r].prev /\ row[o] # "absent"
    BY <1>5 DEF commitTransition, LockHolder, CheckedStatusIsCurrent, AbsentIsFresh
  <2>2. t \in OrderStatus /\ t # "absent"
    BY Targets DEF OrderStatus
  <2>3. Life!canTransitionTo(row[o], t)
    BY <1>5, <2>1 DEF commitTransition, canTransitionTo, Life!canTransitionTo
  <2>4. row' = [row EXCEPT ![o] = t] /\ UNCHANGED saga
    BY <1>5 DEF commitTransition
  <2>5. UNCHANGED [p \in Orders |-> decisionOf(p)]
    BY <2>1, <2>2, <2>4
  <2> QED
    BY <2>2, <2>3, <2>4, <2>5 DEF Life!Move, Life!OrderStatus, OrderStatus
<1>6. ASSUME NEW r \in Reqs, rollbackTransition(r) \/ respondPut(r)
      PROVE  UNCHANGED Life!lifeVars
  BY <1>6 DEF rollbackTransition, respondPut
<1>7. ASSUME NEW o \in Orders, NEW s \in BOOLEAN, SagaReply(o, s)
      PROVE  UNCHANGED Life!lifeVars
  BY <1>7 DEF SagaReply
<1>8. ASSUME NEW o \in Orders, updateOrderStatus(o) PROVE Life!Decide(o)
  <2>1. row[o] # "absent" /\ saga[o].pc = "decided" /\ saga[o].verdict \in Verdicts
    BY <1>8 DEF updateOrderStatus, AbsentIsFresh
  <2>2. /\ row' = [row EXCEPT ![o] = saga[o].verdict]
        /\ saga' = [saga EXCEPT ![o].pc = "announce"]
    BY <1>8 DEF updateOrderStatus
  <2>3. decisionOf(o) = "owed" /\ decisionOf(o)' = "made"
    BY <2>1, <2>2 DEF Verdicts
  <2>4. \A p \in Orders \ {o} : decisionOf(p)' = decisionOf(p)
    BY <2>2
  <2> HIDE DEF decisionOf
  <2>5. [p \in Orders |-> decisionOf(p)]' =
        [[p \in Orders |-> decisionOf(p)] EXCEPT ![o] = "made"]
    BY <2>3, <2>4
  <2> QED
    BY <2>1, <2>2, <2>3, <2>5 DEF Life!Decide, Verdicts, Life!Verdicts
<1>9. ASSUME NEW o \in Orders, updateFails(o) PROVE Life!Lose({o})
  BY <1>9 DEF updateFails, Life!Lose, AbsentIsFresh
<1>10. ASSUME NEW o \in Orders, publishSaga(o) PROVE UNCHANGED Life!lifeVars
  BY <1>10 DEF publishSaga
<1>11. ASSUME NEW e \in publishing, publishOrderEvent(e) PROVE UNCHANGED Life!lifeVars
  BY <1>11 DEF publishOrderEvent
<1>12. ASSUME Crash PROVE Life!Lose({o \in Orders : decisionOf(o) = "owed"})
  BY <1>12 DEF Crash, Life!Lose, AbsentIsFresh
<1>13. ASSUME UNCHANGED vars PROVE UNCHANGED Life!lifeVars
  BY <1>13 DEF vars
<1> HIDE DEF decisionOf, IInv, TypeOK, SetStatus, Life!lifeVars
<1>14. ASSUME NEW r \in Reqs, respondFails(r) PROVE Life!Next
  BY <1>4, <1>14 DEF respondFails, IInv, TypeOK
<1>15. ASSUME NEW r \in Reqs, commitTransition(r) PROVE Life!Next
  BY <1>5, <1>15 DEF commitTransition, IInv, TypeOK
<1>16. ASSUME Crash PROVE Life!Next
  BY <1>12, <1>16
<1> QED
  BY <1>1, <1>2, <1>3, <1>14, <1>15, <1>6, <1>7, <1>8, <1>9, <1>10, <1>11,
     <1>16, <1>13 DEF Next, PostStep, PutStep, SagaStep

\* The order server implements the lifecycle of an order: refinement mapping
\* decisionOf, every step a step of OrderLifecycle or a stutter.
THEOREM Refinement == Spec => ImplementsLifecycle
<1>1. ASSUME Init PROVE Life!Init
  <2>1. \A o \in Orders : decisionOf(o) = "none"
    BY <1>1 DEF Init, NoSaga, decisionOf
  <2> QED
    BY <1>1, <2>1 DEF Init, Life!Init
<1> QED
  BY <1>1, LifecycleStep, Invariance, PTL DEF Spec, ImplementsLifecycle, Life!Spec

=============================================================================
