-------------------------- MODULE SagaSystemProofs --------------------------
(* Proofs about SagaSystem, for every set of orders, every chart of        *)
(* accounts and every number of crashes, faults and restarts.              *)
EXTENDS SagaSystem, Integers, Sequences, TLAPS

\* What is proved about the components alone.
ServerFacts == INSTANCE OrderSagaProofs
BooksFacts  == INSTANCE LedgerProofs WITH Clients <- Transmissions, Stressers <- {}, N <- 0,
                 MinAmount <- 10, Strangers <- Unknown,
                 Amounts <- {Wanted[o].amount : o \in Orders}

\* Which steps of the system are steps of the order server.
LEMMA ServerSteps == [Next]_vars => [Server!Next]_(Server!vars)
<1> SUFFICES ASSUME [Next]_vars PROVE [Server!Next]_(Server!vars)
  OBVIOUS
<1> USE DEF serverVars, Server!vars
<1>1. CASE serverStep
  BY <1>1 DEF serverStep, Server!Next, Server!SagaStep
<1>2. ASSUME NEW o \in Orders, buildFails(o) \/ sagaAnswered(o) \/ sagaCutOff(o)
      PROVE  Server!Next
  BY <1>2 DEF buildFails, sagaAnswered, sagaCutOff, Server!Next, Server!SagaStep
<1>3. ASSUME NEW o \in Orders, sagaResends(o) PROVE UNCHANGED serverVars
  BY <1>3 DEF sagaResends
<1>4. ASSUME NEW t \in Transmissions,
             ProxyStep(t) \/ connectionReset(t) \/ replay(t) \/ ledgerStep(t)
      PROVE  UNCHANGED serverVars
  BY <1>4 DEF ProxyStep, allow, forward, modifyResponse, errorHandler, connectionReset,
              replay, ledgerStep
<1>5. CASE ledgerFlips \/ ledgerRestarts
  BY <1>5 DEF ledgerFlips, ledgerRestarts
<1>6. CASE UNCHANGED vars
  BY <1>6 DEF vars
<1> QED
  BY <1>1, <1>2, <1>3, <1>4, <1>5, <1>6 DEF Next

\* Which steps of the system are steps of the ledger.
LEMMA LedgerSteps == [Next]_vars => [Books!Next]_(Books!vars)
<1> SUFFICES ASSUME [Next]_vars PROVE [Books!Next]_(Books!vars)
  OBVIOUS
<1> USE DEF ledgerVars, Books!vars
<1>1. CASE serverStep
  BY <1>1 DEF serverStep
<1>2. ASSUME NEW o \in Orders, buildFails(o) \/ sagaAnswered(o) \/ sagaCutOff(o) \/ sagaResends(o)
      PROVE  UNCHANGED ledgerVars
  BY <1>2 DEF buildFails, sagaAnswered, sagaCutOff, sagaResends
<1>3. ASSUME NEW t \in Transmissions,
             \/ allow(t) \/ modifyResponse(t) \/ errorHandler(t)
             \/ connectionReset(t) \/ replay(t)
      PROVE  UNCHANGED ledgerVars
  BY <1>3 DEF allow, modifyResponse, errorHandler, connectionReset, replay
<1>4. ASSUME NEW t \in Transmissions, forward(t) PROVE Books!Next
  <2> DEFINE o == OrderOf(t)
  <2>0. o \in Orders
    BY DEF Transmissions, OrderOf
  <2>1. Books!clientTransfer(t, Wanted[o].from, Wanted[o].to, Wanted[o].amount)
    BY <1>4 DEF forward
  <2>2. {Wanted[o].from, Wanted[o].to} \subseteq Books!Accounts \cup Unknown
    <3>1. Books!Accounts = {Ids[i] : i \in DOMAIN Ids}
      BY DEF Books!Accounts, Books!Range
    <3>2. ASSUME NEW n \in {Wanted[o].from, Wanted[o].to}, n \notin {Ids[i] : i \in DOMAIN Ids}
          PROVE  n \in Unknown
      <4>1. n \in UNION {{Wanted[q].from, Wanted[q].to} : q \in Orders}
        BY <2>0
      <4> QED
        BY <3>2, <4>1 DEF Unknown
    <3> QED
      BY <3>1, <3>2
  <2> QED
    BY <2>0, <2>1, <2>2 DEF Books!Next
<1>5. ASSUME NEW t \in Transmissions, ledgerStep(t)
      PROVE  Books!Next
  BY <1>5 DEF ledgerStep, Books!Next, Books!TxnStep, Books!Threads
<1>6. CASE ledgerFlips
  BY <1>6 DEF ledgerFlips
<1>7. CASE ledgerRestarts
  BY <1>7 DEF ledgerRestarts, Books!Next
<1>8. CASE UNCHANGED vars
  BY <1>8 DEF vars
<1> QED
  BY <1>1, <1>2, <1>3, <1>4, <1>5, <1>6, <1>7, <1>8 DEF Next, ProxyStep

-----------------------------------------------------------------------------
(* The components' invariants, carried over.  Server and ServerFacts, and  *)
(* Books and BooksFacts, are two instances of one module with the same     *)
(* substitution: their definitions expand to the same formulas.            *)

\* Initial states of the order server.
LEMMA SameServerInit == Server!Init => ServerFacts!Init
BY DEF Server!Init, Server!Idle, Server!NoSaga,
       ServerFacts!Init, ServerFacts!Idle, ServerFacts!NoSaga

\* Steps of the order server.
LEMMA SameServerNext == [Server!Next]_(Server!vars) => [ServerFacts!Next]_(ServerFacts!vars)
BY DEF Server!vars, Server!Next, Server!PostStep, Server!PutStep, Server!SagaStep,
       Server!insertOrderPending, Server!executeSaga, Server!respondFails,
       Server!selectForUpdate, Server!commitTransition, Server!rollbackTransition,
       Server!respondPut, Server!SagaReply, Server!updateOrderStatus, Server!updateFails,
       Server!publishSaga, Server!publishOrderEvent, Server!Crash, Server!SetStatus,
       Server!Idle, Server!NoSaga, Server!Event, Server!OrderEvent, Server!targetStatus,
       Server!canTransitionTo,
       ServerFacts!vars, ServerFacts!Next, ServerFacts!PostStep, ServerFacts!PutStep,
       ServerFacts!SagaStep, ServerFacts!insertOrderPending, ServerFacts!executeSaga,
       ServerFacts!respondFails, ServerFacts!selectForUpdate, ServerFacts!commitTransition,
       ServerFacts!rollbackTransition, ServerFacts!respondPut, ServerFacts!SagaReply,
       ServerFacts!updateOrderStatus, ServerFacts!updateFails, ServerFacts!publishSaga,
       ServerFacts!publishOrderEvent, ServerFacts!Crash, ServerFacts!SetStatus,
       ServerFacts!Idle, ServerFacts!NoSaga, ServerFacts!Event, ServerFacts!OrderEvent,
       ServerFacts!targetStatus, ServerFacts!canTransitionTo

\* The invariant of the order server.
LEMMA SameServerInv == ServerFacts!IInv <=> Server!IInv
BY DEF Server!IInv, Server!TypeOK, Server!AbsentIsFresh, Server!OneAcceptor,
       Server!DecidedIsNotPending, Server!LockHolder, Server!HeldStatuses,
       Server!EventsTellTruth, Server!CheckedStatusIsCurrent, Server!Accepting,
       Server!Events, Server!SagaEvents, Server!OrderEvent, Server!OrderStatus,
       Server!Verdicts, Server!targetStatus,
       ServerFacts!IInv, ServerFacts!TypeOK, ServerFacts!AbsentIsFresh,
       ServerFacts!OneAcceptor, ServerFacts!DecidedIsNotPending, ServerFacts!LockHolder,
       ServerFacts!HeldStatuses, ServerFacts!EventsTellTruth,
       ServerFacts!CheckedStatusIsCurrent, ServerFacts!Accepting, ServerFacts!Events,
       ServerFacts!SagaEvents, ServerFacts!OrderEvent, ServerFacts!OrderStatus,
       ServerFacts!Verdicts, ServerFacts!targetStatus

\* Initial states of the ledger.
LEMMA SameBooksInit == Books!Init => BooksFacts!Init
BY DEF Books!Init, Books!NoTxn, Books!NoStress, Books!Threads, Books!futureTransfer,
       Books!Transfer,
       BooksFacts!Init, BooksFacts!NoTxn, BooksFacts!NoStress, BooksFacts!Threads,
       BooksFacts!futureTransfer, BooksFacts!Transfer

\* Steps of the ledger.
LEMMA SameBooksNext == [Books!Next]_(Books!vars) => [BooksFacts!Next]_(BooksFacts!vars)
BY DEF Books!vars, Books!Next, Books!TxnStep, Books!StressStep, Books!clientTransfer,
       Books!futureStarts, Books!retry, Books!commit, Books!refuse, Books!resetAccounts,
       Books!awaitFutures, Books!readAccount, Books!verdict, Books!Restart, Books!Begin,
       Books!Transfer, Books!Covered, Books!Move, Books!Invalidate, Books!TearSums,
       Books!Ended, Books!NoTxn, Books!NoStress, Books!futureTransfer, Books!FuturesOf,
       Books!Threads, Books!Accounts, Books!Range, Books!Total,
       BooksFacts!vars, BooksFacts!Next, BooksFacts!TxnStep, BooksFacts!StressStep,
       BooksFacts!clientTransfer, BooksFacts!futureStarts, BooksFacts!retry,
       BooksFacts!commit, BooksFacts!refuse, BooksFacts!resetAccounts,
       BooksFacts!awaitFutures, BooksFacts!readAccount, BooksFacts!verdict,
       BooksFacts!Restart, BooksFacts!Begin, BooksFacts!Transfer, BooksFacts!Covered,
       BooksFacts!Move, BooksFacts!Invalidate, BooksFacts!TearSums, BooksFacts!Ended,
       BooksFacts!NoTxn, BooksFacts!NoStress, BooksFacts!futureTransfer,
       BooksFacts!FuturesOf, BooksFacts!Threads, BooksFacts!Accounts, BooksFacts!Range,
       BooksFacts!Total

\* The invariant of the ledger.
LEMMA SameBooksInv == BooksFacts!IInv <=> Books!IInv
BY DEF Books!IInv, Books!TypeOK, Books!FreshSnapshot, Books!NoOverdraft, Books!Threads,
       Books!TxnState, Books!StressState, Books!Requests, Books!Names, Books!Accounts,
       Books!Range,
       BooksFacts!IInv, BooksFacts!TypeOK, BooksFacts!FreshSnapshot,
       BooksFacts!NoOverdraft, BooksFacts!Threads, BooksFacts!TxnState,
       BooksFacts!StressState, BooksFacts!Requests, BooksFacts!Names,
       BooksFacts!Accounts, BooksFacts!Range

\* The total of the ledger.
LEMMA SameConservation == BooksFacts!Conservation <=> Books!Conservation
BY DEF Books!Conservation, Books!Total, Books!SumFunction, Books!SumFunctionOnSet,
       Books!FoldFunctionOnSet, Books!MapThenFoldSet,
       BooksFacts!Conservation, BooksFacts!Total, BooksFacts!SumFunction,
       BooksFacts!SumFunctionOnSet, BooksFacts!FoldFunctionOnSet, BooksFacts!MapThenFoldSet

\* The components' invariants hold in the whole system.
LEMMA ComponentInvariance == Spec => [](Server!IInv /\ Books!IInv /\ Books!Conservation)
<1>1. ServerFacts!SagaAssumption /\ BooksFacts!LedgerAssumption
  BY ComponentAssumptions
     DEF Server!SagaAssumption, Books!LedgerAssumption, Books!Accounts, Books!Range,
         ServerFacts!SagaAssumption, BooksFacts!LedgerAssumption, BooksFacts!Accounts,
         BooksFacts!Range
<1>2. ServerFacts!Spec => []ServerFacts!IInv
  BY <1>1, ServerFacts!Invariance
<1>3. BooksFacts!Spec => []BooksFacts!Conservation
  BY <1>1, BooksFacts!MoneyConserved
<1>4. BooksFacts!Init => BooksFacts!IInv
  BY <1>1, BooksFacts!InitIInv
<1>5. BooksFacts!IInv /\ [BooksFacts!Next]_(BooksFacts!vars) => BooksFacts!IInv'
  BY <1>1, BooksFacts!InvStep
<1>6. Init => ServerFacts!Init /\ BooksFacts!Init
  BY SameServerInit, SameBooksInit DEF Init
<1>7. [Next]_vars => [ServerFacts!Next]_(ServerFacts!vars)
  BY ServerSteps, SameServerNext
<1>8. [Next]_vars => [BooksFacts!Next]_(BooksFacts!vars)
  BY LedgerSteps, SameBooksNext
<1> QED
  BY <1>2, <1>3, <1>4, <1>5, <1>6, <1>7, <1>8,
     SameServerInv, SameBooksInv, SameConservation, PTL
     DEF Spec, ServerFacts!Spec, BooksFacts!Spec

-----------------------------------------------------------------------------
(* The link between the components.                                        *)

\* The parts of a transmission.
LEMMA Parts ==
  ASSUME NEW t \in Transmissions
  PROVE  OrderOf(t) \in Orders /\ t[2] \in 1..(MaxFaults + 1) /\ t = <<OrderOf(t), t[2]>>
BY DEF Transmissions, OrderOf

\* The awaited transmission is one, and while a connection may still break there
\* is room for the next, which nobody has sent yet.
LEMMA Sends ==
  ASSUME LinkInv, NEW o \in Orders
  PROVE  /\ Awaited(o) \in Transmissions
         /\ faults < MaxFaults => NextSend(o) \in Transmissions /\ call[NextSend(o)] = "none"
<1>1. /\ sends[o] \in Nat /\ awaits[o] \in Nat /\ resets[o] \in Nat /\ faults \in Nat
      /\ sends[o] >= 1 /\ sends[o] <= 1 + resets[o] /\ awaits[o] >= 1 /\ awaits[o] <= sends[o]
      /\ resets[o] <= faults /\ faults <= MaxFaults /\ MaxFaults \in Nat
  BY SystemAssumption DEF LinkInv, SendsCounted
<1>2. awaits[o] \in 1..(MaxFaults + 1)
  BY <1>1
<1>3. Awaited(o) \in Transmissions
  BY <1>2 DEF Awaited, Transmissions
<1>4. ASSUME faults < MaxFaults
      PROVE  NextSend(o) \in Transmissions /\ call[NextSend(o)] = "none"
  <2>1. sends[o] + 1 \in 1..(MaxFaults + 1)
    BY <1>1, <1>4
  <2>2. NextSend(o) \in Transmissions /\ OrderOf(NextSend(o)) = o /\ NextSend(o)[2] = sends[o] + 1
    BY <2>1 DEF NextSend, Transmissions, OrderOf
  <2>3. ~(sends[o] + 1 <= sends[o])
    BY <1>1
  <2> QED
    BY <2>2, <2>3 DEF LinkInv, CallsMatchWork
<1> QED
  BY <1>3, <1>4

\* The invariant of the link holds at the start.
LEMMA InitLink == Init => LinkInv
<1> SUFFICES ASSUME Init PROVE LinkInv
  OBVIOUS
<1>1. /\ \A o \in Orders : saga[o].pc = "none" /\ row[o] = "absent" /\ started[o] = 0
      /\ \A t \in Transmissions : txn[t].pc = "idle"
  BY DEF Init, Server!Init, Server!NoSaga, Books!Init, Books!NoTxn, Books!Threads
<1>2. transferLog = <<>>
  BY DEF Init, Books!Init
<1>3. /\ call = [t \in Transmissions |-> "none"] /\ applied = [t \in Transmissions |-> 0]
      /\ sends = [o \in Orders |-> 1] /\ awaits = [o \in Orders |-> 1]
      /\ resets = [o \in Orders |-> 0] /\ faults = 0 /\ unbuilt = {}
  BY DEF Init
<1>4. CallsMatchWork
  BY <1>1, <1>3 DEF CallsMatchWork
<1>5. SendsCounted /\ CancelsHaveCause
  BY <1>1, <1>3 DEF SendsCounted, CancelsHaveCause, Canceling
<1>6. OrderedAmounts
  BY <1>1, <1>2 DEF OrderedAmounts
<1> QED
  BY <1>3, <1>4, <1>5, <1>6, SystemAssumption DEF LinkInv

\* A step of the order server other than the end of the remote call: a saga is
\* started only where none was, no verdict changes, and a row becomes CANCELED by
\* a canceling verdict only.
LEMMA ServerKeepsLink ==
  ASSUME Server!IInv, LinkInv, serverStep
  PROVE  LinkInv'
<1>0. Server!TypeOK
  BY DEF Server!IInv
<1>1. UNCHANGED <<ledgerVars, linkVars>>
  BY DEF serverStep
<1> DEFINE Keeps ==
      \A o \in Orders :
        /\ \/ started'[o] = started[o] /\ saga'[o].pc # "remote"
           \/ started'[o] = started[o] /\ saga'[o] = saga[o]
           \/ started[o] = 0 /\ started'[o] = 1 /\ saga'[o].pc = "remote"
        /\ saga'[o].pc \in {"decided", "announce"} =>
             /\ saga[o].pc \in {"decided", "announce"}
             /\ saga'[o].verdict = saga[o].verdict
        /\ row'[o] = "CANCELED" =>
             \/ row[o] = "CANCELED"
             \/ saga[o].pc = "decided" /\ saga[o].verdict = "CANCELED"
<1>2. ASSUME UNCHANGED <<saga, started, row>> PROVE Keeps
  BY <1>2
<1>3. ASSUME NEW r \in Reqs, Server!executeSaga(r) PROVE Keeps
  <2> DEFINE q == req[r].order
  <2>1. q \in Orders /\ Server!Accepting(r, q)
    BY <1>0, <1>3 DEF Server!executeSaga, Server!TypeOK, Server!Accepting
  <2> DEFINE new == [Server!NoSaga EXCEPT !.pc = "remote"]
  <2>3. /\ saga' = [saga EXCEPT ![q] = new] /\ new.pc = "remote" /\ row' = row
        /\ started' = [started EXCEPT ![q] = started[q] + 1]
    BY <1>3 DEF Server!executeSaga, Server!NoSaga
  <2>2. started[q] = 0
    BY <2>1 DEF Server!IInv, Server!OneAcceptor
  <2> HIDE DEF q, new
  <2> QED
    BY <1>0, <2>1, <2>2, <2>3 DEF Server!TypeOK
<1>4. ASSUME NEW r \in Reqs, Server!respondFails(r) PROVE Keeps
  BY <1>0, <1>4 DEF Server!respondFails, Server!TypeOK
<1>5. ASSUME NEW q \in Orders, \/ Server!updateOrderStatus(q) \/ Server!updateFails(q)
                               \/ Server!publishSaga(q)
      PROVE  Keeps
  BY <1>0, <1>5 DEF Server!updateOrderStatus, Server!SetStatus, Server!updateFails,
                    Server!publishSaga, Server!TypeOK
<1>6. ASSUME Server!Crash PROVE Keeps
  BY <1>0, <1>6 DEF Server!Crash, Server!TypeOK
<1>7. ASSUME NEW r \in Reqs, NEW q \in Orders, Server!insertOrderPending(r, q) PROVE Keeps
  BY <1>0, <1>7 DEF Server!insertOrderPending, Server!SetStatus, Server!TypeOK
<1>8. Keeps
  BY <1>2, <1>3, <1>4, <1>5, <1>6, <1>7 DEF serverStep, Server!PostStep, Server!publishOrderEvent
<1> HIDE DEF Keeps
<1>9. CallsMatchWork'
  <2> SUFFICES ASSUME NEW t \in Transmissions, call[t] # "none"
               PROVE  started'[OrderOf(t)] = 1
    BY <1>1 DEF LinkInv, CallsMatchWork, ledgerVars, linkVars, wireVars, faultVars
  <2>1. OrderOf(t) \in Orders
    BY Parts
  <2> QED
    BY <1>8, <2>1 DEF LinkInv, CallsMatchWork, Keeps
<1>10. SendsCounted'
  BY <1>1, <1>8 DEF LinkInv, SendsCounted, linkVars, wireVars, faultVars, Keeps
<1>11. CancelsHaveCause'
  BY <1>1, <1>8 DEF LinkInv, CancelsHaveCause, Canceling, linkVars, faultVars, Keeps
<1> QED
  BY <1>1, <1>9, <1>10, <1>11
     DEF LinkInv, OrderedAmounts, ledgerVars, linkVars, wireVars, faultVars

\* The saga's end of the call.  A canceling verdict comes from a call that failed
\* or a request that could not be built; and a request that could not be built
\* was not sent.
LEMMA ReplyKeepsLink ==
  ASSUME Server!IInv, LinkInv, NEW o \in Orders,
         buildFails(o) \/ sagaAnswered(o) \/ sagaCutOff(o) \/ sagaResends(o)
  PROVE  LinkInv'
<1>0. saga \in [Orders -> [pc : {"none", "remote", "decided", "announce", "done", "lost"},
                           verdict : Server!Verdicts]]
  BY DEF Server!IInv, Server!TypeOK
<1>1. CASE buildFails(o)
  <2>1. /\ sends[o] = 1 /\ call[Awaited(o)] = "none" /\ saga[o].pc = "remote"
        /\ unbuilt' = unbuilt \cup {o}
        /\ saga' = [saga EXCEPT ![o] = [pc |-> "decided", verdict |-> "CANCELED"]]
        /\ UNCHANGED <<ledgerVars, wireVars, call, applied, faults, cut, started, row>>
    BY <1>1 DEF buildFails, Server!SagaReply
  <2>2. \A t \in Transmissions : OrderOf(t) = o => call[t] = "none"
    <3> SUFFICES ASSUME NEW t \in Transmissions, OrderOf(t) = o, call[t] # "none"
                 PROVE  FALSE
      OBVIOUS
    <3>1. t[2] \in Nat /\ 1 <= t[2] /\ t[2] <= 1
      BY <2>1, Parts, SystemAssumption DEF LinkInv, CallsMatchWork
    <3>2. awaits[o] \in Nat /\ 1 <= awaits[o] /\ awaits[o] <= 1
      BY <2>1 DEF LinkInv, SendsCounted
    <3>3. t = Awaited(o)
      <4>1. t[2] = awaits[o]
        BY <3>1, <3>2
      <4> QED
        BY <4>1, Parts DEF Awaited
    <3> QED
      BY <2>1, <3>3
  <2>3. CallsMatchWork'
    BY <2>1, <2>2 DEF LinkInv, CallsMatchWork, ledgerVars, wireVars
  <2>4. SendsCounted'
    BY <1>0, <2>1 DEF LinkInv, SendsCounted, wireVars
  <2>5. CancelsHaveCause'
    BY <1>0, <2>1 DEF LinkInv, CancelsHaveCause, Canceling
  <2> QED
    BY <2>1, <2>3, <2>4, <2>5 DEF LinkInv, OrderedAmounts, ledgerVars, wireVars
<1>2. CASE sagaAnswered(o)
  <2>1. /\ call[Awaited(o)] = "replied" /\ call' = [call EXCEPT ![Awaited(o)] = "over"]
        /\ saga[o].pc = "remote"
        /\ saga' = [saga EXCEPT ![o] = [pc |-> "decided", verdict |-> "COMPLETED"]]
        /\ UNCHANGED <<ledgerVars, wireVars, faultVars, applied, started, row>>
    BY <1>2 DEF sagaAnswered, Goto, Server!SagaReply
  <2>2. CallsMatchWork'
    BY <2>1, Sends DEF LinkInv, CallsMatchWork, ledgerVars, wireVars, faultVars
  <2>3. SendsCounted' /\ CancelsHaveCause'
    BY <1>0, <2>1 DEF LinkInv, SendsCounted, CancelsHaveCause, Canceling, wireVars, faultVars
  <2> QED
    BY <2>1, <2>2, <2>3 DEF LinkInv, OrderedAmounts, ledgerVars, wireVars, faultVars
<1>3. CASE sagaCutOff(o)
  <2>1. /\ cut' = cut \cup {o} /\ saga[o].pc = "remote"
        /\ faults < MaxFaults /\ faults' = faults + 1
        /\ saga' = [saga EXCEPT ![o] = [pc |-> "decided", verdict |-> "CANCELED"]]
        /\ UNCHANGED <<ledgerVars, wireVars, unbuilt, applied, call, started, row>>
    BY <1>3 DEF sagaCutOff, Server!SagaReply
  <2>2. CallsMatchWork'
    BY <2>1 DEF LinkInv, CallsMatchWork, ledgerVars, wireVars
  <2>3. SendsCounted'
    BY <1>0, <2>1 DEF LinkInv, SendsCounted, wireVars
  <2>4. CancelsHaveCause'
    BY <1>0, <2>1 DEF LinkInv, CancelsHaveCause, Canceling
  <2> QED
    BY <2>1, <2>2, <2>3, <2>4, SystemAssumption DEF LinkInv, OrderedAmounts, ledgerVars, wireVars
<1>4. CASE sagaResends(o)
  <2>1. /\ faults < MaxFaults /\ faults' = faults + 1
        /\ resets' = [resets EXCEPT ![o] = resets[o] + 1]
        /\ sends' = [sends EXCEPT ![o] = sends[o] + 1]
        /\ awaits' = [awaits EXCEPT ![o] = sends[o] + 1]
        /\ UNCHANGED <<serverVars, ledgerVars, call, applied, cut, unbuilt>>
    BY <1>4 DEF sagaResends
  <2>2. SendsCounted'
    BY <2>1 DEF LinkInv, SendsCounted, serverVars
  <2>3. CallsMatchWork'
    <3>1. \A q \in Orders : sends[q] \in Nat /\ sends'[q] \in Nat /\ sends[q] <= sends'[q]
      BY <2>1 DEF LinkInv
    <3>2. \A t \in Transmissions : t[2] \in Nat /\ OrderOf(t) \in Orders
      BY Parts, SystemAssumption
    <3> QED
      BY <2>1, <3>1, <3>2 DEF LinkInv, CallsMatchWork, serverVars, ledgerVars
  <2> QED
    BY <2>1, <2>2, <2>3, SystemAssumption
       DEF LinkInv, CancelsHaveCause, Canceling, OrderedAmounts, serverVars, ledgerVars
<1> QED
  BY <1>1, <1>2, <1>3, <1>4

\* The gateway's own steps: only forward makes the ledger work, and only for a
\* transmission that the ledger does not know.
LEMMA ProxyKeepsLink ==
  ASSUME Books!IInv, LinkInv, NEW t \in Transmissions,
         ProxyStep(t) \/ connectionReset(t) \/ replay(t)
  PROVE  LinkInv'
<1>0. OrderOf(t) \in Orders
  BY Parts
<1>1. ASSUME UNCHANGED <<serverVars, ledgerVars, wireVars, faultVars, applied>>,
             \/ call' = [call EXCEPT ![t] = "admitted"] /\ call[t] \in {"none", "broken"}
             \/ call' = [call EXCEPT ![t] = "replied"],
             \/ call[t] # "none"
             \/ /\ started[OrderOf(t)] = 1 /\ OrderOf(t) \notin unbuilt
                /\ t[2] <= sends[OrderOf(t)]
      PROVE  LinkInv'
  BY <1>1
     DEF LinkInv, CallsMatchWork, SendsCounted, CancelsHaveCause, Canceling, OrderedAmounts,
         ledgerVars, serverVars, wireVars, faultVars
<1>2. CASE forward(t)
  <2>1. txn \in [Transmissions -> Books!TxnState]
    BY DEF Books!IInv, Books!TypeOK, Books!Threads
  <2> DEFINE w == Books!Transfer(Wanted[OrderOf(t)].from, Wanted[OrderOf(t)].to,
                                 Wanted[OrderOf(t)].amount)
  <2>2. /\ call[t] = "admitted" /\ call' = [call EXCEPT ![t] = "sent"]
        /\ txn' = [txn EXCEPT ![t] = [pc |-> "open", what |-> w, snap |-> balance,
                                      stale |-> FALSE]]
        /\ UNCHANGED <<serverVars, wireVars, faultVars, transferLog, applied>>
    BY <1>2 DEF forward, Goto, Books!clientTransfer, Books!Begin
  <2>3. w.amount > 0
    BY <1>0, SystemAssumption DEF Books!Transfer
  <2> HIDE DEF w
  <2> QED
    BY <2>1, <2>2, <2>3
       DEF LinkInv, CallsMatchWork, SendsCounted, CancelsHaveCause, Canceling, OrderedAmounts,
           serverVars, wireVars, faultVars
<1>3. CASE allow(t)
  BY <1>1, <1>3 DEF allow, Goto
<1>4. CASE modifyResponse(t)
  BY <1>1, <1>4 DEF modifyResponse, Goto
<1>5. CASE errorHandler(t)
  BY <1>1, <1>5 DEF errorHandler, Goto
<1>6. CASE replay(t)
  BY <1>1, <1>6 DEF replay, Goto
<1>7. CASE connectionReset(t)
  <2> DEFINE o == OrderOf(t)
             n == NextSend(o)
  <2>1. /\ call[t] = "sent" /\ faults < MaxFaults /\ faults' = faults + 1
        /\ resets' = [resets EXCEPT ![o] = resets[o] + 1]
        /\ \/ /\ sends' = [sends EXCEPT ![o] = sends[o] + 1]
              /\ awaits' = [awaits EXCEPT ![o] = IF awaits[o] = t[2] THEN sends[o] + 1 ELSE awaits[o]]
              /\ call' = [call EXCEPT ![t] = "over", ![n] = "admitted"]
           \/ call' = [call EXCEPT ![t] = "replied"] /\ UNCHANGED <<sends, awaits>>
        /\ UNCHANGED <<serverVars, ledgerVars, applied, cut, unbuilt>>
    BY <1>7 DEF connectionReset, Goto
  <2>2. /\ n \in Transmissions /\ call[n] = "none"
        /\ OrderOf(n) = o /\ n[2] = sends[o] + 1
    BY <1>0, <2>1, Sends DEF NextSend, OrderOf
  <2>3. started[o] = 1 /\ o \notin unbuilt
    BY <2>1 DEF LinkInv, CallsMatchWork
  <2> HIDE DEF o, n
  <2>4. o \in Orders
    BY <1>0 DEF o
  <2>5. SendsCounted'
    BY <2>1, <2>4 DEF LinkInv, SendsCounted, serverVars
  <2>6. CallsMatchWork'
    <3>1. /\ \A q \in Orders : sends[q] \in Nat /\ sends'[q] \in Nat /\ sends[q] <= sends'[q]
          /\ \A u \in Transmissions : u[2] \in Nat /\ OrderOf(u) \in Orders
      BY <2>1, Parts, SystemAssumption DEF LinkInv
    <3> SUFFICES ASSUME NEW u \in Transmissions
                 PROVE  /\ call'[u] \in {"none", "admitted", "broken"}
                             => call[u] \in {"none", "admitted", "broken"}
                        /\ call'[u] # "none" =>
                             /\ started[OrderOf(u)] = 1 /\ OrderOf(u) \notin unbuilt
                             /\ u[2] <= sends'[OrderOf(u)]
      BY <2>1 DEF LinkInv, CallsMatchWork, serverVars, ledgerVars
    <3>2. CASE u = n /\ call'[n] = "admitted"
      <4>1. sends'[o] = sends[o] + 1
        BY <2>1, <2>2, <2>4, <3>2 DEF LinkInv
      <4> QED
        BY <2>2, <2>3, <2>4, <3>1, <3>2, <4>1
    <3>3. CASE u = t
      BY <2>1, <2>2, <3>1, <3>3 DEF LinkInv, CallsMatchWork
    <3>4. CASE u # t /\ call'[u] = call[u]
      BY <3>1, <3>4 DEF LinkInv, CallsMatchWork
    <3>5. \/ u = n /\ call'[n] = "admitted"
          \/ u = t
          \/ u # t /\ call'[u] = call[u]
      BY <2>1, <2>2 DEF LinkInv
    <3> QED
      BY <3>2, <3>3, <3>4, <3>5
  <2> QED
    BY <2>1, <2>2, <2>4, <2>5, <2>6, SystemAssumption
       DEF LinkInv, CancelsHaveCause, Canceling, OrderedAmounts, serverVars, ledgerVars
<1> QED
  BY <1>2, <1>3, <1>4, <1>5, <1>6, <1>7 DEF ProxyStep

\* The ledger's steps: a commit ends the transaction it applies.
LEMMA LedgerKeepsLink ==
  ASSUME Books!IInv, LinkInv, NEW t \in Transmissions, ledgerStep(t)
  PROVE  LinkInv'
<1>0. /\ txn \in [Transmissions -> Books!TxnState] /\ Books!Threads = Transmissions
      /\ transferLog \in Seq([from : Books!Accounts, to : Books!Accounts, amount : Int])
  BY DEF Books!IInv, Books!TypeOK, Books!Threads
<1>a. txn[t].pc = "open" /\ UNCHANGED <<serverVars, wireVars, faultVars, call>>
  BY DEF ledgerStep, Books!commit, Books!retry, Books!refuse
<1>b. /\ applied[t] = 0 /\ call[t] \notin {"none", "admitted", "broken"}
      /\ txn[t].what.amount > 0
  BY <1>a DEF LinkInv, CallsMatchWork, OrderedAmounts
<1>c. Books!Ended(t).pc = "idle"
  BY DEF Books!Ended, Books!NoTxn
<1>d. SendsCounted' /\ CancelsHaveCause'
  BY <1>a DEF LinkInv, SendsCounted, CancelsHaveCause, Canceling, serverVars, wireVars, faultVars
<1>1. CASE Books!commit(t) /\ applied' = [applied EXCEPT ![t] = @ + 1]
  <2> DEFINE x == txn[t].what
             stale == Books!Invalidate(Books!Threads \ {t})
  <2>1. /\ transferLog' = Append(transferLog, x)
        /\ txn' = [stale EXCEPT ![t] = Books!Ended(t)]
        /\ x.from \in Books!Accounts /\ x.to \in Books!Accounts
    BY <1>1 DEF Books!commit, Books!Covered
  <2>2. x \in [from : Books!Accounts, to : Books!Accounts, amount : Int]
    BY <1>0, <2>1 DEF Books!TxnState, Books!Requests
  <2>3. /\ DOMAIN stale = Transmissions
        /\ \A q \in Transmissions : stale[q].pc = txn[q].pc /\ stale[q].what = txn[q].what
    BY <1>0 DEF Books!Invalidate, Books!TxnState
  <2> HIDE DEF stale, x
  <2>4. \A q \in Transmissions : IF q = t THEN txn'[q].pc = "idle"
                                 ELSE txn'[q].pc = txn[q].pc /\ txn'[q].what = txn[q].what
    BY <1>c, <2>1, <2>3
  <2>5. \A i \in DOMAIN transferLog' : transferLog'[i].amount > 0
    <3>1. \A i \in DOMAIN transferLog' :
            transferLog'[i] = x \/ (i \in DOMAIN transferLog /\ transferLog'[i] = transferLog[i])
      BY <1>0, <2>1, <2>2
    <3> QED
      BY <1>b, <3>1 DEF LinkInv, OrderedAmounts, x
  <2>6. OrderedAmounts'
    BY <2>4, <2>5 DEF LinkInv, OrderedAmounts
  <2>7. CallsMatchWork' /\ applied' \in [Transmissions -> Nat]
    BY <1>1, <1>a, <1>b, <2>4 DEF LinkInv, CallsMatchWork, serverVars, wireVars, faultVars
  <2> QED
    BY <1>a, <1>d, <2>6, <2>7 DEF LinkInv, wireVars, faultVars
<1>2. CASE (Books!retry(t) \/ Books!refuse(t)) /\ UNCHANGED applied
  <2>1. /\ UNCHANGED <<transferLog, applied>>
        /\ \/ txn' = [txn EXCEPT ![t] = [pc |-> "open", what |-> txn[t].what,
                                         snap |-> balance, stale |-> FALSE]]
           \/ txn' = [txn EXCEPT ![t] = Books!Ended(t)]
    BY <1>2 DEF Books!retry, Books!refuse, Books!Begin
  <2>2. \A q \in Transmissions : \/ txn'[q].pc = txn[q].pc /\ txn'[q].what = txn[q].what
                                 \/ q = t /\ txn'[q].pc = "idle"
    BY <1>0, <1>a, <1>c, <2>1
  <2> QED
    BY <1>a, <1>b, <1>d, <2>1, <2>2
       DEF LinkInv, CallsMatchWork, OrderedAmounts, serverVars, wireVars, faultVars
<1> QED
  BY <1>1, <1>2 DEF ledgerStep

\* A restart of the ledger forgets its work and breaks the calls it was doing.
LEMMA RestartKeepsLink == ASSUME LinkInv, ledgerRestarts PROVE LinkInv'
<1>1. /\ transferLog' = <<>> /\ txn' = [t \in Books!Threads |-> Books!NoTxn]
      /\ applied' = [t \in Transmissions |-> 0]
      /\ call' = [t \in Transmissions |-> IF call[t] = "sent" THEN "broken" ELSE call[t]]
      /\ UNCHANGED <<serverVars, wireVars, faultVars>>
  BY DEF ledgerRestarts, Books!Restart
<1>2. \A t \in Transmissions : txn'[t].pc = "idle"
  BY <1>1 DEF Books!Threads, Books!NoTxn
<1>3. CallsMatchWork'
  BY <1>1, <1>2 DEF LinkInv, CallsMatchWork, serverVars, wireVars, faultVars
<1>4. OrderedAmounts'
  BY <1>1, <1>2 DEF OrderedAmounts
<1> QED
  BY <1>1, <1>3, <1>4
     DEF LinkInv, SendsCounted, CancelsHaveCause, Canceling, serverVars, wireVars, faultVars

\* Every step of the system preserves the invariant of the link.
LEMMA LinkStep == Server!IInv /\ Books!IInv /\ LinkInv /\ [Next]_vars => LinkInv'
<1> SUFFICES ASSUME Server!IInv, Books!IInv, LinkInv, [Next]_vars PROVE LinkInv'
  OBVIOUS
<1>1. ASSUME UNCHANGED <<serverVars, ledgerVars, wireVars, faultVars, call, applied>>
      PROVE  LinkInv'
  BY <1>1
     DEF LinkInv, CallsMatchWork, SendsCounted, CancelsHaveCause, Canceling, OrderedAmounts,
         serverVars, ledgerVars, wireVars, faultVars
<1>2. CASE ledgerFlips \/ UNCHANGED vars
  BY <1>1, <1>2 DEF ledgerFlips, vars, linkVars
<1> QED
  BY <1>2, ServerKeepsLink, ReplyKeepsLink, ProxyKeepsLink, LedgerKeepsLink, RestartKeepsLink
     DEF Next

\* All three invariants together hold throughout.
LEMMA SystemInvariance == Spec => [](Server!IInv /\ Books!IInv /\ LinkInv)
BY ComponentInvariance, InitLink, LinkStep, PTL DEF Spec

\* For any number of orders and of broken connections, deadlines, crashes and
\* restarts: one transmission of a request moves money at most once in one life of
\* the ledger, a request is transmitted once more only for a connection that broke
\* under it, and only for an order in the table whose saga was started.
THEOREM MoneyMovesOnce == Spec => []TransferredOnce
<1>1. Server!IInv /\ LinkInv => TransferredOnce
  <2> SUFFICES ASSUME Server!IInv, LinkInv, NEW t \in Transmissions
               PROVE  /\ applied[t] <= 1
                      /\ applied[t] = 1 => txn[t].pc = "idle"
                      /\ applied[t] = 1 \/ txn[t].pc = "open" =>
                           /\ t[2] <= 1 + resets[OrderOf(t)]
                           /\ row[OrderOf(t)] # "absent" /\ started[OrderOf(t)] = 1
                           /\ OrderOf(t) \notin unbuilt
    BY DEF TransferredOnce
  <2> DEFINE o == OrderOf(t)
  <2>1. applied[t] \in {0, 1} /\ (applied[t] = 1 => txn[t].pc = "idle")
    BY DEF LinkInv, CallsMatchWork
  <2>2. ASSUME applied[t] = 1 \/ txn[t].pc = "open"
        PROVE  /\ t[2] <= 1 + resets[o]
               /\ row[o] # "absent" /\ started[o] = 1 /\ o \notin unbuilt
    <3>1. started[o] = 1 /\ o \notin unbuilt /\ t[2] <= sends[o]
      BY <2>2 DEF LinkInv, CallsMatchWork
    <3>2. o \in Orders /\ t[2] \in Nat
      BY Parts, SystemAssumption
    <3>3. row[o] # "absent"
      BY <3>1, <3>2 DEF Server!IInv, Server!AbsentIsFresh
    <3>4. sends[o] \in Nat /\ resets[o] \in Nat /\ sends[o] <= 1 + resets[o]
      BY <3>2 DEF LinkInv, SendsCounted
    <3> QED
      BY <3>1, <3>2, <3>3, <3>4
  <2> QED
    BY <2>1, <2>2
<1> QED
  BY <1>1, SystemInvariance, PTL

\* An order is canceled only if the call to the gateway failed, or if its request
\* could not be built and so moved no money; nothing that goes wrong behind the
\* gateway cancels one.
THEOREM CancelsJustified == Spec => []CanceledForCause
<1>1. LinkInv => CanceledForCause
  <2> SUFFICES ASSUME LinkInv, NEW o \in Orders, o \in unbuilt,
                      NEW t \in Transmissions, OrderOf(t) = o
               PROVE  applied[t] = 0
    BY DEF LinkInv, CancelsHaveCause, CanceledForCause
  <2> QED
    BY DEF LinkInv, CallsMatchWork
<1> QED
  BY <1>1, SystemInvariance, PTL

\* Orders never overdraw an account and never create or destroy money.
THEOREM SystemSolvent == Spec => [](Solvent /\ Books!Conservation)
<1>1. Books!IInv /\ LinkInv => Solvent
  <2> SUFFICES ASSUME Books!IInv, LinkInv PROVE Solvent
    OBVIOUS
  <2>1. \A i \in DOMAIN transferLog : transferLog[i].amount > 0 /\ transferLog[i].amount \in Int
    <3> DEFINE Entries == [from : Books!Accounts, to : Books!Accounts, amount : Int]
    <3>1. transferLog \in Seq(Entries)
      BY DEF Books!IInv, Books!TypeOK
    <3> HIDE DEF Entries
    <3>2. \A i \in DOMAIN transferLog : transferLog[i] \in Entries
      BY <3>1
    <3> QED
      BY <3>2 DEF LinkInv, OrderedAmounts, Entries
  <2> QED
    BY <2>1 DEF Books!IInv, Books!NoOverdraft, Solvent
<1> QED
  BY <1>1, SystemInvariance, ComponentInvariance, PTL

\* What was proved of the order server alone holds in the whole system: one saga
\* per order, an owner for every PENDING order, truthful events.
THEOREM SystemOrdersSafe ==
  Spec => [](Server!OneSagaPerOrder /\ Server!PendingIsOwned /\ Server!EventsTellTruth)
<1>1. Server!IInv => Server!OneSagaPerOrder /\ Server!PendingIsOwned /\ Server!EventsTellTruth
  BY DEF Server!IInv, Server!TypeOK, Server!OneAcceptor, Server!DecidedIsNotPending,
         Server!OneSagaPerOrder, Server!PendingIsOwned
<1> QED
  BY <1>1, SystemInvariance, PTL
=============================================================================
