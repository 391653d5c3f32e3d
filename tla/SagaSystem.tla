----------------------------- MODULE SagaSystem -----------------------------
(***************************************************************************)
(* The order saga end to end: the order server (OrderSaga) calls the       *)
(* ledger (Ledger) through newCBProxy("clojure-stm") of the Go gateway.    *)
(*                                                                         *)
(* The gateway turns every trouble with the ledger into a 200: the breaker *)
(* is open, the connection fails, or the 5 s deadline passes.  A request   *)
(* that timed out in the gateway may still be executed by the ledger.  The *)
(* ledger itself always answers 200, also when it refused the transfer.    *)
(*                                                                         *)
(* The request is a GET, and both hops keep their connections alive: the   *)
(* HttpClient of the saga and the transport of the gateway send it again   *)
(* by themselves when the reused connection breaks before an answer, also  *)
(* if the other side has got it.  A transmission <<o, k>> is the k-th time *)
(* that the request of order o is on its way; each has a handler in the    *)
(* gateway and a thread in the ledger of its own.                          *)
(*                                                                         *)
(* The breaker is shared with every other user of /api/clojure/, so here   *)
(* it may be open or closed for any request; CircuitBreaker has its        *)
(* atomics.  Clients send no PUT here; OrderSaga has them.                 *)
(***************************************************************************)
EXTENDS Naturals, OrderStates

CONSTANTS
  Orders, Reqs, NoReq, NoOrder, MaxCrashes,   \* of OrderSaga
  Ids, Initial, MaxLog,                       \* of Ledger
  Wanted,       \* Wanted[o]: the transfer that the ledger reads from o's URL; a client
                \* may name any accounts, also ones the ledger does not have
  MaxFaults,    \* bound on the calls to the gateway that fail and the connections that
                \* break under a request
  MaxRestarts   \* bound on the restarts of the ledger

\* The POST handler refuses an amount that is not positive.
ASSUME SystemAssumption ==
  /\ MaxFaults \in Nat /\ MaxRestarts \in Nat
  /\ \A o \in Orders : Wanted[o].amount \in Nat \ {0}

VARIABLES
  row, lock, req, saga, publishing, published, crashes, started, held,  \* order server
  balance, transferLog, totalTransfers, txn, stress,                    \* ledger
  up,        \* the ledger accepts connections and answers within 5 s
  call,      \* call[<<o, k>>]: a transmission, seen from the gateway
  sends,     \* sends[o]: transmissions of o's request so far
  awaits,    \* awaits[o]: the transmission whose answer the saga gets
  faults,    \* failed calls and broken connections so far
  resets,    \* history: connections that broke under o's request while its receiver
             \* lived
  restarts,  \* restarts of the ledger so far
  applied,   \* history: transfers this run of the ledger committed for <<o, k>>
  cut,       \* history: orders whose call to the gateway failed
  unbuilt    \* history: orders whose request could not be built

\* There is one transmission more than there can be broken connections.
Transmissions == Orders \X (1..(MaxFaults + 1))
OrderOf(t) == t[1]

\* The names in the orders that the ledger does not know.
Unknown == (UNION {{Wanted[o].from, Wanted[o].to} : o \in Orders})
             \ {Ids[i] : i \in DOMAIN Ids}

Server == INSTANCE OrderSaga
Books  == INSTANCE Ledger WITH Clients <- Transmissions, Stressers <- {}, N <- 0,
            MinAmount <- 10, Strangers <- Unknown, Amounts <- {Wanted[o].amount : o \in Orders}

\* What the two components assume of their constants.
ASSUME ComponentAssumptions == Server!SagaAssumption /\ Books!LedgerAssumption

serverVars == <<row, lock, req, saga, publishing, published, crashes, started, held>>
ledgerVars == <<balance, transferLog, totalTransfers, txn, stress>>
wireVars   == <<sends, awaits, resets>>
faultVars  == <<faults, cut, unbuilt>>
linkVars   == <<up, restarts, call, applied, wireVars, faultVars>>
vars == <<serverVars, ledgerVars, linkVars>>

Init ==
  /\ Server!Init
  /\ Books!Init
  /\ up = TRUE
  /\ call = [t \in Transmissions |-> "none"]
  /\ sends = [o \in Orders |-> 1] /\ awaits = [o \in Orders |-> 1]
  /\ faults = 0 /\ restarts = 0
  /\ resets = [o \in Orders |-> 0]
  /\ applied = [t \in Transmissions |-> 0]
  /\ cut = {} /\ unbuilt = {}

Goto(t, label) == call' = [call EXCEPT ![t] = label]

\* The transmission whose answer the saga of o gets, and the one that a further
\* broken connection makes.
Awaited(o)  == <<o, awaits[o]>>
NextSend(o) == <<o, sends[o] + 1>>

-----------------------------------------------------------------------------
(* The order server.                                                       *)

\* Everything the order server does for a POST except the remote call.
serverStep ==
  /\ \/ \E r \in Reqs, o \in Orders : Server!insertOrderPending(r, o)
     \/ \E r \in Reqs : Server!PostStep(r)
     \/ \E o \in Orders : \/ Server!updateOrderStatus(o) \/ Server!updateFails(o)
                          \/ Server!publishSaga(o)
     \/ \E e \in publishing : Server!publishOrderEvent(e)
     \/ Server!Crash
  /\ UNCHANGED <<ledgerVars, linkVars>>

\* URI.create throws on the account names of the order, or header on its id or its
\* correlation id, which are the client's: the catch takes it as a failure, and
\* no request is made.
buildFails(o) ==
  /\ sends[o] = 1 /\ call[Awaited(o)] = "none"
  /\ unbuilt' = unbuilt \cup {o}
  /\ Server!SagaReply(o, FALSE)
  /\ UNCHANGED <<ledgerVars, wireVars, up, restarts, call, applied, faults, cut>>

\* Mutant: the saga reads the body of the answer as well.
sagaAnswered_ReadsBody(o) ==
  /\ call[Awaited(o)] = "replied"
  /\ Goto(Awaited(o), "over")
  /\ Server!SagaReply(o, \E t \in Transmissions : OrderOf(t) = o /\ applied[t] > 0)
  /\ UNCHANGED <<ledgerVars, wireVars, faultVars, up, restarts, applied>>

\* The saga gets its answer; it looks at the status code only, and that is 200.
sagaAnswered(o) ==
  /\ call[Awaited(o)] = "replied"
  /\ Goto(Awaited(o), "over")
  /\ Server!SagaReply(o, TRUE)
  /\ UNCHANGED <<ledgerVars, wireVars, faultVars, up, restarts, applied>>

\* The connection to the gateway cannot be made, a new one breaks, or 10 s have
\* passed: the saga takes it as a failure, whatever the gateway and the ledger
\* still do.
sagaCutOff(o) ==
  /\ faults < MaxFaults
  /\ faults' = faults + 1
  /\ cut' = cut \cup {o}
  /\ Server!SagaReply(o, FALSE)
  /\ UNCHANGED <<ledgerVars, wireVars, up, call, restarts, applied, unbuilt>>

\* A pooled connection to the gateway breaks before an answer: HttpClient sends
\* the GET again, and nobody waits for the first transmission any more.
sagaResends(o) ==
  /\ saga[o].pc = "remote"
  /\ call[Awaited(o)] # "over"
  /\ faults < MaxFaults
  /\ faults' = faults + 1
  /\ resets' = [resets EXCEPT ![o] = @ + 1]
  /\ sends' = [sends EXCEPT ![o] = @ + 1]
  /\ awaits' = [awaits EXCEPT ![o] = sends[o] + 1]
  /\ UNCHANGED <<serverVars, ledgerVars, up, restarts, call, applied, cut, unbuilt>>

-----------------------------------------------------------------------------
(* The gateway, handling the transmission t.                               *)

\* A request that is out arrives, perhaps when nobody waits for it any more, and
\* cb.Allow() lets it through, or the fallback 200 is written.
allow(t) ==
  /\ started[OrderOf(t)] = 1 /\ OrderOf(t) \notin unbuilt
  /\ t[2] <= sends[OrderOf(t)]
  /\ call[t] = "none"
  /\ Goto(t, "admitted") \/ Goto(t, "replied")
  /\ UNCHANGED <<serverVars, ledgerVars, wireVars, faultVars, up, restarts, applied>>

\* proxy.ServeHTTP sends the request on and the ledger begins transfer!.
forward(t) ==
  LET w == Wanted[OrderOf(t)] IN
  /\ call[t] = "admitted"
  /\ Books!clientTransfer(t, w.from, w.to, w.amount)
  /\ Goto(t, "sent")
  /\ UNCHANGED <<serverVars, wireVars, faultVars, up, restarts, applied>>

\* ModifyResponse: the ledger's 200 arrives in time and is passed on, after
\* RecordSuccess.
modifyResponse(t) ==
  /\ call[t] = "sent"
  /\ txn[t].pc = "idle"
  /\ up
  /\ Goto(t, "replied")
  /\ UNCHANGED <<serverVars, ledgerVars, wireVars, faultVars, up, restarts, applied>>

\* The caller is gone, has given up or has sent its request again: the context of
\* this one is cancelled.
Abandoned(t) == saga[OrderOf(t)].pc # "remote" \/ t # Awaited(OrderOf(t))

\* Mutants: the gateway tries once more, or leaves the request without an answer.
errorHandler_Retry(t) ==
  /\ \/ call[t] \in {"admitted", "sent"} /\ (~up \/ Abandoned(t))
     \/ call[t] = "broken"
  /\ Goto(t, "admitted")
  /\ UNCHANGED <<serverVars, ledgerVars, wireVars, faultVars, up, restarts, applied>>

errorHandler_NoAnswer(t) ==
  /\ \/ call[t] \in {"admitted", "sent"} /\ (~up \/ Abandoned(t))
     \/ call[t] = "broken"
  /\ Goto(t, "over")
  /\ UNCHANGED <<serverVars, ledgerVars, wireVars, faultVars, up, restarts, applied>>

\* ErrorHandler: connection refused or reset, the 5 s deadline, or a cancelled
\* context; after RecordFailure the fallback 200 is written.  What was sent
\* stays sent.
errorHandler(t) ==
  /\ \/ call[t] \in {"admitted", "sent"} /\ (~up \/ Abandoned(t))
     \/ call[t] = "broken"
  /\ Goto(t, "replied")
  /\ UNCHANGED <<serverVars, ledgerVars, wireVars, faultVars, up, restarts, applied>>

\* The connection to the ledger breaks before the answer, and the ledger works on.
\* If it was a reused one net/http sends the GET again: its handler then waits
\* for the new transmission.  If it was a new one ErrorHandler is called.
connectionReset(t) ==
  LET o == OrderOf(t) IN
  /\ call[t] = "sent"
  /\ faults < MaxFaults
  /\ faults' = faults + 1
  /\ resets' = [resets EXCEPT ![o] = @ + 1]
  /\ \/ /\ sends' = [sends EXCEPT ![o] = @ + 1]
        /\ awaits' = [awaits EXCEPT ![o] = IF @ = t[2] THEN sends[o] + 1 ELSE @]
        /\ call' = [call EXCEPT ![t] = "over", ![NextSend(o)] = "admitted"]
     \/ Goto(t, "replied") /\ UNCHANGED <<sends, awaits>>
  /\ UNCHANGED <<serverVars, ledgerVars, up, restarts, applied, cut, unbuilt>>

\* The same when the ledger died: the new process knows nothing of the request.
replay(t) ==
  /\ call[t] = "broken"
  /\ Goto(t, "admitted")
  /\ UNCHANGED <<serverVars, ledgerVars, wireVars, faultVars, up, restarts, applied>>

-----------------------------------------------------------------------------
(* The ledger.                                                             *)

\* The ledger's transactions; applied remembers for what a transfer committed.
ledgerStep(t) ==
  /\ \/ Books!commit(t) /\ applied' = [applied EXCEPT ![t] = @ + 1]
     \/ (Books!retry(t) \/ Books!refuse(t)) /\ UNCHANGED applied
  /\ UNCHANGED <<serverVars, wireVars, faultVars, up, restarts, call>>

\* The ledger becomes slow or unreachable, or recovers.
ledgerFlips ==
  /\ up' = ~up
  /\ UNCHANGED <<serverVars, ledgerVars, wireVars, faultVars, call, restarts, applied>>

\* While it is unreachable the ledger is killed and started again.
ledgerRestarts ==
  /\ ~up
  /\ restarts < MaxRestarts
  /\ restarts' = restarts + 1
  /\ Books!Restart
  /\ applied' = [t \in Transmissions |-> 0]
  /\ call' = [t \in Transmissions |-> IF call[t] = "sent" THEN "broken" ELSE call[t]]
  /\ UNCHANGED <<serverVars, wireVars, faultVars, up>>

-----------------------------------------------------------------------------
ProxyStep(t) == allow(t) \/ forward(t) \/ modifyResponse(t) \/ errorHandler(t)

Next ==
  \/ serverStep
  \/ \E o \in Orders : buildFails(o) \/ sagaAnswered(o) \/ sagaCutOff(o) \/ sagaResends(o)
  \/ \E t \in Transmissions : ProxyStep(t) \/ connectionReset(t) \/ replay(t) \/ ledgerStep(t)
  \/ ledgerFlips \/ ledgerRestarts

Spec == Init /\ [][Next]_vars

\* Whatever thread an order's saga depends on next (in the order server, the
\* gateway or the ledger) runs, and the deadlines end every call; faults,
\* resets, restarts, recoveries and requests are owed by nobody.
SagaStep(o) ==
  \/ \E t \in Transmissions : OrderOf(t) = o /\ (ProxyStep(t) \/ ledgerStep(t))
  \/ sagaAnswered(o)
  \/ serverStep /\ (Server!updateOrderStatus(o) \/ Server!updateFails(o))

Fairness ==
  /\ \A r \in Reqs : WF_vars(serverStep /\ Server!PostStep(r))
  /\ \A o \in Orders : SF_vars(SagaStep(o))

FairSpec == Spec /\ Fairness

-----------------------------------------------------------------------------
\* One transmission moves money at most once in one life of the ledger, whatever
\* deadlines pass, and there is a second transmission only if a connection broke
\* under the first: nothing in the order server, the gateway or the ledger pays an
\* order twice, only the transports do, at most once more per broken connection.
\* And money moves only for an order that is in the table, whose saga was started
\* and whose request could be built.
TransferredOnce ==
  \A t \in Transmissions :
    /\ applied[t] <= 1
    /\ applied[t] = 1 => txn[t].pc = "idle"
    /\ applied[t] = 1 \/ txn[t].pc = "open" =>
         /\ t[2] <= 1 + resets[OrderOf(t)]
         /\ row[OrderOf(t)] # "absent" /\ started[OrderOf(t)] = 1
         /\ OrderOf(t) \notin unbuilt

\* The order is canceled, or its saga is about to cancel it.
Canceling(o) ==
  \/ row[o] = "CANCELED"
  \/ saga[o].pc \in {"decided", "announce"} /\ saga[o].verdict = "CANCELED"

\* Why an order is canceled: its request could not be built, or the call to the
\* gateway failed.  An open breaker, a dead or restarted ledger, a refused transfer
\* or a request sent again never cancel it; and money has moved for a canceled
\* order only where that call failed after the request had gone out.
CanceledForCause ==
  \A o \in Orders :
    Canceling(o) => \/ o \in cut
                    \/ /\ o \in unbuilt
                       /\ \A t \in Transmissions : OrderOf(t) = o => applied[t] = 0

\* The amount test of the POST handler and the balance test of transfer! together:
\* no order overdraws an account, also when two orders compete for its money and
\* the requests of both are executed again.
Solvent == \A a \in Books!Accounts : balance[a] >= 0

\* How far a transmission and the ledger's work for it can be apart: before it
\* reaches the ledger (again) nothing was applied for it and nothing is open, it is
\* only made for a saga that was started, and the ledger works once for it.
CallsMatchWork ==
  \A t \in Transmissions :
    /\ applied[t] \in {0, 1}
    /\ txn[t].pc \in {"idle", "open"}
    /\ applied[t] = 1 => txn[t].pc = "idle"
    /\ call[t] \in {"none", "admitted", "broken"} => applied[t] = 0 /\ txn[t].pc = "idle"
    /\ call[t] # "none" => /\ started[OrderOf(t)] = 1 /\ OrderOf(t) \notin unbuilt
                           /\ t[2] <= sends[OrderOf(t)]

\* Every broken connection may have cost one transmission, and the saga awaits one
\* of those that were made.
SendsCounted ==
  \A o \in Orders :
    /\ sends[o] \in 1..(1 + resets[o]) /\ awaits[o] \in 1..sends[o]
    /\ resets[o] \in 0..faults
    /\ saga[o].pc \in {"remote", "decided", "announce"} => started[o] = 1
    /\ o \in unbuilt => started[o] = 1 /\ saga[o].pc # "remote"

\* A canceling verdict, or a row that has got one, has its cause.
CancelsHaveCause == \A o \in Orders : Canceling(o) => o \in cut \cup unbuilt

\* Every transfer at work or in the log is one some order asked for.
OrderedAmounts ==
  /\ \A t \in Transmissions : txn[t].pc = "open" => txn[t].what.amount > 0
  /\ \A i \in DOMAIN transferLog : transferLog[i].amount > 0

\* The link between the components; with Server!IInv and Books!IInv it is inductive.
LinkInv ==
  /\ call \in [Transmissions -> {"none", "admitted", "sent", "broken", "replied", "over"}]
  /\ applied \in [Transmissions -> Nat]
  /\ sends \in [Orders -> Nat] /\ awaits \in [Orders -> Nat] /\ resets \in [Orders -> Nat]
  /\ faults \in 0..MaxFaults
  /\ CallsMatchWork
  /\ SendsCounted
  /\ CancelsHaveCause
  /\ OrderedAmounts

\* A dead or slow ledger and an open breaker do not hold up an order: unless its
\* saga is lost it does not stay PENDING.
OrderResolves == Server!PendingResolves

\* What the README says of the saga: success of the ledger transfer makes the
\* order COMPLETED.  So a saga that completes an order has moved the money.
CompletedMeansTransferred ==
  \A o \in Orders : saga[o].pc = "announce" /\ saga[o].verdict = "COMPLETED" /\ restarts = 0
                      => \E t \in Transmissions : OrderOf(t) = o /\ applied[t] = 1
=============================================================================
