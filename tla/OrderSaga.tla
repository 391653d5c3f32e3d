----------------------------- MODULE OrderSaga ------------------------------
(***************************************************************************)
(* loom-java/VirtualServer.java: the PostgreSQL-backed order server.       *)
(*                                                                         *)
(* Handler threads (Reqs) serve POST and PUT; every accepted POST starts a *)
(* saga thread (one per order) and a publisher thread.  A JDBC statement   *)
(* is one step; applyTransition holds the row lock of SELECT ... FOR       *)
(* UPDATE between its read and its commit.  GET endpoints and rejected     *)
(* requests (400, 404, 409, 500) leave every variable alone and are        *)
(* stuttering steps.  The JVM may crash between any two steps.             *)
(***************************************************************************)
EXTENDS Naturals, OrderStates

CONSTANTS
  Orders,      \* order ids
  Reqs,        \* HTTP handler threads
  NoReq,       \* "nobody", for the row lock
  NoOrder,     \* "nothing", for an idle handler
  MaxCrashes   \* bound on the crashes of the JVM

ASSUME SagaAssumption ==
  /\ NoReq \notin Reqs
  /\ NoOrder \notin Orders
  /\ MaxCrashes \in Nat

VARIABLES
  row,        \* row[o]: the status column of the orders table, or "absent"
  lock,       \* lock[o]: handler that holds the row lock of o
  req,        \* req[r]: local state of handler r
  saga,       \* saga[o]: local state of the saga thread of o
  publishing, \* events handed to a publisher thread
  published,  \* events delivered to the Redis channel order-events
  crashes,    \* crashes of the JVM so far
  started,    \* history: sagas ever started for o
  held        \* history: statuses the row of o has held

dbVars == <<row, lock, held>>
vars   == <<row, lock, req, saga, publishing, published, crashes, started, held>>

-----------------------------------------------------------------------------
\* The payload of publishOrderEvent; type, channel and timestamp are left out.
Event(o, prev, new, name) ==
  [order |-> o, prev |-> prev, new |-> new, event |-> name]

SagaEvents == {"SAGA_COMPLETE", "SAGA_COMPENSATE"}

Events == [order : Orders, prev : OrderStatus \cup {"absent"},
           new : OrderStatus, event : OrderEvent \cup SagaEvents \cup {"INSERT"}]

-----------------------------------------------------------------------------
Idle == [pc |-> "idle", order |-> NoOrder, prev |-> "absent", event |-> "PAY"]

NoSaga == [pc |-> "none", verdict |-> "CANCELED"]

Init ==
  /\ row = [o \in Orders |-> "absent"]
  /\ lock = [o \in Orders |-> NoReq]
  /\ req = [r \in Reqs |-> Idle]
  /\ saga = [o \in Orders |-> NoSaga]
  /\ publishing = {}
  /\ published = {}
  /\ crashes = 0
  /\ started = [o \in Orders |-> 0]
  /\ held = [o \in Orders |-> {}]

\* UPDATE orders SET status = s: the row and the history of what it held.
SetStatus(o, s) ==
  /\ row' = [row EXCEPT ![o] = s]
  /\ held' = [held EXCEPT ![o] = @ \cup {s}]

-----------------------------------------------------------------------------
(* POST /api/java/order                                                    *)

\* Mutant: ON CONFLICT DO UPDATE, so that a second POST is accepted too.
insertOrderPending_Upsert(r, o) ==
  /\ req[r].pc = "idle"
  /\ SetStatus(o, "PENDING")
  /\ req' = [req EXCEPT ![r] = [Idle EXCEPT !.pc = "accepted", !.order = o]]
  /\ UNCHANGED <<lock, saga, publishing, published, crashes, started>>

\* INSERT ... ON CONFLICT DO NOTHING; an existing id is answered with 409.
insertOrderPending(r, o) ==
  /\ req[r].pc = "idle"
  /\ row[o] = "absent"
  /\ SetStatus(o, "PENDING")
  /\ req' = [req EXCEPT ![r] = [Idle EXCEPT !.pc = "accepted", !.order = o]]
  /\ UNCHANGED <<lock, saga, publishing, published, crashes, started>>

\* Mutant: the saga thread is built but never started.
executeSaga_NotStarted(r) ==
  /\ req[r].pc = "accepted"
  /\ publishing' = publishing \cup {Event(req[r].order, "absent", "PENDING", "INSERT")}
  /\ req' = [req EXCEPT ![r] = Idle]
  /\ UNCHANGED <<row, lock, held, saga, published, crashes, started>>

\* The 202 is written, then the INSERT event gets its own thread and
\* executeSaga starts the saga thread.
executeSaga(r) ==
  LET o == req[r].order IN
  /\ req[r].pc = "accepted"
  /\ publishing' = publishing \cup {Event(o, "absent", "PENDING", "INSERT")}
  /\ saga' = [saga EXCEPT ![o] = [NoSaga EXCEPT !.pc = "remote"]]
  /\ started' = [started EXCEPT ![o] = @ + 1]
  /\ req' = [req EXCEPT ![r] = Idle]
  /\ UNCHANGED <<row, lock, held, published, crashes>>

\* respond() throws (the client is gone): the catch block answers 500 and the
\* saga is never started although the PENDING row is durable.
respondFails(r) ==
  /\ req[r].pc = "accepted"
  /\ saga' = [saga EXCEPT ![req[r].order].pc = "lost"]
  /\ req' = [req EXCEPT ![r] = Idle]
  /\ UNCHANGED <<row, lock, held, publishing, published, crashes, started>>

-----------------------------------------------------------------------------
(* PUT /api/java/order                                                     *)

\* Mutant: SELECT without FOR UPDATE.
selectForUpdate_NoWait(r, o, e) ==
  /\ req[r].pc = "idle"
  /\ row[o] # "absent"
  /\ lock' = [lock EXCEPT ![o] = r]
  /\ req' = [req EXCEPT ![r] = [pc |-> "locked", order |-> o,
                                prev |-> row[o], event |-> e]]
  /\ UNCHANGED <<row, held, saga, publishing, published, crashes, started>>

\* SELECT status ... FOR UPDATE; waits while another transaction has the row.
\* A missing row is answered with 404.
selectForUpdate(r, o, e) ==
  /\ req[r].pc = "idle"
  /\ row[o] # "absent"
  /\ lock[o] = NoReq
  /\ lock' = [lock EXCEPT ![o] = r]
  /\ req' = [req EXCEPT ![r] = [pc |-> "locked", order |-> o,
                                prev |-> row[o], event |-> e]]
  /\ UNCHANGED <<row, held, saga, publishing, published, crashes, started>>

\* Mutant: canTransitionTo is not asked.
commitTransition_Unchecked(r) ==
  /\ req[r].pc = "locked"
  /\ SetStatus(req[r].order, targetStatus(req[r].event))
  /\ lock' = [lock EXCEPT ![req[r].order] = NoReq]
  /\ req' = [req EXCEPT ![r].pc = "reread"]
  /\ UNCHANGED <<saga, publishing, published, crashes, started>>

\* The state-machine check passes: UPDATE and COMMIT.
commitTransition(r) ==
  LET o == req[r].order IN
  /\ req[r].pc = "locked"
  /\ canTransitionTo(req[r].prev, targetStatus(req[r].event))
  /\ SetStatus(o, targetStatus(req[r].event))
  /\ lock' = [lock EXCEPT ![o] = NoReq]
  /\ req' = [req EXCEPT ![r].pc = "reread"]
  /\ UNCHANGED <<saga, publishing, published, crashes, started>>

\* ROLLBACK: INVALID_TRANSITION, or a SQLException of the update or commit.
rollbackTransition(r) ==
  /\ req[r].pc = "locked"
  /\ lock' = [lock EXCEPT ![req[r].order] = NoReq]
  /\ req' = [req EXCEPT ![r] = Idle]
  /\ UNCHANGED <<row, held, saga, publishing, published, crashes, started>>

\* findOrder, the 200 answer and the publisher thread.  When findOrder or
\* respond throws, no event is published.
respondPut(r) ==
  /\ req[r].pc = "reread"
  /\ \/ publishing' = publishing \cup
            {Event(req[r].order, req[r].prev, targetStatus(req[r].event),
                   req[r].event)}
     \/ UNCHANGED publishing
  /\ req' = [req EXCEPT ![r] = Idle]
  /\ UNCHANGED <<row, lock, held, saga, published, crashes, started>>

-----------------------------------------------------------------------------
(* SagaCoordinator.runSaga                                                 *)

\* Mutant: an early return after a failed call leaves out the compensation.
SagaReply_NoCompensation(o, success) ==
  /\ saga[o].pc = "remote"
  /\ saga' = [saga EXCEPT ![o] = IF success
        THEN [pc |-> "decided", verdict |-> "COMPLETED"]
        ELSE [pc |-> "done", verdict |-> "CANCELED"]]
  /\ UNCHANGED <<row, lock, req, held, publishing, published, crashes, started>>

\* HTTP_CLIENT.send returns or throws: 2xx is success; any other status, the
\* 10 s timeout and every other exception are failure.
SagaReply(o, success) ==
  /\ saga[o].pc = "remote"
  /\ saga' = [saga EXCEPT ![o] =
        [pc |-> "decided", verdict |-> IF success THEN "COMPLETED" ELSE "CANCELED"]]
  /\ UNCHANGED <<row, lock, req, held, publishing, published, crashes, started>>

\* UPDATE ... WHERE id = ?: no test of the current status, but it queues behind
\* a transaction that holds the row lock.
updateOrderStatus(o) ==
  /\ saga[o].pc = "decided"
  /\ lock[o] = NoReq
  /\ SetStatus(o, saga[o].verdict)
  /\ saga' = [saga EXCEPT ![o].pc = "announce"]
  /\ UNCHANGED <<lock, req, publishing, published, crashes, started>>

\* Mutant: the event is published after a failed UPDATE too.
updateFails_Announces(o) ==
  /\ saga[o].pc = "decided"
  /\ saga' = [saga EXCEPT ![o].pc = "announce"]
  /\ UNCHANGED <<row, lock, req, held, publishing, published, crashes, started>>

\* The UPDATE throws SQLException: logged, not retried, nothing is published.
updateFails(o) ==
  /\ saga[o].pc = "decided"
  /\ saga' = [saga EXCEPT ![o].pc = "lost"]
  /\ UNCHANGED <<row, lock, req, held, publishing, published, crashes, started>>

\* publishOrderEvent in the saga thread; prev_status is the literal "PENDING".
\* A Redis error is swallowed.
publishSaga(o) ==
  LET name == IF saga[o].verdict = "COMPLETED" THEN "SAGA_COMPLETE"
                                               ELSE "SAGA_COMPENSATE" IN
  /\ saga[o].pc = "announce"
  /\ \/ published' = published \cup {Event(o, "PENDING", saga[o].verdict, name)}
     \/ UNCHANGED published
  /\ saga' = [saga EXCEPT ![o].pc = "done"]
  /\ UNCHANGED <<row, lock, req, held, publishing, crashes, started>>

-----------------------------------------------------------------------------
\* A publisher thread delivers its event, or loses it to a Redis error.
publishOrderEvent(e) ==
  /\ e \in publishing
  /\ publishing' = publishing \ {e}
  /\ \/ published' = published \cup {e}
     \/ UNCHANGED published
  /\ UNCHANGED <<row, lock, req, held, saga, crashes, started>>

\* The JVM dies and restarts: every thread is gone, PostgreSQL rolls back the
\* open transactions, and initSchema leaves the existing rows as they are.
\* Nothing restarts a saga.
Crash ==
  /\ crashes < MaxCrashes
  /\ crashes' = crashes + 1
  /\ req' = [r \in Reqs |-> Idle]
  /\ lock' = [o \in Orders |-> NoReq]
  /\ saga' = [o \in Orders |->
        CASE saga[o].pc \in {"remote", "decided"} -> [saga[o] EXCEPT !.pc = "lost"]
          [] saga[o].pc = "announce"              -> [saga[o] EXCEPT !.pc = "done"]
          [] saga[o].pc = "none" /\ row[o] # "absent" -> [saga[o] EXCEPT !.pc = "lost"]
          [] OTHER                                -> saga[o]]
  /\ publishing' = {}
  /\ UNCHANGED <<row, held, published, started>>

-----------------------------------------------------------------------------
PostStep(r) == executeSaga(r) \/ respondFails(r)
PutStep(r)  == commitTransition(r) \/ rollbackTransition(r) \/ respondPut(r)
SagaStep(o) == \/ \E success \in BOOLEAN : SagaReply(o, success)
               \/ updateOrderStatus(o) \/ updateFails(o) \/ publishSaga(o)

Next ==
  \/ \E r \in Reqs, o \in Orders : insertOrderPending(r, o)
  \/ \E r \in Reqs, o \in Orders, e \in OrderEvent : selectForUpdate(r, o, e)
  \/ \E r \in Reqs : PostStep(r) \/ PutStep(r)
  \/ \E o \in Orders : SagaStep(o)
  \/ \E e \in publishing : publishOrderEvent(e)
  \/ Crash

Spec == Init /\ [][Next]_vars

\* Virtual threads that can run do run; the HTTP client's timeout ends every
\* call; PostgreSQL serves the waiters of a row lock in order, so the saga's
\* UPDATE is not starved by a stream of PUTs.  Clients owe nothing.
Fairness ==
  /\ \A r \in Reqs : WF_vars(PostStep(r)) /\ WF_vars(PutStep(r))
  /\ \A o \in Orders : SF_vars(SagaStep(o))

FairSpec == Spec /\ Fairness

-----------------------------------------------------------------------------
\* Type invariant.
TypeOK ==
  /\ row \in [Orders -> OrderStatus \cup {"absent"}]
  /\ lock \in [Orders -> Reqs \cup {NoReq}]
  /\ req \in [Reqs -> [pc : {"idle", "accepted", "locked", "reread"},
                       order : Orders \cup {NoOrder},
                       prev : OrderStatus \cup {"absent"},
                       event : OrderEvent]]
  /\ \A r \in Reqs : req[r].pc # "idle" => req[r].order \in Orders
  /\ saga \in [Orders -> [pc : {"none", "remote", "decided", "announce",
                                "done", "lost"},
                          verdict : Verdicts]]
  /\ publishing \subseteq Events
  /\ published \subseteq Events
  /\ crashes \in 0..MaxCrashes
  /\ started \in [Orders -> Nat]
  /\ held \in [Orders -> SUBSET OrderStatus]

\* A handler of POST that has inserted o and not yet started its saga.
Accepting(r, o) == req[r].pc = "accepted" /\ req[r].order = o

\* Whatever duplicate POSTs, crashes and restarts do, the ledger is called for
\* an order by at most one saga: ON CONFLICT DO NOTHING lets one handler of an
\* id reach executeSaga, and no restart runs it again.
OneSagaPerOrder ==
  \A o \in Orders :
    /\ started[o] <= 1
    /\ \A r \in Reqs : Accepting(r, o) => started[o] = 0

\* An order that is still PENDING has somebody in charge of it (the handler
\* that inserted it, or a live saga), or its saga is known to be lost; a saga
\* that finished has never left its order PENDING.
PendingIsOwned ==
  \A o \in Orders : row[o] = "PENDING" =>
    \/ \E r \in Reqs : Accepting(r, o)
    \/ saga[o].pc \in {"remote", "decided", "lost"}

\* No event on order-events, delivered or about to be, names a status that the
\* row did not really hold, either as prev_status or as new_status.
EventsTellTruth ==
  \A e \in publishing \cup published :
    {e.prev, e.new} \ {"absent"} \subseteq held[e.order]

\* No status of the row is read under the lock and changed by somebody else
\* before commit: while a PUT holds the row, the status it checked is current.
CheckedStatusIsCurrent ==
  \A r \in Reqs : req[r].pc = "locked" =>
    /\ lock[req[r].order] = r
    /\ row[req[r].order] = req[r].prev

\* Unless its saga is lost, an order does not stay PENDING.
PendingResolves ==
  \A o \in Orders :
    row[o] = "PENDING" ~> (row[o] # "PENDING" \/ saga[o].pc = "lost")

\* What updateOrderStatus says of itself: it is used for PENDING -> COMPLETED
\* and PENDING -> CANCELED.
SagaUpdatesPending ==
  [][\A o \in Orders : updateOrderStatus(o) => row[o] = "PENDING"]_vars

-----------------------------------------------------------------------------
(* The inductive invariant behind the safety properties, by parts.         *)

\* Nothing exists for an order that was never inserted.
AbsentIsFresh ==
  \A o \in Orders : row[o] = "absent" =>
    /\ saga[o].pc = "none"
    /\ started[o] = 0
    /\ \A r \in Reqs : req[r].order # o

\* At most one handler is between the INSERT and executeSaga of an order, and
\* then no saga exists for it; an inserted order without a saga has one.
OneAcceptor ==
  \A o \in Orders :
    /\ \A r \in Reqs : Accepting(r, o) => saga[o].pc = "none" /\ started[o] = 0
    /\ \A r, q \in Reqs : Accepting(r, o) /\ Accepting(q, o) => r = q
    /\ saga[o].pc = "none" /\ row[o] # "absent" => \E r \in Reqs : Accepting(r, o)
    /\ started[o] <= 1

\* A saga that has updated the table never leaves the row PENDING.
DecidedIsNotPending ==
  \A o \in Orders : saga[o].pc \in {"announce", "done"} => row[o] # "PENDING"

\* The lock of a row is held by the handler whose transaction is open on it.
LockHolder ==
  /\ CheckedStatusIsCurrent
  /\ \A o \in Orders, r \in Reqs : lock[o] = r => req[r].pc = "locked" /\ req[r].order = o

\* Every status some thread may still put into an event has been in the table.
HeldStatuses ==
  /\ \A o \in Orders : row[o] # "absent" => {"PENDING", row[o]} \subseteq held[o]
  /\ \A o \in Orders : saga[o].pc = "announce" => saga[o].verdict \in held[o]
  /\ \A r \in Reqs : req[r].pc = "reread" =>
        {req[r].prev, targetStatus(req[r].event)} \subseteq held[req[r].order]

IInv == /\ TypeOK
        /\ AbsentIsFresh
        /\ OneAcceptor
        /\ DecidedIsNotPending
        /\ LockHolder
        /\ HeldStatuses
        /\ EventsTellTruth

-----------------------------------------------------------------------------
(* The table alone implements OrderLifecycle.                              *)

decisionOf(o) ==
  CASE row[o] = "absent"                  -> "none"
    [] saga[o].pc \in {"announce", "done"} -> "made"
    [] saga[o].pc = "lost"                -> "lost"
    [] OTHER                              -> "owed"

Life == INSTANCE OrderLifecycle
          WITH row <- row, decision <- [o \in Orders |-> decisionOf(o)]

\* Every change of the table is the creation of an order, an edge of the state
\* machine or the one decision of the order's saga.
ImplementsLifecycle == Life!Spec
=============================================================================
