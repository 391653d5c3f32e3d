--------------------------- MODULE OrderLifecycle ---------------------------
(***************************************************************************)
(* What loom-java promises about a row of the orders table, seen from a    *)
(* client that only reads the table: an order is created once, its saga    *)
(* gives at most one decision, and every other change of the status        *)
(* follows an edge of OrderStatus.canTransitionTo.                         *)
(*                                                                         *)
(* The decision is NOT tied to the status PENDING: updateOrderStatus is an *)
(* unconditional UPDATE, so a decision may land on any status.             *)
(***************************************************************************)
EXTENDS OrderStates

CONSTANT Orders       \* order ids a client may POST

VARIABLES
  row,       \* row[o]: the status column, or "absent" when there is no row
  decision   \* decision[o]: what has become of the saga of o

lifeVars == <<row, decision>>

Init ==
  /\ row = [o \in Orders |-> "absent"]
  /\ decision = [o \in Orders |-> "none"]

\* POST: the row appears as PENDING and a decision is owed to the client.
Create(o) ==
  /\ row[o] = "absent"
  /\ row' = [row EXCEPT ![o] = "PENDING"]
  /\ decision' = [decision EXCEPT ![o] = "owed"]

\* PUT: one edge of the state machine.
Move(o) ==
  /\ \E s \in OrderStatus : /\ canTransitionTo(row[o], s)
                            /\ row' = [row EXCEPT ![o] = s]
  /\ UNCHANGED decision

\* The saga's terminal update.
Decide(o) ==
  /\ decision[o] = "owed"
  /\ decision' = [decision EXCEPT ![o] = "made"]
  /\ \E v \in Verdicts : row' = [row EXCEPT ![o] = v]

\* The sagas of some orders die before they update the table.
Lose(S) ==
  /\ \A o \in S : decision[o] = "owed"
  /\ decision' = [o \in Orders |-> IF o \in S THEN "lost" ELSE decision[o]]
  /\ UNCHANGED row

Next == \/ \E o \in Orders : Create(o) \/ Move(o) \/ Decide(o)
        \/ \E S \in SUBSET Orders : Lose(S)

Spec == Init /\ [][Next]_lifeVars
=============================================================================
