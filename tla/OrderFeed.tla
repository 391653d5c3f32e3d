----------------------------- MODULE OrderFeed ------------------------------
(***************************************************************************)
(* portal-svelte/src/routes/+page.svelte: the order event feed, a socket   *)
(* to the gateway's /ws that reconnects 3 s after every close.  The        *)
(* browser delivers the error and the close of a broken connection in one  *)
(* task.  A message reaches every connection that is open when it is       *)
(* published (WsHub); outages and messages are bounded, reconnects are not. *)
(***************************************************************************)
EXTENDS Naturals, Sequences, FiniteSets

CONSTANTS
  Socket,      \* identities of sockets, reused when closed
  Rows,        \* length of orderEvents (50 in the code)
  MaxEvents,   \* bound on the messages published
  MaxOutages   \* bound on the failures of the gateway and of single connections

ASSUME FeedAssumption == Rows \in Nat /\ MaxEvents \in Nat /\ MaxOutages \in Nat

VARIABLES
  up,           \* the gateway accepts connections
  outages,      \* failures so far
  events,       \* messages published so far; they are 1, 2, ...
  sock,         \* sock[i]: closed, connecting, open or closing
  inbox,        \* messages on their way to socket i
  wsConn,       \* the socket the page refers to, {} for null
  timers,       \* pending setTimeout(connectOrderFeed, 3000)
  wsStatus,     \* the badge
  orderEvents,  \* the rows, newest first
  onPage        \* the page is mounted

feedVars == <<up, outages, events, sock, inbox, wsConn, timers, wsStatus, orderEvents, onPage>>

Live == {i \in Socket : sock[i] # "closed"}

FeedIdle ==
  /\ up = TRUE
  /\ outages = 0
  /\ events = 0
  /\ sock = [i \in Socket |-> "closed"]
  /\ inbox = [i \in Socket |-> <<>>]
  /\ wsConn = {}
  /\ timers = 1
  /\ wsStatus = "disconnected"
  /\ orderEvents = <<>>
  /\ onPage = TRUE

\* onMount calls connectOrderFeed: FeedIdle with the call due.
FeedInit == FeedIdle

\* connectOrderFeed, from onMount or from the timer.
connectOrderFeed ==
  /\ timers > 0
  /\ timers' = timers - 1
  /\ wsStatus' = "connecting"
  /\ \E i \in Socket \ Live :
       /\ sock' = [sock EXCEPT ![i] = "connecting"]
       /\ inbox' = [inbox EXCEPT ![i] = <<>>]
       /\ wsConn' = {i}
  /\ UNCHANGED <<up, outages, events, orderEvents, onPage>>

onopen(i) ==
  /\ sock[i] = "connecting"
  /\ up
  /\ sock' = [sock EXCEPT ![i] = "open"]
  /\ wsStatus' = "connected"
  /\ UNCHANGED <<up, outages, events, inbox, wsConn, timers, orderEvents, onPage>>

\* [data, ...orderEvents].slice(0, 50)
Prepend(row) ==
  SubSeq(<<row>> \o orderEvents, 1, IF Len(orderEvents) < Rows THEN Len(orderEvents) + 1 ELSE Rows)

onmessage(i) ==
  /\ sock[i] = "open"
  /\ inbox[i] # <<>>
  /\ inbox' = [inbox EXCEPT ![i] = Tail(@)]
  /\ orderEvents' = Prepend(Head(inbox[i]))
  /\ UNCHANGED <<up, outages, events, sock, wsConn, timers, wsStatus, onPage>>

\* Mutant: onerror schedules a reconnect too.
onclose_Twice(i) ==
  /\ \/ sock[i] = "closing"
     \/ sock[i] \in {"connecting", "open"} /\ ~up
  /\ sock' = [sock EXCEPT ![i] = "closed"]
  /\ inbox' = [inbox EXCEPT ![i] = <<>>]
  /\ wsStatus' = "disconnected"
  /\ wsConn' = {}
  /\ timers' = IF sock[i] = "closing" THEN timers + 1 ELSE timers + 2
  /\ UNCHANGED <<up, outages, events, orderEvents, onPage>>

\* Mutant: no reconnect.
onclose_Once(i) ==
  /\ \/ sock[i] = "closing"
     \/ sock[i] \in {"connecting", "open"} /\ ~up
  /\ sock' = [sock EXCEPT ![i] = "closed"]
  /\ inbox' = [inbox EXCEPT ![i] = <<>>]
  /\ wsStatus' = "disconnected"
  /\ wsConn' = {}
  /\ UNCHANGED <<up, outages, events, timers, orderEvents, onPage>>

\* onerror and onclose, or onclose alone after close(): the badge ends up
\* disconnected and the next attempt is due in 3 s.
onclose(i) ==
  /\ \/ sock[i] = "closing"
     \/ sock[i] \in {"connecting", "open"} /\ ~up
  /\ sock' = [sock EXCEPT ![i] = "closed"]
  /\ inbox' = [inbox EXCEPT ![i] = <<>>]
  /\ wsStatus' = "disconnected"
  /\ wsConn' = {}
  /\ timers' = timers + 1
  /\ UNCHANGED <<up, outages, events, orderEvents, onPage>>

\* The function onMount returns: it closes the socket, and nothing else.
unmount ==
  /\ onPage
  /\ onPage' = FALSE
  /\ sock' = [i \in Socket |-> IF i \in wsConn THEN "closing" ELSE sock[i]]
  /\ UNCHANGED <<up, outages, events, inbox, wsConn, timers, wsStatus, orderEvents>>

\* An order event goes out on every open connection.
publish ==
  /\ events < MaxEvents
  /\ up
  /\ events' = events + 1
  /\ inbox' = [i \in Socket |-> IF sock[i] = "open" THEN Append(inbox[i], events + 1) ELSE inbox[i]]
  /\ UNCHANGED <<up, outages, sock, wsConn, timers, wsStatus, orderEvents, onPage>>

\* The gateway goes away: every connection breaks before it is back.
gatewayFails ==
  /\ up
  /\ outages < MaxOutages
  /\ up' = FALSE
  /\ outages' = outages + 1
  /\ UNCHANGED <<events, sock, inbox, wsConn, timers, wsStatus, orderEvents, onPage>>

\* One connection is lost while the gateway stays up: the hub evicts a slow
\* client.  Messages not yet delivered are lost with it.
evict(i) ==
  /\ up
  /\ sock[i] = "open"
  /\ outages < MaxOutages
  /\ sock' = [sock EXCEPT ![i] = "closing"]
  /\ outages' = outages + 1
  /\ UNCHANGED <<up, events, inbox, wsConn, timers, wsStatus, orderEvents, onPage>>

gatewayRestarts ==
  /\ ~up
  /\ \A i \in Socket : sock[i] # "open"
  /\ up' = TRUE
  /\ UNCHANGED <<outages, events, sock, inbox, wsConn, timers, wsStatus, orderEvents, onPage>>

feedSocket == \E i \in Socket : onopen(i) \/ onclose(i)
feedMessage == \E i \in Socket : onmessage(i)
feedEvicted == \E i \in Socket : evict(i)

FeedNext ==
  \/ connectOrderFeed \/ feedSocket \/ feedMessage
  \/ unmount \/ publish \/ feedEvicted \/ gatewayFails \/ gatewayRestarts

FeedSpec == FeedInit /\ [][FeedNext]_feedVars

-----------------------------------------------------------------------------
\* There is always exactly one connection or one attempt due, never two: so
\* no event is shown twice (the rows are keyed by timestamp, order and event,
\* and Svelte throws on a duplicate), the newest row is on top, and the badge
\* says connected only of a socket that opened.
OneFeed ==
  /\ Cardinality(Live) + timers = 1
  /\ \A k \in 1..Len(orderEvents) : \A l \in 1..(k - 1) : orderEvents[l] > orderEvents[k]
  /\ wsStatus = "connected" => \E i \in Live : sock[i] \in {"open", "closing"}

-----------------------------------------------------------------------------
(* The inductive invariant of OneFeed.                                     *)

FeedTypes ==
  /\ events \in Nat
  /\ sock \in [Socket -> {"closed", "connecting", "open", "closing"}]
  /\ inbox \in [Socket -> Seq(Nat)]
  /\ orderEvents \in Seq(Nat)

\* The connection, which the page refers to, or the timeout.
OneAttempt ==
  /\ \/ timers = 1 /\ Live = {}
     \/ timers = 0 /\ \E i \in Socket : Live = {i}
  /\ wsConn = Live
  /\ wsStatus = "connected" => \E i \in Live : sock[i] \in {"open", "closing"}

\* What a socket still has to deliver is in order and newer than every row.
NewerThanRows ==
  \A i \in Socket :
    /\ sock[i] \in {"closed", "connecting"} => inbox[i] = <<>>
    /\ \A m \in 1..Len(inbox[i]) :
         /\ inbox[i][m] <= events
         /\ \A n \in 1..(m - 1) : inbox[i][n] < inbox[i][m]
         /\ \A k \in 1..Len(orderEvents) : orderEvents[k] < inbox[i][m]

\* The rows descend and were all published.
RowsDescend ==
  \A k \in 1..Len(orderEvents) :
    /\ orderEvents[k] <= events
    /\ \A l \in 1..(k - 1) : orderEvents[l] > orderEvents[k]

FeedInv == FeedTypes /\ OneAttempt /\ NewerThanRows /\ RowsDescend
=============================================================================
