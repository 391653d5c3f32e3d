---------------------------- MODULE ElixirSocket ----------------------------
(***************************************************************************)
(* portal-svelte/src/lib/components/panels/ElixirPanel.svelte: the Phoenix *)
(* socket with its heartbeat interval and its reconnect timeout.           *)
(*                                                                         *)
(* close() only starts the closing handshake: the close event of a socket  *)
(* may come after its successor has opened, and the handlers of both share *)
(* the panel's variables.  A timer has the number of the socket whose      *)
(* handler created it; every socket creates at most one of each kind.      *)
(* Delays and the log line are left out.                                   *)
(***************************************************************************)
EXTENDS Naturals

CONSTANT MaxConnects   \* bound on the sockets the panel creates

ASSUME ElixirAssumption == MaxConnects \in Nat

VARIABLES
  hub,               \* hub[i]: none, connecting, open, closing or closed
  ws,                \* the socket the panel refers to, 0 for null
  wsConnected,       \* the badge LIVE
  liveSnapshot,      \* a snapshot is shown
  heartbeats,        \* intervals that tick
  heartbeatTimer,    \* the interval the panel refers to
  timeouts,          \* reconnects that are due
  reconnectTimer,    \* the timeout the panel refers to
  autoReconnect,
  intentionalClose,
  destroyed          \* the panel is gone

elixirVars == <<hub, ws, wsConnected, liveSnapshot, heartbeats, heartbeatTimer,
                timeouts, reconnectTimer, autoReconnect, intentionalClose, destroyed>>

Sockets == 1..MaxConnects

ElixirInit ==
  /\ hub = [i \in Sockets |-> "none"]
  /\ ws = 0
  /\ wsConnected = FALSE
  /\ liveSnapshot = FALSE
  /\ heartbeats = {}
  /\ heartbeatTimer = 0
  /\ timeouts = {}
  /\ reconnectTimer = 0
  /\ autoReconnect = FALSE
  /\ intentionalClose = FALSE
  /\ destroyed = FALSE

\* ws?.close(): no effect on a socket that is closed.
Closed == [i \in Sockets |-> IF i = ws /\ hub[i] \in {"connecting", "open"} THEN "closing" ELSE hub[i]]

\* connectWS, called when the timeouts in due are pending.
connectWS(due) ==
  \E i \in Sockets :
    /\ hub[i] = "none" /\ \A j \in 1..(i - 1) : hub[j] # "none"
    /\ timeouts' = due \ {reconnectTimer}
    /\ intentionalClose' = FALSE
    /\ hub' = [Closed EXCEPT ![i] = "connecting"]
    /\ ws' = i

\* The button is there only while disconnected and not reconnecting.
pressConnect ==
  /\ ~destroyed /\ ~wsConnected /\ ~autoReconnect
  /\ connectWS(timeouts)
  /\ UNCHANGED <<wsConnected, liveSnapshot, heartbeats, heartbeatTimer, reconnectTimer,
                 autoReconnect, destroyed>>

-----------------------------------------------------------------------------
(* Events of socket i.                                                     *)

ws_onopen(i) ==
  /\ hub[i] = "connecting"
  /\ hub' = [hub EXCEPT ![i] = "open"]
  /\ wsConnected' = TRUE
  /\ heartbeats' = heartbeats \cup {i}
  /\ heartbeatTimer' = i
  /\ UNCHANGED <<ws, liveSnapshot, timeouts, reconnectTimer, autoReconnect, intentionalClose, destroyed>>

ws_onmessage(i) ==
  /\ hub[i] = "open"
  /\ liveSnapshot' = TRUE
  /\ UNCHANGED <<hub, ws, wsConnected, heartbeats, heartbeatTimer, timeouts, reconnectTimer,
                 autoReconnect, intentionalClose, destroyed>>

\* Asked for, or the server is unreachable, closes, or times out.
ws_onclose(i) ==
  /\ hub[i] \in {"connecting", "open", "closing"}
  /\ hub' = [hub EXCEPT ![i] = "closed"]
  /\ wsConnected' = FALSE
  /\ heartbeats' = heartbeats \ {heartbeatTimer}
  /\ IF autoReconnect /\ ~intentionalClose
     THEN timeouts' = timeouts \cup {i} /\ reconnectTimer' = i    \* scheduleReconnect
     ELSE UNCHANGED <<timeouts, reconnectTimer>>
  /\ UNCHANGED <<ws, liveSnapshot, heartbeatTimer, autoReconnect, intentionalClose, destroyed>>

\* Mutant: the callback does not ask whether it is still wanted.
reconnect_Unasked(i) ==
  /\ i \in timeouts
  /\ connectWS(timeouts \ {i})
  /\ UNCHANGED <<wsConnected, liveSnapshot, heartbeats, heartbeatTimer, reconnectTimer,
                 autoReconnect, destroyed>>

\* The callback of the timeout, which may be one the panel has lost track of.
reconnect(i) ==
  /\ i \in timeouts
  /\ IF autoReconnect /\ ~intentionalClose
     THEN connectWS(timeouts \ {i})
     ELSE timeouts' = timeouts \ {i} /\ UNCHANGED <<hub, ws, intentionalClose>>
  /\ UNCHANGED <<wsConnected, liveSnapshot, heartbeats, heartbeatTimer, reconnectTimer,
                 autoReconnect, destroyed>>

-----------------------------------------------------------------------------
toggleOn ==
  /\ ~destroyed /\ ~autoReconnect
  /\ autoReconnect' = TRUE
  /\ connectWS(timeouts)
  /\ UNCHANGED <<wsConnected, liveSnapshot, heartbeats, heartbeatTimer, reconnectTimer, destroyed>>

\* The heartbeat is left to the close event.
toggleOff ==
  /\ ~destroyed /\ autoReconnect
  /\ autoReconnect' = FALSE
  /\ intentionalClose' = TRUE
  /\ timeouts' = timeouts \ {reconnectTimer}
  /\ hub' = Closed
  /\ ws' = 0
  /\ wsConnected' = FALSE
  /\ UNCHANGED <<liveSnapshot, heartbeats, heartbeatTimer, reconnectTimer, destroyed>>

toggleAutoReconnect == toggleOn \/ toggleOff

\* The button replaces the connect button while connected.
disconnectWS ==
  /\ ~destroyed /\ wsConnected
  /\ intentionalClose' = TRUE
  /\ timeouts' = timeouts \ {reconnectTimer}
  /\ hub' = Closed
  /\ ws' = 0
  /\ wsConnected' = FALSE
  /\ heartbeats' = heartbeats \ {heartbeatTimer}
  /\ UNCHANGED <<liveSnapshot, heartbeatTimer, reconnectTimer, autoReconnect, destroyed>>

\* onDestroy
destroyElixir ==
  /\ ~destroyed
  /\ destroyed' = TRUE
  /\ intentionalClose' = TRUE
  /\ timeouts' = timeouts \ {reconnectTimer}
  /\ heartbeats' = heartbeats \ {heartbeatTimer}
  /\ hub' = Closed
  /\ UNCHANGED <<ws, wsConnected, liveSnapshot, heartbeatTimer, reconnectTimer, autoReconnect>>

ElixirNext ==
  \/ pressConnect \/ toggleAutoReconnect \/ disconnectWS \/ destroyElixir
  \/ \E i \in Sockets : ws_onopen(i) \/ ws_onmessage(i) \/ ws_onclose(i) \/ reconnect(i)

ElixirSpec == ElixirInit /\ [][ElixirNext]_elixirVars

-----------------------------------------------------------------------------
Usable == {i \in Sockets : hub[i] \in {"connecting", "open"}}

\* The panel never holds a second connection, has none after it was told to
\* disconnect or was destroyed, whatever timeouts it has lost track of, and
\* says LIVE only while a socket that opened has not reported its close.
OneSocket ==
  /\ Usable \subseteq {ws}
  /\ intentionalClose => Usable = {}
  /\ destroyed => intentionalClose
  /\ wsConnected => \E i \in Sockets : hub[i] \in {"open", "closing"}

\* "30초 heartbeat (Phoenix 기본 타임아웃 60s)": while the panel's socket is
\* open some interval sends on it, so that Phoenix does not time it out.
HeartbeatWhileOpen == (ws # 0 /\ hub[ws] = "open") => heartbeats # {}
=============================================================================
