------------------------------- MODULE Portal -------------------------------
(***************************************************************************)
(* portal-svelte: the parts of the page side by side.  The panels, the     *)
(* service cards, the order feed and the Elixir socket share no variable,  *)
(* so one of them is mounted at a time; the two halves of SystemStatus,    *)
(* its requests and its timers, do interact.                               *)
(***************************************************************************)
EXTENDS Panels, StatusBoard, OrderFeed, ElixirSocket, SystemTimers

\* There are panels, and SystemStatus has the button its interval presses.
ASSUME PortalAssumption ==
  /\ Panel # {}
  /\ "SystemStatus" \in Panel => "syncSystem" \in DOMAIN ViewOf("SystemStatus").buttons

VARIABLE mounted   \* the part that runs

vars == <<mounted, panelVars, boardVars, feedVars, elixirVars, timersVars>>

\* A panel before anything runs.
PanelIdle ==
  /\ panel = CHOOSE p \in Panel : TRUE
  /\ slot = [s \in Slots |-> Null]
  /\ flags = {} /\ acts = {} /\ runs = 0
  /\ last = [s \in Slots |-> 0]

Init ==
  /\ mounted \in {"panel", "board", "feed", "elixir"}
  /\ IF mounted = "panel" THEN PanelInit ELSE PanelIdle
  /\ IF mounted = "board" THEN BoardInit ELSE BoardIdle
  /\ FeedInit
  /\ ElixirInit
  /\ TimersInit

-----------------------------------------------------------------------------
(* SystemStatusPanel.                                                      *)

\* toggleAutoSync calls syncSystem when it turns the interval on ...
togglesAutoSync ==
  /\ toggleAutoSync
  /\ IF autoSync THEN UNCHANGED panelVars ELSE press("syncSystem")

\* ... and the interval calls it every 10 s.
ticks ==
  /\ intervals # {}
  /\ press("syncSystem")
  /\ UNCHANGED timersVars

togglesSSE ==
  /\ \/ toggleSSE \/ destroySystem
     \/ \E s \in streams : sse_onmessage(s) \/ sse_onerror(s)
  /\ UNCHANGED panelVars

systemStep == panel = "SystemStatus" /\ (togglesAutoSync \/ ticks \/ togglesSSE)

-----------------------------------------------------------------------------
(* A step of the mounted part.                                             *)

OfPanel(A) == mounted = "panel" /\ A /\ UNCHANGED <<mounted, boardVars, feedVars, elixirVars>>
OfFeed(A) ==
  mounted = "feed" /\ A /\ UNCHANGED <<mounted, panelVars, boardVars, elixirVars, timersVars>>

mountedBoard ==
  /\ mounted = "board"
  /\ BoardNext
  /\ UNCHANGED <<mounted, panelVars, feedVars, elixirVars, timersVars>>

mountedElixir ==
  /\ mounted = "elixir"
  /\ ElixirNext
  /\ UNCHANGED <<mounted, panelVars, boardVars, feedVars, timersVars>>

\* A destroyed panel has no buttons.
Next ==
  \/ OfPanel(~gone /\ presses /\ UNCHANGED timersVars)
  \/ OfPanel(answered /\ UNCHANGED timersVars)
  \/ OfPanel(systemStep)
  \/ OfFeed(FeedNext)
  \/ mountedBoard
  \/ mountedElixir

\* Every request is answered or rejected: the gateway gives a service 5 s
\* (proxyTimeout, httpClient).  A socket opens or fails, a timer fires.
\* The first conjunct is weak fairness of answered, spelled out for TLC's
\* sake: answered is enabled when some run waits, and its steps are those
\* after which a run has gone on or returned.
Fairness ==
  /\ []<>(\A a \in acts : ~Waiting(a)) \/ []<><<~(acts \subseteq acts')>>_vars
  /\ WF_vars(OfFeed(connectOrderFeed))
  /\ WF_vars(OfFeed(feedSocket))

Spec == Init /\ [][Next]_vars /\ Fairness

-----------------------------------------------------------------------------
\* Once the gateway stays up the feed is connected again for good, however
\* many attempts failed before (onclose's setTimeout).
FeedRecovers == mounted = "feed" /\ <>[]up => <>[](wsStatus = "connected")
=============================================================================
