---------------------------- MODULE SystemTimers ----------------------------
(***************************************************************************)
(* portal-svelte/src/lib/components/panels/SystemStatusPanel.svelte: the   *)
(* auto-sync interval and the server-sent event stream of the panel.  Its  *)
(* requests are in PanelTables; Portal joins the two.                      *)
(***************************************************************************)
EXTENDS Naturals

CONSTANT MaxToggles   \* bound on the presses of the two toggles

ASSUME TimersAssumption == MaxToggles \in Nat

VARIABLES
  autoSync,          \* the toggle shows ON
  autoSyncInterval,  \* the interval the panel refers to, 0 for null
  intervals,         \* intervals that tick
  sseConnected,      \* the stream button shows a stop sign
  sseSource,         \* the stream the panel refers to, 0 for null
  streams,           \* streams that are open
  aggregateData,     \* an aggregate is shown
  toggles,           \* presses so far, and the name of what they create
  gone               \* the panel is destroyed

timersVars == <<autoSync, autoSyncInterval, intervals, sseConnected, sseSource, streams,
                aggregateData, toggles, gone>>

TimersInit ==
  /\ autoSync = FALSE /\ autoSyncInterval = 0 /\ intervals = {}
  /\ sseConnected = FALSE /\ sseSource = 0 /\ streams = {}
  /\ aggregateData = FALSE
  /\ toggles = 0
  /\ gone = FALSE

\* Mutant: the interval is forgotten, not cleared.
toggleAutoSync_Forgets ==
  /\ ~gone /\ toggles < MaxToggles
  /\ autoSync' = ~autoSync
  /\ autoSyncInterval' = IF autoSync THEN 0 ELSE toggles + 1
  /\ intervals' = IF autoSync THEN intervals ELSE intervals \cup {toggles + 1}
  /\ toggles' = toggles + 1
  /\ UNCHANGED <<sseConnected, sseSource, streams, aggregateData, gone>>

toggleAutoSync ==
  /\ ~gone /\ toggles < MaxToggles
  /\ autoSync' = ~autoSync
  /\ autoSyncInterval' = IF autoSync THEN 0 ELSE toggles + 1
  /\ intervals' = IF autoSync THEN intervals \ {autoSyncInterval} ELSE intervals \cup {toggles + 1}
  /\ toggles' = toggles + 1
  /\ UNCHANGED <<sseConnected, sseSource, streams, aggregateData, gone>>

toggleSSE ==
  /\ ~gone /\ toggles < MaxToggles
  /\ sseConnected' = ~sseConnected
  /\ sseSource' = IF sseConnected THEN 0 ELSE toggles + 1
  /\ streams' = IF sseConnected THEN streams \ {sseSource} ELSE streams \cup {toggles + 1}
  /\ toggles' = toggles + 1
  /\ UNCHANGED <<autoSync, autoSyncInterval, intervals, aggregateData, gone>>

sse_onmessage(s) ==
  /\ s \in streams
  /\ aggregateData' = TRUE
  /\ UNCHANGED <<autoSync, autoSyncInterval, intervals, sseConnected, sseSource, streams, toggles, gone>>

\* The stream fails: no reconnect, the button is back to start.
sse_onerror(s) ==
  /\ s \in streams
  /\ sseConnected' = FALSE
  /\ streams' = streams \ {sseSource}
  /\ sseSource' = 0
  /\ UNCHANGED <<autoSync, autoSyncInterval, intervals, aggregateData, toggles, gone>>

\* onDestroy
destroySystem ==
  /\ ~gone
  /\ gone' = TRUE
  /\ intervals' = intervals \ {autoSyncInterval}
  /\ streams' = streams \ {sseSource}
  /\ UNCHANGED <<autoSync, autoSyncInterval, sseConnected, sseSource, aggregateData, toggles>>

TimersNext ==
  \/ toggleAutoSync \/ toggleSSE \/ destroySystem
  \/ \E s \in streams : sse_onmessage(s) \/ sse_onerror(s)

TimersSpec == TimersInit /\ [][TimersNext]_timersVars

-----------------------------------------------------------------------------
\* After any sequence of toggles and stream errors the only interval and the
\* only stream alive are the ones the buttons show, and none outlives the
\* panel.
NothingLeaks ==
  /\ intervals = IF autoSync /\ ~gone THEN {autoSyncInterval} ELSE {}
  /\ streams = IF sseConnected /\ ~gone THEN {sseSource} ELSE {}
=============================================================================
