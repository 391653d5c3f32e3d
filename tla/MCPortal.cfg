SPECIFICATION Spec
CONSTANTS
  Panel <- ThePanels
  ScriptOf <- TheScript
  ViewOf <- TheView
  Unshown <- UnshownSlots
  MaxRuns = 3
  Outages = {{}, {"Java-Loom"}, {"Python-Brain", "Lua-Stream"}}
  MaxCycles = 2
  Socket = {s1, s2}
  Rows = 2
  MaxEvents = 3
  MaxOutages = 2
  MaxConnects = 4
  MaxToggles = 3
INVARIANTS ButtonsTellFlight LatestAnswerShown  CardsSettled OneFeed OneSocket NothingLeaks
PROPERTIES EveryRunEnds FeedRecovers
CHECK_DEADLOCK FALSE
