SPECIFICATION Spec
CONSTANTS
  Panel <- ThePanels
  ScriptOf <- TheScript
  ViewOf <- TheView
  Unshown <- UnshownSlots
  MaxRuns = 0
  Outages = {{}}
  MaxCycles = 1
  Socket = {s1}
  Rows = 1
  MaxEvents = 0
  MaxOutages = 0
  MaxConnects = 2
  MaxToggles = 0
INVARIANT HeartbeatWhileOpen
CHECK_DEADLOCK FALSE
