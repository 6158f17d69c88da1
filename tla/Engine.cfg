SPECIFICATION Spec
CONSTANTS
  Initial = {"both", "cert"}
  MaxJobs = 3
  MaxUpgrades = 1
  MaxEdits = 1
INVARIANTS ObservedIsTrue SessionIsOwn GuardsHold
PROPERTY EngineSticky
CHECK_DEADLOCK FALSE
