SPECIFICATION Spec
CONSTANTS
  Tasks = {"t1", "t2"}
  Projects = {"p1", "p2"}
  ProjectOf <- MCProjectOf
  Scope <- MCScope
  Presets <- MCPresets
  None = None
  MaxRuns = 2
  MaxControllers = 2
  MaxSwitches = 7
CHECK_DEADLOCK FALSE
INVARIANTS RunIsAuthorized ResultIsAwaited
