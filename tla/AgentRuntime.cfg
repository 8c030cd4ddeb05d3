SPECIFICATION Spec
CONSTANTS
  Tasks = {1, 2, 3, 4, 5, 6}
  DependsOn <- MCDependsOn
  Agents = {"a1", "a2", "a3"}
  Capable <- MCCapable
  Preferred <- MCPreferred
  Capacity <- MCCapacity
  MaxAttempts <- MCMaxAttempts
  Adapters = {"a1", "a2"}
  MaxWorkers = 2
  None = None
CHECK_DEADLOCK FALSE
PROPERTIES KeepsPromise RunFinishes
