\* One careful user, every operation, and a process that may be killed anywhere.
SPECIFICATION Spec
CONSTANTS
  Requests = {r1}
  Clock = clock
  Ops = {"plan", "new", "resume", "start", "repair", "cancel"}
  Patient = TRUE
  Lazy = TRUE
  MaxOps = 3
  MaxRuns = 4
  MaxTickets = 4
  MaxAttempts = 1
  MaxTokens = 2
INVARIANTS
  StoppedRunIsNotRepaired
  RepairsReserved
  RecordedRunsCharged
  
