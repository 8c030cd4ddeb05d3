\* Two overlapping requests, the worker, its automatic repair and the deadline.
SPECIFICATION FairSpec
CONSTANTS
  Requests = {r1, r2}
  Clock = clock
  Ops = {"start", "cancel", "route", "repair"}
  Patient = FALSE
  Lazy = FALSE
  MaxOps = 2
  MaxRuns = 3
  MaxTickets = 2
  MaxAttempts = 1
  MaxTokens = 2
INVARIANTS
  SingleRun
  RouteLocked
PROPERTY RepairsEnd
