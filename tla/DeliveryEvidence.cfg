SPECIFICATION Spec
CONSTANTS
  Tickets = {t1}
  Requests = {r1}
  Files = {"f1", "f2"}
  Contents = {"a", "b"}
  Absent = "absent"
  Baseline <- MCBaseline
  NoTicket = NoTicket
  MaxRuns = 1
  MaxDecisions = 2
  Incidents = {"fault"}
  MaxIncidents = 1
CHECK_DEADLOCK FALSE
INVARIANT OnlyVerifiedIsDelivered
