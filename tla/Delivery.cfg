SPECIFICATION Spec
CONSTANTS
  Tickets = {t1, t2}
  Requests = {r1}
  Files = {"f1", "f2"}
  Contents = {"a", "b"}
  Absent = "absent"
  Baseline <- MCBaseline
  NoTicket = NoTicket
  MaxRuns = 2
  MaxDecisions = 2
  Incidents = {"resume", "edit", "fault", "stop"}
  MaxIncidents = 1
SYMMETRY TicketsAlike
CONSTRAINT Undamaged
CHECK_DEADLOCK FALSE
INVARIANTS  HeadIsAccepted
 
