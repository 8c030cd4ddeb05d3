\* Two builds and two runs of the pipeline, with one edit and one fault.
SPECIFICATION ReleaseSpec
CONSTANTS
  b1 = b1  b2 = b2  p1 = p1  p2 = p2
  Builders = {b1, b2}
  Publishers = {p1, p2}
  MaxCommits = 2
  MaxFileEdits = 1
  MaxFaults = 1
INVARIANTS
  
  FailedLeavesNothing
SYMMETRY Alike
CHECK_DEADLOCK FALSE
