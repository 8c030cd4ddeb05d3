\* Duplicate, new, deleted and foreign targets, edits at any moment, a crash.
SPECIFICATION Spec
CONSTANTS
  a1 = a1  a2 = a2  c = c  d = d  x = x  f = f  n = n  g = g  p = p
  Queue <- MCQueue
  Paths = {f, n, g, p}
  PathOf <- MCPathOf
  OpOf <- MCOpOf
  Base <- MCBase
  Exact = {a1, a2, d, x}
  Creating = {c}
  Protected = {p}
  Files <- MCFiles
  MaxEdits = 2
  MaxDecisions = 5
INVARIANTS
  FailureRestores
  
  BaseReplaced
