\* Three routes for a node, every end of a provider, cancellation at any time; a copy that
\* lacks what its checks need, with one change at any time.
SPECIFICATION MCSpec
CONSTANTS
  n = n  p = p  q = q
  Nodes = {n}
  Routes = 3
  MaxAttempts = 3
  FreshLimit = 3
  Paths = {p, q}
  Amounts = {1, 2}
  MaxTokens = 4
  first = first  second = second  unread = unread  test = test  lint = lint
  Contracts = {first, second, unread}
  Checks = {test, lint}
  ChecksOf <- MCChecksOf
  Rounds = 3
  MaxEdits = 1
INVARIANTS
  
  PassIsEarned
  AgentCanBeVerified
PROPERTIES
  CancelEnds
  EvidenceIsCurrent
  VerificationEnds
CHECK_DEADLOCK FALSE
