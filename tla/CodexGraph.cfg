\* Two writers, on the pool or one by one, and a reader of their work.
SPECIFICATION FairSpec
CONSTANTS
  a = a  b = b  q = q  pa = pa  pb = pb  pc = pc
  Operations = {a, b, q}
  Waves <- MCWaves
  DependsOn <- MCDependsOn
  Writers = {a, b}
  Limit <- MCLimit
  Pool = 3
  Paths = {pa, pb, pc}
  Exact <- MCExact
  Creation <- MCCreation
  Base = {pa, pc}
  MaxParallel = 2
  Pooled = {TRUE, FALSE}
  HasBeginRun = TRUE
  Usages <- MCUsages
  MaxChanges = 1
INVARIANTS
  VerifiedChangesAccounted
  LedgerClosed
  NoOverdraft
PROPERTIES
  RunFinishes
  KeepsPromise
  CancelIsSeen
