\* Every plan shape on one site, and every ticket content on some sites; or two tickets
\* and a memory of two failures.
SPECIFICATION MCSpec
CONSTANTS
  index = index  api = api  schema = schema  style = style  env = env  blob = blob
  home = home  entry = entry  notes = notes  prices = prices  late = late
  File <- MCFile
  Sensitive = {env}
  DataModel = {schema}
  Binary = {blob}
  Below = {index, api, schema, style, env, blob, home, entry, prices}
  Editable <- MCEditable
  Pattern <- MCPattern
  Fits <- MCFits
  Target <- MCTarget
  Feed = prices
  Cases <- MCCases
  Scorings <- MCScorings
  WriterFiles = 3
  ReaderFiles = 4
  one = one  another = another  owners = owners  before = before  edited = edited
  broken = broken  offline = offline  again = again  NoTicket = NoTicket
  Tickets = {one, another}
  TargetOf <- MCTargetOf
  Snapshots = {before, edited}
  Causes = {broken, offline, again}
  External = {offline}
  Failing = {broken}
  Repeat = again
  MaxRows = 2
  Listed = 1
  Covered = 2
  MaxCycles = 1
  MaxObserved = 3
SYMMETRY Symmetry
INVARIANTS
  WritersApart
  OffLimits
  ChangesHaveAWriter
  
PROPERTY
  RepeatIsRefused
CHECK_DEADLOCK FALSE
