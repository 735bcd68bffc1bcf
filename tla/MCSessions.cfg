SPECIFICATION Spec
CONSTANTS
  None = None
  w1 = w1
  w2 = w2
  o1 = o1
  o2 = o2
  t1 = t1
  t2 = t2
  t3 = t3
  a1 = a1
  a2 = a2
  a3 = a3
  Workers = {w1, w2}
  Operators = {o1}
  Tokens = {t1, t2, t3}
  Actions = {a1, a2}
  Briefs = {b1}
  Plans = {}
  Definitions = {wf}
  Embedded = wf
  Inventories <- AnyHost
  TTLs = {1}
  VersionBound = 4
SYMMETRY Symmetry
INVARIANTS
  TypeOK
  Freshness
  ApproversSeeRun
PROPERTIES
  OwnershipKept
  ResultsAreNotStale
  ApprovalsAreNotStale
  CommandsKept
