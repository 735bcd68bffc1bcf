SPECIFICATION CalmSpec
CONSTANTS
  None = None
  w1 = w1
  w2 = w2
  o1 = o1
  o2 = o2
  t1 = t1
  t2 = t2
  t3 = t3
  a1 = a1
  a2 = a2
  a3 = a3
  Workers = {w1}
  Operators = {o1, o2}
  Tokens = {t1}
  Actions = {a1}
  Briefs = {b1}
  Plans = {}
  Definitions = {wf}
  Embedded = wf
  Inventories <- FullHost
  TTLs = {1}
  VersionBound = 5
SYMMETRY Symmetry
PROPERTY EndedForGood
