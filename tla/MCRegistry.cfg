SPECIFICATION Spec
CONSTANTS
  None = None
  Clients = {c1, c2}
  Items = {i1, p1}
  Proposals = {p1}
  Trusted = {i1}
  Repositories = {x, y}
  Runs = {r1, r2}
  VersionBound = 3
SYMMETRY Symmetry
INVARIANTS TypeOK OneActiveRun ApprovedOnce OpenedIsIndexed OldFileIsSaved
