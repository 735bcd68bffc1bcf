SPECIFICATION Spec
CONSTANTS
  None = None
  c1 = c1
  c2 = c2
  m = m
  x = x
  t1 = t1
  t2 = t2
  EventType <- MCEventType
  ThreadOf <- MCThreadOf
  Threads = {t1, t2}
  Inventories <- MCInventories
  ChangeRequests = {r1}
  Briefs = {b1}
  Plans = {p1}
  Heads = {h1, h2}
  Events = {c1, c2, m}
  RetryBound = 1
SYMMETRY Symmetry
INVARIANTS
  TypeOK
  Strengthening
  ActionFitsState
  SomeBriefApproved
  PublishedBeforeReview
  MergeObserved
  ThreadsAccounted
  ScheduleMirrorsWake
PROPERTIES
  TerminalIsFinal
  PublishedHeadIsGreen
  MilestonesKept
  FeedbackKept
  CommandsKept
