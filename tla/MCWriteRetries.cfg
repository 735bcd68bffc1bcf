SPECIFICATION RSpec
CONSTANTS
  None = None
  m = m
  EventType <- MCEventType
  ThreadOf <- MCThreadOf
  Threads = {t1}
  Inventories <- MCInventories
  ChangeRequests = {r1}
  Briefs = {b1}
  Plans = {p1}
  Heads = {h1}
  Events = {m}
  RetryBound = 4
INVARIANT WriteAttemptsBounded
