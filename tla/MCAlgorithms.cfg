SPECIFICATION Spec
CONSTANTS
  TicksPerDay = 144
  ReviewIntervals <- MCIntervals
  Policies <- MCPolicies
  Moments <- MCMoments
  Hours <- MCHours
  Times <- MCTimes
  Candidates <- MCCandidates
INVARIANTS
  DelayIsClippedDoubling
  WakesAtFirstWorkTime
  TextOrderIsRightToTheSecond
  AcceptedFlowsAreGuarded
CHECK_DEADLOCK FALSE
