SPECIFICATION BusSpec
CONSTANTS
  Topics = {topic}
  Filters = {filter}
  Presence = presence
  SelfState = selfState
  MaxConnects = 2
  MaxRuns = 1
  MaxOps = 1
  call1 = call1
  call2 = call2
CHECK_DEADLOCK FALSE
INVARIANT RepublishedAfterDisconnection
