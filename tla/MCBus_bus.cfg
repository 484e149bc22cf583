SPECIFICATION BusSpec
CONSTANTS
  Topics = {topic1, topic2}
  Filters = {filter}
  Presence = presence
  SelfState = selfState
  MaxConnects = 2
  MaxRuns = 2
  MaxOps = 3
  call1 = call1
  call2 = call2
CHECK_DEADLOCK FALSE
INVARIANTS SubscriptionsSound RetainedSound
PROPERTY PresenceSettles
