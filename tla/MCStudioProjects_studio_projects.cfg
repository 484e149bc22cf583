SPECIFICATION MCSpec
CONSTANTS
  Sessions = {"s1", "s2"}
  Names = {"a", "b"}
  ListUsers = {"s1"}
  Files = {"a"}
  MaxOps = 3
  MaxObjects = 2
INVARIANTS CollectionShown DeploySaved
CHECK_DEADLOCK FALSE
