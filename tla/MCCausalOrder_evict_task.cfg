\* A task is overtaken by an eviction.
CONSTANTS
  r = r a = a b = b c = c d = d
  Entity = {r, a, b, c, d}
  Parents <- DiamondParents
  Index <- OneEpoch
  Roots = {r}
  Failing = {}
  QueueLimit = 1
  LastIndex = 1
CHECK_DEADLOCK FALSE
SPECIFICATION Spec
INVARIANTS CounterAlwaysFound
