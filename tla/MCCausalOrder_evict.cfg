\* Every order of arrival, evictions of two epochs, and an entity that the
\* callback may refuse.
CONSTANTS
  r = r a = a b = b c = c d = d
  Entity = {r, a, b, c, d}
  Parents <- DiamondParents
  Index <- TwoEpochs
  Roots = {r}
  Failing = {b, d}
  QueueLimit = 1
  LastIndex = 2
CHECK_DEADLOCK FALSE
SPECIFICATION FairSpec
INVARIANTS ParentsOrderedFirst CounterExact
PROPERTIES VerdictsAreFinal EventuallyOrdered
