\* Two competitors in two epochs, one of them attached twice, and one failure
\* of the storage.
CONSTANTS
  a = a b = b
  Transaction = {a, b}
  Competitors <- Pair
  AttachmentEpochs <- Reattached
  InclusionEpoch <- Second
  MinCommittableEpochAge = 1
  MaxTime = 3
  CounterSize = 16
  MaxFailures = 1
CHECK_DEADLOCK FALSE
SPECIFICATION FairSpec
INVARIANTS AddedTransactionsCommitted
PROPERTIES NoPendingConflictCommitted EventuallyCommittedUnlessDisturbed
