\* The last conflict of an epoch is accepted after the epoch became old enough.
CONSTANTS
  a = a b = b
  Transaction = {a, b}
  Competitors <- Pair
  AttachmentEpochs <- TwoEpochs
  InclusionEpoch <- Second
  MinCommittableEpochAge = 1
  MaxTime = 3
  CounterSize = 16
  MaxFailures = 0
CHECK_DEADLOCK FALSE
SPECIFICATION Spec
INVARIANTS StateDiffsApplied
