\* Two double spends, one above the other, and a transaction in two conflict
\* sets; consensus accepts in between.
CONSTANTS
  a = a b = b c = c d = d e = e k = k h = h
  g1 = g1 g2 = g2 oa = oa oc = oc ok = ok
  EmptyTransactionID = none
  TransactionID = {a, b, c, d, e, k, h}
  OutputID = {g1, g2, oa, oc, ok}
  Inputs <- MCInputs
  Outputs <- MCOutputs
  Acceptable = {a, b, d, e, k}
CHECK_DEADLOCK FALSE
SPECIFICATION MCSpec
INVARIANTS SpendersConflict FutureConeInherits NoDoubleSpendAccepted
PROPERTIES EventuallyBooked ImplementsConflictDAG
