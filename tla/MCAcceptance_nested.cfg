\* A double spend in the future cone of another.
CONSTANTS
  a = a b = b c = c d = d e = e
  g = g oa = oa ob = ob oc = oc od = od oe = oe
  Transaction = {a, b, c, d, e}
  Output = {g, oa, ob, oc, od, oe}
  Spends <- NestedSpends
  Creates <- NestedCreates
  InclusionEpochs <- NestedEpochs
CHECK_DEADLOCK FALSE
SPECIFICATION Spec
INVARIANTS OnlyAcceptedTransactions
