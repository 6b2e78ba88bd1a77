\* A double spend with a future cone, in the future cone of another.
CONSTANTS
  a = a b = b c = c d = d e = e
  g = g oa = oa ob = ob oc = oc od = od oe = oe
  Transaction = {a, b, c, d, e}
  Output = {g, oa, ob, oc, od, oe}
  Spends <- NestedSpends
  Creates <- NestedCreates
  InclusionEpochs <- ConeEpochs
CHECK_DEADLOCK FALSE
SPECIFICATION MCSpec
INVARIANTS IncludedConflictsAccepted AcceptedOnce RejectionReachesFutureCone AcceptedByThePast AcceptedIsStored
