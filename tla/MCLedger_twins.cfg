\* Two transactions that compete for two outputs.
CONSTANTS
  a = a b = b c = c d = d e = e k = k h = h
  g1 = g1 g2 = g2 oa = oa oc = oc ok = ok
  EmptyTransactionID = none
  TransactionID = {a, b}
  OutputID = {g1, g2}
  Inputs <- TwinInputs
  Outputs <- TwinOutputs
  Acceptable = {}
CHECK_DEADLOCK FALSE
SPECIFICATION Spec
INVARIANTS NoLockCycle
