\* Every operation, forks included.
CONSTANTS
  ConflictID = {c1, c2, c3, c4}
  ResourceID = {r1, r2}
SPECIFICATION MCSpec
SYMMETRY Symmetry
INVARIANTS TypeOK ReferencesMirrored Acyclic AtMostOneAccepted DecidedUntilForked
PROPERTIES AcceptanceSettles RejectionReachesChildren
