---------------------------- MODULE MCConflictDAG ----------------------------
(* ConflictDAG with model values for TLC: the identifiers are              *)
(* interchangeable, the two kinds of them are not.  forked remembers       *)
(* whether the ledger has rearranged the DAG: some promises last that long. *)
EXTENDS ConflictDAG, TLC

VARIABLE forked

Symmetry == Permutations(ConflictID) \union Permutations(ResourceID)

MCInit == Init /\ forked = FALSE

MCNext ==
  \/ UnforkedNext /\ UNCHANGED forked
  \/ (ForkParents \/ ForkResources) /\ forked' = TRUE

MCSpec == MCInit /\ [][MCNext]_<<vars, forked>>

(* Decisions that are still consistent: until the first fork an Accepted   *)
(* conflict has only Accepted ancestors, a Rejected one only Rejected      *)
(* descendants and an Accepted one only Rejected competitors, also when    *)
(* they are created (CreateConflict) after the decision was taken.         *)
DecidedUntilForked ==
  ~forked => AcceptedPastCone /\ RejectedFutureCone /\ ConflictSetsSettled
==============================================================================
