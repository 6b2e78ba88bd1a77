---------------------------- MODULE MCCausalOrder ----------------------------
(* Small DAGs for the CausalOrder: a root, and blocks in two epochs.       *)
EXTENDS CausalOrder, TLC

CONSTANTS r, a, b, c, d

(* A diamond with a tail: a and b refer to the root, c to both, d to c     *)
(* and a.                                                                  *)
DiamondParents == r :> <<>> @@ a :> <<r>> @@ b :> <<r>> @@ c :> <<a, b>> @@ d :> <<c, a>>

OneEpoch == r :> 0 @@ a :> 1 @@ b :> 1 @@ c :> 1 @@ d :> 1

(* a and b in the first epoch, c and d in the second.                      *)
TwoEpochs == r :> 0 @@ a :> 1 @@ b :> 1 @@ c :> 2 @@ d :> 2
=============================================================================
