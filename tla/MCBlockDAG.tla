------------------------------ MODULE MCBlockDAG ------------------------------
(* Small tangles for the BlockDAG.                                         *)
EXTENDS BlockDAG, TLC

CONSTANTS r, a, b, c, d

(* The genesis r, a in epoch 1, b above it in epoch 2, c in epoch 3 that   *)
(* refers to both of them, and d above c.                                  *)
SpineParents == r :> <<>> @@ a :> <<r>> @@ b :> <<a>> @@ c :> <<a, b>> @@ d :> <<c>>
SpineIndex == r :> 0 @@ a :> 1 @@ b :> 2 @@ c :> 3 @@ d :> 3
===============================================================================
