--------------------------- MODULE MCNotarization ---------------------------
(* Small histories for the Notarization.                                   *)
EXTENDS Notarization, TLC

CONSTANTS a, b

(* Two competitors, attached in two epochs and included in theirs.         *)
Pair == a :> {b} @@ b :> {a}
TwoEpochs == a :> {1} @@ b :> {2}
(* A transaction is attached again in the next epoch.                      *)
Reattached == a :> {1, 2} @@ b :> {2}
Second == a :> 1 @@ b :> 2
=============================================================================
