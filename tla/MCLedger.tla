------------------------------ MODULE MCLedger ------------------------------
(***************************************************************************)
(* Small sets of transactions for the ledger.                              *)
(***************************************************************************)
EXTENDS Ledger, TLC

CONSTANTS a, b, c, d, e, k, h,      \* transactions
          g1, g2, oa, oc, ok       \* outputs: two of the genesis, one each of a, c, k

(* Two double spends, one in the future cone of the other: a and b spend   *)
(* g1; c spends the output of a; d spends the output of c and g2, as does  *)
(* e.  Whatever is forked, its future cone holds something to update.      *)
Nested == {a, b, c, d, e}

(* One transaction that competes with two others for different outputs and *)
(* has a future cone: k spends g1 and g2, b spends g1, e spends g2, and h  *)
(* spends the output of k.                                                 *)
TwoSets == {b, e, k, h}

MCInputs == a :> <<g1>> @@ b :> <<g1>> @@ c :> <<oa>> @@ d :> <<oc, g2>> @@ e :> <<g2>>
            @@ k :> <<g1, g2>> @@ h :> <<ok>>
MCOutputs == [t \in TransactionID |->
                CASE t = a -> {oa} [] t = c -> {oc} [] t = k -> {ok} [] OTHER -> {}]

(* Two transactions that spend the same two outputs.                       *)
TwinInputs == a :> <<g1, g2>> @@ b :> <<g1, g2>>
TwinOutputs == a :> {} @@ b :> {}

-----------------------------------------------------------------------------
(* What arrives is of one of the two shapes.                               *)
MCNext == Next /\ (stored' \subseteq Nested \/ stored' \subseteq TwoSets)

MCSpec ==
  /\ Init
  /\ [][MCNext]_vars
  /\ \A t \in TransactionID : WF_vars(Process(t)) /\ WF_vars(EventLoop(t))
=============================================================================
