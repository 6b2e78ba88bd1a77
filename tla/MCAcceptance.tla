----------------------------- MODULE MCAcceptance -----------------------------
(* Small ledgers for the acceptance of transactions.                       *)
EXTENDS Acceptance, TLC

CONSTANTS a, b, c, d, e,   \* transactions
          g, oa, ob, oc, od, oe    \* outputs: one of the genesis, one of each transaction

(* A double spend in the future cone of another: a and b spend the same    *)
(* output, c and d that of a; e spends the output of c.                    *)
NestedSpends == a :> {g} @@ b :> {g} @@ c :> {oa} @@ d :> {oa} @@ e :> {oc}
NestedCreates == a :> {oa} @@ b :> {ob} @@ c :> {oc} @@ d :> {od} @@ e :> {oe}

(* a is in blocks of two epochs, c in one; d and e are in none.            *)
ConeEpochs == a :> {1, 2} @@ b :> {} @@ c :> {1} @@ d :> {} @@ e :> {}

(* Both c and d are in a block.                                            *)
NestedEpochs == a :> {1} @@ b :> {} @@ c :> {1} @@ d :> {1} @@ e :> {}
-----------------------------------------------------------------------------
(* The goroutines that accept something.                                   *)
Accepting == {h \in Goroutine : h[1] # "reject" /\ running[h].at \notin {"idle", "done"}}

(* No block votes for d: its competitor is accepted, or nothing.  All that *)
(* accepts a runs at once, and any two goroutines beside all rejections.   *)
MCSpec ==
  /\ Init
  /\ [][/\ Next
        /\ confirmationState'[d] # DAG!Accepted
        /\ Cardinality(Accepting') <= 2 \/ \A h \in Accepting' : h[2] = a]_vars
===============================================================================
