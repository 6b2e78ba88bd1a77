------------------------------- MODULE UTXOView -------------------------------
(***************************************************************************)
(* The UTXO-DAG of the DAGs visualizer                                     *)
(* (plugins/dagsvisualizer/frontend/src/stores/UTXOStore.tsx, with         *)
(* graph/cytoscape.ts and components/UTXODAG.tsx).  The node announces a   *)
(* transaction with each of its attachments.  While the rendering is       *)
(* paused the store collects what to add to the graph, and what to remove  *)
(* from it, on resume.                                                     *)
(*                                                                         *)
(* As in TangleView the store is a record and a method an operator.        *)
(* Left out: the style of confirmed transactions, and the layout.          *)
(***************************************************************************)
EXTENDS Integers, SequencesExt

CONSTANTS Tx, NoTx,
          Spends,              \* the transactions whose outputs one spends
          InitialUTXOLimit     \* bound: maxUTXOVertices at first, not 500

ASSUME UTXOConstants ==
  /\ NoTx \notin Tx /\ Spends \in [Tx -> SUBSET Tx] /\ InitialUTXOLimit \in Nat

InitialUTXO ==
  [transactions |-> <<>>,     \* the keys of the map, in its order
   txOrder |-> <<>>, maxUTXOVertices |-> InitialUTXOLimit, foundTxs |-> {},
   outputs |-> {}, foundOutputs |-> {},   \* the transactions of the output maps
   selectedTx |-> NoTx, draw |-> TRUE, paused |-> FALSE,
   txToAddAfterResume |-> <<>>, txToRemoveAfterResume |-> <<>>,
   nodes |-> {}, outputNodes |-> {},      \* the graph: the transactions, their
   edges |-> {}, selectedTxs |-> {},      \* outputs, and the selected nodes
   threw |-> FALSE]

Stored(s, t) == t \in Range(s.transactions)
ThrowIn(s) == [s EXCEPT !.threw = TRUE]
UnlessThrew(s, t) == IF s.threw THEN s ELSE t

-----------------------------------------------------------------------------
(* The graph (external, cytoscape): it throws when an element is added     *)
(* twice, or an edge between elements that are not there.                  *)
DrawTransaction(s, t, outputMap) ==
  LET spent == Spends[t] \intersect outputMap
      missing == spent \ s.outputNodes
  IN  IF t \in s.nodes THEN ThrowIn(s)
      ELSE IF missing # {} THEN ThrowIn([s EXCEPT !.nodes = @ \union {t}])
      ELSE [s EXCEPT !.nodes = @ \union {t}, !.outputNodes = @ \union {t},
                     !.edges = @ \union (spent \X {t})]

DrawTx(s, t) == DrawTransaction(s, t, s.outputs)

RemoveTx(s, t) ==
  [s EXCEPT !.nodes = @ \ {t}, !.outputNodes = @ \ {t}, !.selectedTxs = @ \ {t},
            !.edges = {e \in @ : t \notin {e[1], e[2]}}]

ClearUTXO(s) ==
  [s EXCEPT !.nodes = {}, !.outputNodes = {}, !.edges = {}, !.selectedTxs = {}]

-----------------------------------------------------------------------------
(* A transaction that was announced twice is in line twice and leaves the  *)
(* store with its first turn; at its second one checkLimit throws, and the *)
(* transaction that is being added is lost.                                *)
Forget_KeepsOutputs(s, t) == [s EXCEPT !.transactions = Remove(@, t)]

Forget(s, t) == [s EXCEPT !.transactions = Remove(@, t), !.outputs = @ \ {t}]

UTXOCheckLimit(s) ==
  LET removed == Head(s.txOrder)
      shifted == [s EXCEPT !.txOrder = Tail(@)]
  IN  IF Len(s.txOrder) < s.maxUTXOVertices THEN s
      ELSE IF s.txOrder = <<>> THEN ThrowIn(s)
      ELSE IF ~Stored(s, removed) THEN ThrowIn(shifted)
      ELSE IF s.paused
           THEN [Forget(shifted, removed) EXCEPT !.txToRemoveAfterResume = Append(@, removed)]
           ELSE RemoveTx(Forget(shifted, removed), removed)

AddTransaction(s, t) ==
  LET u == UTXOCheckLimit(s)
      added == [u EXCEPT !.txOrder = Append(@, t), !.outputs = @ \union {t},
                         !.transactions = IF Stored(u, t) THEN @ ELSE Append(@, t)]
  IN  IF u.threw THEN u
      ELSE IF s.paused THEN [added EXCEPT !.txToAddAfterResume = Append(@, t)]
      ELSE IF s.draw THEN DrawTx(added, t) ELSE added

-----------------------------------------------------------------------------
(* The user.  When resumeAndSyncGraph throws, neither the lists nor paused *)
(* are reset.                                                              *)
ResumeAndSyncGraph(s) ==
  LET step(u, t) == UnlessThrew(u, IF Stored(u, t) THEN DrawTx(u, t) ELSE u)
      drawn == FoldLeft(step, s, s.txToAddAfterResume)
  IN  IF drawn.threw THEN drawn
      ELSE [FoldLeft(RemoveTx, drawn, s.txToRemoveAfterResume)
              EXCEPT !.txToAddAfterResume = <<>>, !.txToRemoveAfterResume = <<>>]

UTXOPauseResume(s) ==
  LET resumed == ResumeAndSyncGraph(s)
  IN  IF ~s.paused THEN [s EXCEPT !.paused = TRUE]
      ELSE IF resumed.threw THEN resumed ELSE [resumed EXCEPT !.paused = FALSE]

UTXOVerticesLimit(s, num) ==
  LET start == Len(s.txOrder) - num
      t == [s EXCEPT !.maxUTXOVertices = num]
  IN  IF start < 0 THEN t
      ELSE FoldLeft(LAMBDA u, x : IF Stored(u, x) THEN Forget(RemoveTx(u, x), x) ELSE u,
                    [t EXCEPT !.txOrder = SubSeq(@, start + 1, Len(@))],
                    SubSeq(s.txOrder, 1, start))

(* The graph reports every node that becomes selected or unselected.       *)
UpdateSelectedTx(s, t) ==
  IF Stored(s, t) \/ t \in s.foundTxs THEN [s EXCEPT !.selectedTx = t] ELSE s

ClearSelectedTx(s, removePreSelectedNode) ==
  [s EXCEPT !.selectedTx = NoTx,
            !.selectedTxs = IF removePreSelectedNode THEN @ \ {s.selectedTx} ELSE @]

SelectTx(s, t) ==
  LET u == ClearSelectedTx(s, TRUE)
  IN  UpdateSelectedTx([u EXCEPT !.selectedTxs =
                          IF t \in u.nodes THEN @ \union {t} ELSE @], t)

(* A click on a node selects it alone, one beside the nodes unselects all. *)
ClickTx(s, t) ==
  LET alone == IF s.selectedTxs \ {t} = {} THEN s ELSE ClearSelectedTx(s, FALSE)
      u == [alone EXCEPT !.selectedTxs = {t}]
  IN  IF t \in s.selectedTxs THEN u ELSE UpdateSelectedTx(u, t)

ClickBesideTx(s) ==
  IF s.selectedTxs = {} THEN s
  ELSE [ClearSelectedTx(s, FALSE) EXCEPT !.selectedTxs = {}]

-----------------------------------------------------------------------------
(* A search.                                                               *)
AddFoundTx(s, t) ==
  LET found == [s EXCEPT !.foundTxs = @ \union {t}, !.foundOutputs = @ \union {t}]
  IN  DrawTransaction(found, t, found.foundOutputs)

ClearFoundTxs(s) == [s EXCEPT !.foundTxs = {}, !.foundOutputs = {}]

DrawExistedTxs(s) ==
  FoldLeft(LAMBDA u, t : UnlessThrew(u, DrawTx(u, t)), s, s.transactions)
===============================================================================
