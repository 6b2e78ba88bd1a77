------------------------------ MODULE TangleView ------------------------------
(***************************************************************************)
(* The tangle of the DAGs visualizer                                       *)
(* (plugins/dagsvisualizer/frontend/src/stores/TangleStore.tsx, with       *)
(* graph/vivagraph.ts and components/TangleDAG.tsx): the blocks the node   *)
(* announced last, and a graph that shows them, or those a search found.   *)
(* While the rendering is paused the graph stays as it is and is brought   *)
(* up to date on resume.                                                   *)
(*                                                                         *)
(* The store is a record and a method an operator from stores to stores;   *)
(* one that throws keeps what it assigned before.  Left out: colours,      *)
(* markers, the kinds of references and the position of the view.          *)
(***************************************************************************)
EXTENDS Integers, SequencesExt

CONSTANTS Block, NoBlock,
          BlockParents,          \* the blocks a block references
          InitialTangleLimit     \* bound: maxTangleVertices at first, not 500

ASSUME TangleConstants ==
  /\ NoBlock \notin Block
  /\ BlockParents \in [Block -> SUBSET Block]
  /\ InitialTangleLimit \in Nat

InitialTangle ==
  [blocks |-> <<>>,               \* by id: still a tip, and booked;
   blkKeys |-> <<>>,              \* its keys, in the order of the map
   blkOrder |-> <<>>, maxTangleVertices |-> InitialTangleLimit,
   foundBlks |-> {}, selectedBlk |-> NoBlock,
   selectedBooked |-> FALSE,      \* the selected object has its conflictIDs
   highlightedBlks |-> {}, draw |-> TRUE, paused |-> FALSE,
   lastBlkAddedBeforePause |-> NoBlock,
   nodes |-> <<>>,                \* graph: by node the object it holds, which
                                  \* is that of blocks once it was "stored" there
   links |-> {}, marked |-> {},   \* marked: drawn as selected
   threw |-> FALSE]

Announced == [isTip |-> TRUE, booked |-> FALSE]
Extended(f, x, value) == [y \in DOMAIN f \union {x} |-> IF y = x THEN value ELSE f[y]]
Raise(s) == [s EXCEPT !.threw = TRUE]

-----------------------------------------------------------------------------
(* The graph.                                                              *)
EraseBlock(s, b) ==
  [s EXCEPT !.nodes = Restrict(@, DOMAIN @ \ {b}), !.marked = @ \ {b},
            !.links = {l \in @ : b \notin {l[1], l[2]}}]

(* The vertex is drawn as selected, with its cones, and as it was before.  *)
Mark(s, blks) == [s EXCEPT !.marked = @ \union (blks \intersect DOMAIN s.nodes)]
Unmark(s, blks) == [s EXCEPT !.marked = @ \ blks]

ClearTangle(s) == [s EXCEPT !.nodes = <<>>, !.marked = {}, !.links = {}]

(* A node keeps the object it was drawn with first; the parents in the     *)
(* store are no tips any more, those in the graph are linked.              *)
DrawBlock(s, b, object) ==
  LET nodes == IF b \in DOMAIN s.nodes THEN s.nodes ELSE Extended(s.nodes, b, object)
  IN  [s EXCEPT !.nodes = nodes,
                !.blocks = [p \in DOMAIN @ |->
                  IF p \in BlockParents[b] THEN [@[p] EXCEPT !.isTip = FALSE] ELSE @[p]],
                !.links = @ \union ((BlockParents[b] \intersect DOMAIN nodes) \X {b})]

UpdateNodeData(s, b) ==
  IF b \in DOMAIN s.nodes THEN [s EXCEPT !.nodes[b] = "stored"] ELSE s

DrawExistedBlks(s) ==
  FoldLeft(LAMBDA t, b : DrawBlock(t, b, "stored"), s, s.blkKeys)

(* reloadAfterShortPause and updateGraph                                   *)
ReloadAfterShortPause_KeepsEvicted(s) ==
  FoldSet(LAMBDA b, t : UpdateNodeData(t, b), s, DOMAIN s.nodes)

ReloadAfterShortPause(s) ==
  LET gone == DOMAIN s.nodes \ DOMAIN s.blocks
      erased == FoldSet(LAMBDA b, t : EraseBlock(t, b), s, gone)
  IN  FoldSet(LAMBDA b, t : UpdateNodeData(t, b), erased, DOMAIN erased.nodes)

UpdateGraph(s, newBlkToAdd) ==
  FoldLeft(LAMBDA t, b : IF b \in DOMAIN t.blocks THEN DrawBlock(t, b, "stored") ELSE t,
           s, newBlkToAdd)

SvgRendererOnResume(s) ==
  LET idx == SelectInSeq(s.blkOrder, LAMBDA b : b = s.lastBlkAddedBeforePause)
  IN  IF s.lastBlkAddedBeforePause \notin DOMAIN s.blocks
      THEN DrawExistedBlks(ClearTangle(s))
      ELSE UpdateGraph(ReloadAfterShortPause(s),
                       SubSeq(s.blkOrder, idx, Len(s.blkOrder)))

-----------------------------------------------------------------------------
(* The messages.                                                           *)
RemoveBlock(s, b) ==
  LET erased == IF s.paused THEN s ELSE EraseBlock(s, b)
  IN  IF b \notin DOMAIN s.blocks THEN s
      ELSE [erased EXCEPT !.blocks = Restrict(@, DOMAIN @ \ {b}),
                          !.blkKeys = Remove(@, b)]

TangleCheckLimit(s) ==
  IF Len(s.blkOrder) < s.maxTangleVertices \/ s.blkOrder = <<>> THEN s
  ELSE RemoveBlock([s EXCEPT !.blkOrder = Tail(@)], Head(s.blkOrder))

AddBlock(s, b) ==
  LET t == TangleCheckLimit(s)
      added == [t EXCEPT !.blkOrder = Append(@, b),
                         !.blocks = Extended(@, b, Announced),
                         !.blkKeys = IF b \in DOMAIN t.blocks THEN @ ELSE Append(@, b)]
  IN  IF s.draw /\ ~s.paused THEN DrawBlock(added, b, "announced") ELSE added

(* setBlockConflict, and the two messages of a confirmation.               *)
Updated(s, b) == IF s.draw /\ ~s.paused THEN UpdateNodeData(s, b) ELSE s

SetBlockConflict(s, b) ==
  IF b \notin DOMAIN s.blocks THEN s
  ELSE Updated([s EXCEPT !.blocks[b].booked = TRUE,
                         !.selectedBooked = @ \/ (s.selectedBlk = b
                            /\ b \in DOMAIN s.nodes /\ s.nodes[b] = "stored")], b)

SetBlockConfirmed(s, b) == IF b \notin DOMAIN s.blocks THEN s ELSE Updated(s, b)

-----------------------------------------------------------------------------
(* The user.                                                               *)
TanglePauseResume(s) ==
  IF s.paused THEN SvgRendererOnResume([s EXCEPT !.paused = FALSE])
  ELSE [s EXCEPT !.paused = TRUE,
                 !.lastBlkAddedBeforePause =
                    IF s.blkOrder = <<>> THEN NoBlock ELSE Last(s.blkOrder)]

TangleVerticesLimit(s, num) ==
  LET start == Len(s.blkOrder) - num
      t == [s EXCEPT !.maxTangleVertices = num]
  IN  IF start < 0 THEN t
      ELSE FoldLeft(RemoveBlock,
                    [t EXCEPT !.blkOrder = SubSeq(@, start + 1, Len(@))],
                    SubSeq(s.blkOrder, 1, start))

ClearSelectedBlk(s) ==
  [Unmark(s, {s.selectedBlk}) EXCEPT !.selectedBlk = NoBlock]

ClearHighlightedBlks(s) ==
  [Unmark(s, s.highlightedBlks) EXCEPT !.highlightedBlks = {}]

(* Without a node there is no data to select.                              *)
SelectBlk(s, b) ==
  LET t == ClearHighlightedBlks(ClearSelectedBlk(s))
  IN  IF b \notin DOMAIN s.nodes THEN Raise(t)
      ELSE [Mark(t, {b}) EXCEPT !.selectedBlk = b,
                     !.selectedBooked = /\ s.nodes[b] = "stored" /\ b \in DOMAIN s.blocks
                                        /\ s.blocks[b].booked]

HighlightBlks(s, blks) ==
  [Mark(ClearHighlightedBlks(s), blks) EXCEPT !.highlightedBlks = blks]

AddFoundBlk(s, b) ==
  DrawBlock([s EXCEPT !.foundBlks = @ \union {b}], b, "found")
===============================================================================
