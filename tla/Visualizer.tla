------------------------------ MODULE Visualizer ------------------------------
(***************************************************************************)
(* The tangle visualizer of the node dashboard                             *)
(* (plugins/dashboard/frontend/src/app/stores/VisualizerStore.ts and       *)
(* components/Visualizer.tsx).  The node sends a vertex for every attached *)
(* and every accepted block and a tip info for every change of the tips;   *)
(* the store also fetches the history of vertices once, and the answer     *)
(* arrives among the live messages.  It keeps the last verticesLimit       *)
(* vertices and mirrors them in a graph while the page is shown.           *)
(*                                                                         *)
(* The store is a record and a handler an operator from stores to stores.  *)
(* An exception ends the handler where it is thrown (the field threw) and  *)
(* keeps what was assigned before.                                         *)
(***************************************************************************)
EXTENDS Integers, FiniteSets, SequencesExt

CONSTANTS Vertex,
          NoVertex,
          Parents,         \* the parents of a block
          Limits,          \* the values the user gives verticesLimit
          InitialLimit,
          TipBlock,        \* bound: the blocks that become tips
          MaxTipChanges    \* bound: changes of the tips

ASSUME VisualizerConstants ==
  /\ NoVertex \notin Vertex
  /\ Parents \in [Vertex -> SUBSET Vertex]
  /\ TipBlock \subseteq Vertex /\ Limits \subseteq Nat
  /\ InitialLimit \in Nat /\ MaxTipChanges \in Nat

VARIABLES
  viz,         \* the VisualizerStore
  broken,      \* history: an exception left a handler of a message
  blkHistory,  \* the node: the blocks it attached, in order,
  blkFinalized,\* those of them that are accepted,
  tips,        \* the blocks that are tips
  tipChanges, missed,  \* history: changes of the tips, and whether one was
                       \* not delivered
  response     \* the answer with the history on its way

tangleVars == <<blkHistory, blkFinalized, tips, tipChanges, missed>>
visualizerVars == <<viz, broken, blkHistory, blkFinalized, tips, tipChanges,
                    missed, response>>

InitialStore ==
  [vertices |-> <<>>,              \* vertices, by id
   verticesIncomingOrder |-> <<>>, verticesLimit |-> InitialLimit,
   finalized_count |-> 0, tips_count |-> 0,
   draw |-> FALSE, selected |-> NoVertex, selected_via_click |-> FALSE,
   nodes |-> {}, links |-> {},     \* graph
   linked |-> {},                  \* the nodes whose links are an array, not null
   threw |-> FALSE]

Has(s, v) == v \in DOMAIN s.vertices
Without(f, v) == Restrict(f, DOMAIN f \ {v})
Put(f, v, vert) == [u \in DOMAIN f \union {v} |-> IF u = v THEN vert ELSE f[u]]
Throw(s) == [s EXCEPT !.threw = TRUE]
Bit(b) == IF b THEN 1 ELSE 0

RemoveNode(s, v) ==
  [s EXCEPT !.nodes = @ \ {v}, !.linked = @ \ {v},
            !.links = {l \in @ : v \notin {l[1], l[2]}}]

(* clearSelected.  The callback of resetLinks has no this and throws at    *)
(* the first link; the depth-first walk throws at a node that never had    *)
(* a link.                                                                 *)
ResetLinks(s) == IF s.links = {} THEN s ELSE Throw(s)

ClearSelected(s, force) ==
  IF s.selected = NoVertex \/ (s.selected_via_click /\ ~force) THEN s
  ELSE IF s.selected \notin s.nodes THEN ResetLinks(s)
  ELSE IF s.selected \notin s.linked THEN Throw(s)
  ELSE [s EXCEPT !.selected = NoVertex, !.selected_via_click = FALSE]

UpdateSelected(s, v, viaClick) ==
  IF s.threw THEN s
  ELSE [s EXCEPT !.selected = v, !.selected_via_click = viaClick,
                 !.threw = v \notin s.nodes]    \* no UI of the node

(* The counters lose what a deleted vertex counted for.                    *)
Uncount_IgnoresTips(s, vert) ==
  [s EXCEPT !.finalized_count = @ - Bit(vert.is_finalized)]

Uncount(s, vert) ==
  [s EXCEPT !.finalized_count = @ - Bit(vert.is_finalized),
            !.tips_count = @ - Bit(vert.is_tip)]

Undraw(s, v) == IF s.draw THEN RemoveNode(s, v) ELSE s

DeleteParentLink(s, p) ==
  LET cleared == IF s.selected = p THEN ClearSelected(s, FALSE) ELSE s
  IN  IF s.threw THEN s
      ELSE IF ~Has(s, p) THEN Undraw(s, p)
      ELSE IF cleared.threw THEN cleared
      ELSE Undraw([Uncount(cleared, s.vertices[p])
                     EXCEPT !.vertices = Without(@, p)], p)

(* One turn of the loop of checkLimit.                                     *)
EvictFirst(s) ==
  LET deleteId == Head(s.verticesIncomingOrder)
      shifted == [s EXCEPT !.verticesIncomingOrder = Tail(@)]
      cleared == IF s.selected = deleteId THEN ClearSelected(shifted, FALSE)
                                          ELSE shifted
      deleted == Undraw([cleared EXCEPT !.vertices = Without(@, deleteId)], deleteId)
  IN  IF s.threw THEN s
      ELSE IF cleared.threw THEN cleared
      ELSE IF ~Has(s, deleteId) THEN deleted
      ELSE FoldFunction(LAMBDA p, t : DeleteParentLink(t, p),
                        Uncount(deleted, s.vertices[deleteId]),
                        [p \in s.vertices[deleteId].parents |-> p])

CheckLimit(s) ==
  FoldFunction(LAMBDA i, t : EvictFirst(t), s,
               [i \in 1..(Len(s.verticesIncomingOrder) - s.verticesLimit) |-> i])

(* drawVertex links a vertex to those of its parents that are drawn.       *)
DrawVertex_LinksAll(s, v) ==
  LET nodes == s.nodes \union {v}
      parents == s.vertices[v].parents
  IN  [s EXCEPT !.nodes = nodes, !.links = @ \union (parents \X {v}),
                !.linked = @ \union parents
                           \union IF parents = {} THEN {} ELSE {v}]

DrawVertex(s, v) ==
  LET nodes == s.nodes \union {v}
      parents == s.vertices[v].parents \intersect nodes
  IN  [s EXCEPT !.nodes = nodes,
                !.links = @ \union (parents \X {v}),
                !.linked = @ \union parents
                           \union IF parents = {} THEN {} ELSE {v}]

(* The end of addVertex and addTipInfo.                                    *)
SetVertex(s, v, vert) ==
  LET set == [s EXCEPT !.vertices = Put(@, v, vert)]
  IN  IF s.threw THEN s ELSE IF s.draw THEN DrawVertex(set, v) ELSE set

Incoming(s, v) ==
  CheckLimit([s EXCEPT !.verticesIncomingOrder = Append(@, v)])

AddVertex(s, v, is_finalized) ==
  IF Has(s, v)
  THEN LET existing == s.vertices[v]
       IN  SetVertex([s EXCEPT !.finalized_count =
                        @ + Bit(is_finalized /\ ~existing.is_finalized)],
                     v, [existing EXCEPT !.parents = Parents[v],
                           !.is_finalized = @ \/ is_finalized])
  ELSE SetVertex(Incoming([s EXCEPT !.finalized_count = @ + Bit(is_finalized)], v),
                 v, [parents |-> Parents[v], is_finalized |-> is_finalized,
                     is_tip |-> FALSE])

(* A vertex only known from a tip info has no parents yet.                 *)
AddTipInfo(s, v, is_tip) ==
  LET new == [parents |-> {}, is_finalized |-> FALSE, is_tip |-> FALSE]
      vert == IF Has(s, v) THEN s.vertices[v] ELSE new
      t == IF Has(s, v) THEN s ELSE Incoming(s, v)
  IN  IF t.threw THEN t
      ELSE SetVertex([t EXCEPT !.tips_count =
                        @ + IF is_tip THEN 1 ELSE -Bit(vert.is_tip)],
                     v, [vert EXCEPT !.is_tip = is_tip])

(* A handler ran: its exception is logged, and remembered if it interrupted*)
(* the handling of a message.                                              *)
Handled(s) == viz' = [s EXCEPT !.threw = FALSE]

-----------------------------------------------------------------------------
VisualizerInit ==
  /\ viz = InitialStore
  /\ broken = FALSE
  /\ blkHistory = <<>> /\ blkFinalized = {}
  /\ tips = {} /\ tipChanges = 0 /\ missed = FALSE
  /\ response = <<"asked">>

Deliver(s) == Handled(s) /\ broken' = (broken \/ s.threw)

(* A vertex reaches the store unless the socket is not open, or another    *)
(* client took it: broadcastWsBlock returns after the first one.           *)
SendVertex(s) == Deliver(s) \/ UNCHANGED <<viz, broken>>

(* The node attaches a block, and accepts one.                             *)
Attached(v) ==
  /\ v \notin Range(blkHistory)
  /\ blkHistory' = Append(blkHistory, v)
  /\ SendVertex(AddVertex(viz, v, FALSE))
  /\ UNCHANGED <<blkFinalized, tips, tipChanges, missed, response>>

Accepted(v) ==
  /\ v \in Range(blkHistory) \ blkFinalized
  /\ blkFinalized' = blkFinalized \union {v}
  /\ SendVertex(AddVertex(viz, v, TRUE))
  /\ UNCHANGED <<blkHistory, tips, tipChanges, missed, response>>

ToggleTip(v) ==
  /\ v \in Range(blkHistory) /\ tipChanges < MaxTipChanges
  /\ tips' = IF v \in tips THEN tips \ {v} ELSE tips \union {v}
  /\ tipChanges' = tipChanges + 1
  /\ UNCHANGED <<blkHistory, blkFinalized, response>>

TipChanged(v) ==
  /\ ToggleTip(v)
  /\ Deliver(AddTipInfo(viz, v, v \notin tips))
  /\ UNCHANGED missed

(* As a vertex is lost, and also when the queue of the workers is full.    *)
TipInfoLost(v) ==
  /\ ToggleTip(v)
  /\ missed' = TRUE
  /\ UNCHANGED <<viz, broken>>

(* The node answers the request for the history, and the answer arrives.   *)
ServeHistory ==
  /\ response = <<"asked">>
  /\ response' = <<"answer", [i \in DOMAIN blkHistory |->
                     <<blkHistory[i], blkHistory[i] \in blkFinalized>>]>>
  /\ UNCHANGED <<viz, broken, tangleVars>>

FetchHistory ==
  /\ response[1] = "answer"
  /\ Deliver(FoldLeft(LAMBDA s, e : IF s.threw THEN s ELSE AddVertex(s, e[1], e[2]),
                      viz, response[2]))
  /\ response' = <<"done">>
  /\ UNCHANGED tangleVars

ByUser == UNCHANGED <<broken, response, tangleVars>>

(* The page is mounted: start, and left: stop.  The vertices are drawn in  *)
(* the order the map has them, which the model leaves open.                *)
Start ==
  /\ ~viz.draw
  /\ \E order \in Injection(1..Cardinality(DOMAIN viz.vertices), DOMAIN viz.vertices) :
       Handled(FoldLeft(DrawVertex,
                        [viz EXCEPT !.draw = TRUE, !.nodes = {}, !.links = {},
                                    !.linked = {}], order))
  /\ ByUser

Stop ==
  /\ viz.draw
  /\ Handled([viz EXCEPT !.draw = FALSE, !.nodes = {}, !.links = {},
                         !.linked = {}, !.selected = NoVertex])
  /\ ByUser

UpdateVerticesLimit(num) ==
  /\ viz.draw
  /\ Handled([viz EXCEPT !.verticesLimit = num])
  /\ ByUser

MouseEnter(v) ==
  /\ v \in viz.nodes
  /\ Handled(UpdateSelected(ClearSelected(viz, TRUE), v, FALSE))
  /\ ByUser

MouseLeave ==
  /\ viz.draw
  /\ Handled(ClearSelected(viz, FALSE))
  /\ ByUser

Click(v) ==
  /\ v \in viz.nodes
  /\ Handled(UpdateSelected(ClearSelected(viz, TRUE), v, TRUE))
  /\ ByUser

SearchAndHighlight(v) ==
  /\ viz.draw
  /\ Has(viz, v)
  /\ Handled(UpdateSelected(ClearSelected(viz, FALSE), v, FALSE))
  /\ ByUser

VisualizerNext ==
  \/ \E v \in Vertex : Attached(v) \/ Accepted(v)
  \/ \E v \in TipBlock : TipChanged(v) \/ TipInfoLost(v)
  \/ ServeHistory \/ FetchHistory
  \/ Start \/ Stop
  \/ \E num \in Limits : UpdateVerticesLimit(num)
  \/ \E v \in Vertex : MouseEnter(v) \/ Click(v) \/ SearchAndHighlight(v)
  \/ MouseLeave

-----------------------------------------------------------------------------
(* The numbers of finalized vertices and of tips above the graph are those *)
(* of the vertices, and every vertex is in line to be evicted, through     *)
(* duplicates, parents that leave the map and not the line, vertices that  *)
(* come back and the history that arrives late - unless an exception       *)
(* interrupted a handler, or (the tips) a change of a tip was lost.        *)
VerticesAccountedFor ==
  ~broken =>
    /\ viz.finalized_count =
         Cardinality({v \in DOMAIN viz.vertices : viz.vertices[v].is_finalized})
    /\ ~missed => viz.tips_count =
         Cardinality({v \in DOMAIN viz.vertices : viz.vertices[v].is_tip})
    /\ DOMAIN viz.vertices \subseteq Range(viz.verticesIncomingOrder)

(* While the page is shown the graph has a node for each vertex and only   *)
(* links from parents to children, whatever was thrown in between.         *)
GraphMirrorsVertices ==
  viz.draw =>
    /\ viz.nodes = DOMAIN viz.vertices
    /\ \A l \in viz.links : {l[1], l[2]} \subseteq viz.nodes
                            /\ l[1] \in Parents[l[2]]
===============================================================================
