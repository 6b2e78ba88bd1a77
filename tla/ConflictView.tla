----------------------------- MODULE ConflictView -----------------------------
(***************************************************************************)
(* The conflict DAG of the DAGs visualizer                                 *)
(* (plugins/dagsvisualizer/frontend/src/stores/ConflictStore.tsx, with     *)
(* drawConflict of graph/cytoscape.ts and components/ConflictDAG.tsx).  A  *)
(* conflict is drawn with an edge from each of its parents; a parent that  *)
(* is not known is fetched from the node, with its history, and the        *)
(* drawing goes on when the answer is there, whatever has happened to the  *)
(* graph by then.  A search replaces the conflicts and gives them back.    *)
(*                                                                         *)
(* As in TangleView the store is a record and a method an operator.        *)
(* Left out: the style of confirmed conflicts, their weights, the layout.  *)
(***************************************************************************)
EXTENDS Integers, SequencesExt

CONSTANTS Conflict, NoConflict, Master,
          InitialConflictLimit   \* bound: maxConflictVertices at first, not 500

ASSUME ConflictConstants ==
  /\ {NoConflict, Master} \intersect Conflict = {} /\ NoConflict # Master
  /\ InitialConflictLimit \in Nat

OnlyMaster == [c \in {Master} |-> {}]
InitialConflicts ==
  [conflicts |-> OnlyMaster,             \* by id, the parents
   conflictsBeforeSearching |-> {},      \* {}: undefined, else {the map}
   conflictOrder |-> <<>>, maxConflictVertices |-> InitialConflictLimit,
   foundConflicts |-> {}, selectedConflict |-> NoConflict,
   highlightedConflicts |-> {{}},        \* {the ids}, or {}: null
   draw |-> TRUE, paused |-> FALSE,
   conflictToAddAfterResume |-> <<>>, conflictToRemoveAfterResume |-> <<>>,
   nodes |-> {Master}, edges |-> {},     \* the graph
   selectedNodes |-> {},
   waiting |-> {},                       \* drawings that await a fetch
   threw |-> FALSE]

KnownConflict(s, c) == c \in DOMAIN s.conflicts
Mapped(f, c, parents) == [d \in DOMAIN f \union {c} |-> IF d = c THEN parents ELSE f[d]]

-----------------------------------------------------------------------------
(* drawConflict: its first steps up to the first parent that is not known, *)
(* and the rest once that parent was fetched.  A drawing of found          *)
(* conflicts (render) goes on with the ones found after this one.          *)
Drawing(c, parent, rest, render, found) ==
  [conflict |-> c, parent |-> parent, rest |-> rest, render |-> render,
   found |-> found]

LinkParents(s, c, parents, render, found) ==
  LET unknown == {i \in DOMAIN parents : ~KnownConflict(s, parents[i])}
      first == Min(unknown \union {Len(parents) + 1})
      linked == {parents[i] : i \in 1..(first - 1)}
  IN  [s EXCEPT !.edges = @ \union (linked \X {c}),
                !.waiting = IF unknown = {} THEN @
                            ELSE @ \union {Drawing(c, parents[first],
                              SubSeq(parents, first + 1, Len(parents)), render, found)}]

DrawSingleConflict(s, c, parents) ==
  [s EXCEPT !.nodes = @ \union {c}, !.conflicts = Mapped(@, c, parents)]

DrawConflict(s, c, parents) ==
  LinkParents(DrawSingleConflict(s, c, parents), c, SetToSeq(parents), FALSE, <<>>)

(* The answer: a conflict with its ancestors, and their parents.           *)
DrawConflictsUpToMaster(s, history) ==
  LET drawn == FoldSet(LAMBDA c, t : DrawSingleConflict(t, c, history[c]),
                       s, DOMAIN history)
  IN  [drawn EXCEPT !.edges = @ \union
         UNION {(history[c] \intersect DOMAIN history) \X {c} : c \in DOMAIN history}]

(* The edge throws when the conflict has left the graph in the meantime.   *)
Fetched(s, drawing, history) ==
  LET t == DrawConflictsUpToMaster([s EXCEPT !.waiting = @ \ {drawing}], history)
      linked == [t EXCEPT !.edges = @ \union {<<drawing.parent, drawing.conflict>>}]
  IN  IF drawing.conflict \notin t.nodes THEN [t EXCEPT !.threw = TRUE]
      ELSE LinkParents(linked, drawing.conflict, drawing.rest, drawing.render,
                       drawing.found)

(* The found conflicts - a sequence of ids with parents - are drawn one    *)
(* after the other, each awaited; done tells whether all of them were.     *)
Suspends(s, parents) == \E i \in DOMAIN parents : ~KnownConflict(s, parents[i])

RenderConflicts(s, found) ==
  LET draw(acc, i) ==
        LET c == found[i][1]
            parents == SetToSeq(found[i][2])
            t == DrawSingleConflict(
                   [acc.store EXCEPT !.foundConflicts = @ \union {c}], c, found[i][2])
        IN  IF ~acc.done THEN acc
            ELSE [store |-> LinkParents(t, c, parents, TRUE,
                                        SubSeq(found, i + 1, Len(found))),
                  done  |-> ~Suspends(t, parents)]
  IN  FoldLeft(draw, [store |-> s, done |-> TRUE], [i \in DOMAIN found |-> i])

-----------------------------------------------------------------------------
RemoveConflict_KeepsMap(s, c) ==
  [s EXCEPT !.nodes = @ \ {c}, !.edges = {e \in @ : c \notin {e[1], e[2]}},
            !.selectedNodes = @ \ {c}]

RemoveConflict(s, c) ==
  [s EXCEPT !.conflicts = Restrict(@, DOMAIN @ \ {c}), !.nodes = @ \ {c},
            !.edges = {e \in @ : c \notin {e[1], e[2]}}, !.selectedNodes = @ \ {c}]

ConflictCheckLimit(s) ==
  LET removed == Head(s.conflictOrder)
      shifted == [s EXCEPT !.conflictOrder = Tail(@)]
  IN  IF Len(s.conflictOrder) < s.maxConflictVertices \/ s.conflictOrder = <<>> THEN s
      ELSE IF s.paused
           THEN [shifted EXCEPT !.conflictToRemoveAfterResume = Append(@, removed)]
           ELSE RemoveConflict(shifted, removed)

(* Pausing does not keep a conflict from being drawn.                      *)
AddConflict(s, c, parents) ==
  LET t == ConflictCheckLimit(s)
      added == [t EXCEPT !.conflictOrder = Append(@, c),
                         !.conflictToAddAfterResume = IF s.paused THEN Append(@, c) ELSE @]
  IN  IF s.draw THEN DrawConflict(added, c, parents) ELSE added

UpdateParents(s, c, parents) ==
  IF KnownConflict(s, c) THEN DrawConflict(s, c, parents) ELSE s

ConflictResume(s) ==
  LET added == FoldLeft(LAMBDA t, c : IF KnownConflict(t, c)
                                      THEN DrawConflict(t, c, t.conflicts[c]) ELSE t,
                        s, s.conflictToAddAfterResume)
  IN  [FoldLeft(RemoveConflict, added, s.conflictToRemoveAfterResume)
         EXCEPT !.conflictToAddAfterResume = <<>>, !.conflictToRemoveAfterResume = <<>>]

ConflictPauseResume(s) ==
  IF s.paused THEN [ConflictResume(s) EXCEPT !.paused = FALSE]
  ELSE [s EXCEPT !.paused = TRUE]

ConflictVerticesLimit(s, num) ==
  LET start == Len(s.conflictOrder) - num
      t == [s EXCEPT !.maxConflictVertices = num]
  IN  IF start < 0 THEN t
      ELSE FoldLeft(RemoveConflict,
                    [t EXCEPT !.conflictOrder = SubSeq(@, start + 1, Len(@))],
                    SubSeq(s.conflictOrder, 1, start))

-----------------------------------------------------------------------------
(* The conflicts before a search are kept until they are drawn again.      *)
ClearConflicts(s) ==
  [s EXCEPT !.conflictsBeforeSearching = IF @ = {} THEN {s.conflicts} ELSE @,
            !.conflicts = OnlyMaster, !.nodes = {Master}, !.edges = {},
            !.selectedNodes = {}]

DrawExistedConflicts(s, order) ==
  LET before == CHOOSE f \in s.conflictsBeforeSearching : TRUE
  IN  [ConflictResume(FoldLeft(LAMBDA t, c : DrawConflict(t, c, before[c]), s, order))
         EXCEPT !.conflictsBeforeSearching = {}]

-----------------------------------------------------------------------------
(* The user.  The graph reports every node that becomes selected or        *)
(* unselected, by a click or by the store.                                 *)
UpdateSelectedConflict(s, c) ==
  IF KnownConflict(s, c) \/ c \in s.foundConflicts
  THEN [s EXCEPT !.selectedConflict = c] ELSE s

ClearSelectedConflict(s, removePreSelectedNode) ==
  [s EXCEPT !.selectedConflict = NoConflict,
            !.selectedNodes = IF removePreSelectedNode THEN @ \ {s.selectedConflict} ELSE @]

SelectNode(s, c) ==
  IF c \in s.nodes \ s.selectedNodes
  THEN UpdateSelectedConflict([s EXCEPT !.selectedNodes = @ \union {c}], c) ELSE s

ClickConflict(s, c) ==
  LET alone == IF s.selectedNodes \ {c} = {} THEN s ELSE ClearSelectedConflict(s, FALSE)
  IN  SelectNode([alone EXCEPT !.selectedNodes = @ \intersect {c}], c)

SelectConflict(s, c) ==
  LET t == UpdateSelectedConflict(SelectNode(ClearSelectedConflict(s, TRUE), c), c)
  IN  IF t.selectedConflict = NoConflict THEN [t EXCEPT !.threw = TRUE] ELSE t

(* The list of highlighted conflicts becomes null with that of a block     *)
(* that is not booked, and throws from then on.                            *)
ClearHighlightedConflicts(s) ==
  LET ids == UNION s.highlightedConflicts
  IN  IF s.highlightedConflicts = {} THEN [s EXCEPT !.threw = TRUE]
      ELSE IF ids \intersect s.selectedNodes = {} THEN s
      ELSE [ClearSelectedConflict(s, FALSE) EXCEPT !.selectedNodes = @ \ ids]

HighlightConflicts(s, ids) ==      \* {the ids}, or {}: null
  LET t == ClearHighlightedConflicts(s)
      set == [t EXCEPT !.highlightedConflicts = ids]
  IN  IF t.threw THEN t
      ELSE IF ids = {} THEN [set EXCEPT !.threw = TRUE]
      ELSE FoldLeft(SelectNode, set, SetToSeq(UNION ids))
===============================================================================
