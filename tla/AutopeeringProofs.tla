--------------------------- MODULE AutopeeringProofs ---------------------------
(***************************************************************************)
(* Theorems about the autopeering visualizer, for any networks and nodes,  *)
(* any events of the server, a client that connects at any moment among    *)
(* them, and anything its user does.                                       *)
(*                                                                         *)
(* The argument.  Of the store alone, every handler keeps StoreOK: the     *)
(* neighbors are those of the connections, a version is known as long as   *)
(* it has nodes, the graph has the nodes of the selected network, a link   *)
(* is drawn with its nodes, and a colour of mana needs the colouring on.   *)
(*                                                                         *)
(* Of the feed, each network is followed on its own.  Its events that are  *)
(* still to come lead from a map r[1] the server had of it to the one it   *)
(* has by now.  The store is not that first map: it was replayed a later   *)
(* one, with which the events then disagree.  But about a node or link     *)
(* that no event to come changes it is right, and when none is to come     *)
(* that is all of them.  For this to be inductive the events the store     *)
(* refuses must not matter: a connection of a node it does not know        *)
(* (LosesNodesInOrder), the end of a link that the graph does not have     *)
(* (DrawsLinks).  Of a network of which an event overtook another nothing  *)
(* of the kind is claimed: the store itself stays in order (StoreOK), and  *)
(* what it has of the other networks is not disturbed (Apart).             *)
(***************************************************************************)
EXTENDS Autopeering, SequenceTheorems, NaturalsInduction, WellFoundedInduction, TLAPS

(* The store is a record.  Its data are the networks; a choice of one of   *)
(* them, and the graph, with the colours of its nodes, come besides.       *)
Network == Version \union {0}
Fields == {"versions", "selected", "userSelected", "nodes", "connections", "neighbors",
           "selectedNode", "selectionActive", "neighborsOf", "manaColoringActive",
           "nodeManaColors", "graphics", "graph", "links", "color"}

SameData(s, t) ==
  /\ DOMAIN t = Fields
  /\ t.versions = s.versions /\ t.nodes = s.nodes
  /\ t.connections = s.connections /\ t.neighbors = s.neighbors

SameChoice(s, t) == t.selected = s.selected /\ t.userSelected = s.userSelected

SameGraph(s, t) ==
  /\ t.graph = s.graph /\ t.graphics = s.graphics
  /\ t.links = s.links /\ DOMAIN t.color = DOMAIN s.color

SameColoring(s, t) ==
  t.manaColoringActive = s.manaColoringActive /\ t.nodeManaColors = s.nodeManaColors

(* What a selection, or a timer, may do: colours change, and the one of    *)
(* the mana is only given while the colouring is on.                       *)
Recolored(s, t) ==
  /\ SameData(s, t) /\ SameChoice(s, t) /\ SameGraph(s, t) /\ SameColoring(s, t)
  /\ \A n \in DOMAIN t.color : t.color[n] = "mana" =>
       s.color[n] = "mana" \/ (s.manaColoringActive /\ n \in s.nodeManaColors)

(* What start does: the graph shows the selected network.                  *)
Started(s, t) ==
  /\ SameData(s, t) /\ SameChoice(s, t) /\ SameColoring(s, t)
  /\ t.graph = TRUE /\ t.graphics = TRUE
  /\ DOMAIN t.links = Links(s.neighbors[s.selected])
  /\ \A l \in DOMAIN t.links : t.links[l] \in Nat \ {0}
  /\ s.nodes[s.selected] \subseteq DOMAIN t.color
  /\ \A l \in DOMAIN t.links : {l[1], l[2]} \subseteq DOMAIN t.color
  /\ \A n \in DOMAIN t.color : t.color[n] = "mana" =>
       s.manaColoringActive /\ n \in s.nodeManaColors

-----------------------------------------------------------------------------
(* Selection and colours.                                                  *)
LEMMA RecoloredAgain ==
  ASSUME NEW s, NEW t, NEW u, Recolored(s, t), Recolored(t, u)
  PROVE  Recolored(s, u)
  BY DEF Recolored, SameData, SameChoice, SameGraph, SameColoring

LEMMA UpdateRecolors ==
  ASSUME NEW s, DOMAIN s = Fields
  PROVE  Recolored(s, UpdateNodeColoring(s))
  BY DEF Fields, UpdateNodeColoring, Recolored, SameData, SameChoice, SameGraph, SameColoring

LEMMA ResetRecolors ==
  ASSUME NEW s, DOMAIN s = Fields
  PROVE  Recolored(s, ResetPreviousColors(s))
  <1> DEFINE sel == SelectedNeighbors(s)
             highlighted == {s.selectedNode} \union sel.in \union sel.out
             previous == [n \in DOMAIN s.color |->
                            IF n \in highlighted
                            THEN IF s.manaColoringActive /\ n \in s.nodeManaColors
                                 THEN "mana" ELSE "default"
                            ELSE s.color[n]]
             t == [s EXCEPT !.color = previous]
  <1>1. \/ ResetPreviousColors(s) = s
        \/ ResetPreviousColors(s) = UpdateNodeColoring(t)
    BY DEF ResetPreviousColors
  <1>2. /\ DOMAIN previous = DOMAIN s.color
        /\ \A n \in DOMAIN previous : previous[n] = "mana" =>
             s.color[n] = "mana" \/ (s.manaColoringActive /\ n \in s.nodeManaColors)
    OBVIOUS
  <1> HIDE DEF previous
  <1>3. Recolored(s, t) /\ DOMAIN t = Fields
    BY <1>2 DEF Fields, Recolored, SameData, SameChoice, SameGraph, SameColoring
  <1>4. Recolored(s, s)
    BY DEF Recolored, SameData, SameChoice, SameGraph, SameColoring
  <1> QED
    BY <1>1, <1>3, <1>4, UpdateRecolors, RecoloredAgain

LEMMA HighlightRecolors ==
  ASSUME NEW s, DOMAIN s = Fields
  PROVE  Recolored(s, ShowHighlight(s))
  <1> DEFINE sel == SelectedNeighbors(s)
             shown == [n \in DOMAIN s.color |->
                         CASE n \in sel.out -> "out"
                           [] n \in sel.in \ sel.out -> "in"
                           [] n = s.selectedNode /\ n \notin sel.in \union sel.out -> "active"
                           [] OTHER -> s.color[n]]
             t == [s EXCEPT !.color = shown]
  <1>1. ShowHighlight(s) = s \/ ShowHighlight(s) = t
    BY DEF ShowHighlight
  <1>2. /\ DOMAIN shown = DOMAIN s.color
        /\ \A n \in DOMAIN shown : shown[n] = "mana" => s.color[n] = "mana"
    OBVIOUS
  <1> HIDE DEF shown
  <1>3. Recolored(s, t) /\ Recolored(s, s)
    BY <1>2 DEF Fields, Recolored, SameData, SameChoice, SameGraph, SameColoring
  <1> QED
    BY <1>1, <1>3

LEMMA ClearRecolors ==
  ASSUME NEW s, DOMAIN s = Fields, NEW resetPrevColors \in BOOLEAN
  PROVE  Recolored(s, ClearNodeSelection(s, resetPrevColors))
  <1> DEFINE t == IF resetPrevColors THEN ResetPreviousColors(s) ELSE s
             u == [t EXCEPT !.selectedNode = NoPeer, !.neighborsOf = NoPeer,
                            !.selectionActive = FALSE]
  <1>1. Recolored(s, t)
    BY ResetRecolors DEF Recolored, SameData, SameChoice, SameGraph, SameColoring
  <1> HIDE DEF t
  <1>2. Recolored(t, u)
    BY <1>1 DEF Fields, Recolored, SameData, SameChoice, SameGraph, SameColoring
  <1> QED
    BY <1>1, <1>2, RecoloredAgain DEF ClearNodeSelection, t

LEMMA SelectRecolors ==
  ASSUME NEW s, DOMAIN s = Fields, NEW n
  PROVE  Recolored(s, HandleNodeSelection(s, n))
  <1>1. CASE s.selectionActive /\ s.selectedNode = n
    BY <1>1, ClearRecolors DEF HandleNodeSelection
  <1>2. CASE ~(s.selectionActive /\ s.selectedNode = n)
    <2> DEFINE r == ResetPreviousColors(s)
               t == [r EXCEPT !.selectedNode = n]
               known == DOMAIN r.neighbors[r.selected]
               u == [t EXCEPT !.neighborsOf = IF n \in known THEN n ELSE NoPeer,
                              !.selectionActive = TRUE]
    <2>1. Recolored(s, r) /\ DOMAIN r = Fields
      BY ResetRecolors DEF Recolored, SameData
    <2>2. HandleNodeSelection(s, n) = t \/ HandleNodeSelection(s, n) = ShowHighlight(u)
      BY <1>2 DEF HandleNodeSelection, UpdateSelectedNode
    <2> HIDE DEF r, known
    <2>3. Recolored(r, t) /\ Recolored(r, u) /\ DOMAIN u = Fields
      BY <2>1 DEF Fields, Recolored, SameData, SameChoice, SameGraph, SameColoring
    <2> HIDE DEF t, u
    <2> QED
      BY <2>1, <2>2, <2>3, HighlightRecolors, RecoloredAgain
  <1> QED
    BY <1>1, <1>2

-----------------------------------------------------------------------------
(* The graph.                                                              *)
LEMMA StartStarts ==
  ASSUME NEW s, DOMAIN s = Fields
  PROVE  Started(s, StartGraph(s))
  <1> DEFINE e == [s EXCEPT !.graph = TRUE, !.graphics = TRUE, !.links = EmptyBag, !.color = <<>>]
             nodes == s.nodes[s.selected]
             links == Links(s.neighbors[s.selected])
             ends == UNION {{l[1], l[2]} : l \in links}
             d == DrawNodes(e, nodes)
             f == DrawNodes(d, ends)
             g == [f EXCEPT !.links = @ (+) SetToBag(links)]
  <1>1. /\ SameData(s, e) /\ SameChoice(s, e) /\ SameColoring(s, e)
        /\ e.graph = TRUE /\ e.graphics = TRUE /\ DOMAIN e.links = {} /\ DOMAIN e.color = {}
    BY DEF Fields, SameData, SameChoice, SameColoring, EmptyBag, SetToBag
  <1>2. StartGraph(s) = UpdateNodeColoring(g)
    BY <1>1 DEF StartGraph, InitialDrawGraph, AddLinks, SameData, SameChoice
  <1> HIDE DEF e, nodes, links
  <1>3. /\ SameData(s, d) /\ SameChoice(s, d) /\ SameColoring(s, d)
        /\ d.graph = TRUE /\ d.graphics = TRUE /\ DOMAIN d.links = {} /\ DOMAIN d.color = nodes
        /\ \A n \in DOMAIN d.color : d.color[n] = "default"
    BY <1>1 DEF DrawNodes, Fields, SameData, SameChoice, SameColoring
  <1> HIDE DEF d, ends
  <1>4. /\ SameData(s, f) /\ SameChoice(s, f) /\ SameColoring(s, f)
        /\ f.graph = TRUE /\ f.graphics = TRUE /\ DOMAIN f.links = {}
        /\ DOMAIN f.color = nodes \union ends
        /\ \A n \in DOMAIN f.color : f.color[n] = "default"
    BY <1>3 DEF DrawNodes, Fields, SameData, SameChoice, SameColoring
  <1> HIDE DEF f
  <1>5. /\ DOMAIN (f.links (+) SetToBag(links)) = links
        /\ \A l \in links : (f.links (+) SetToBag(links))[l] \in Nat \ {0}
    BY <1>4 DEF (+), SetToBag
  <1>6. /\ SameData(s, g) /\ SameChoice(s, g) /\ SameColoring(s, g)
        /\ g.graph = TRUE /\ g.graphics = TRUE /\ g.links = f.links (+) SetToBag(links)
        /\ g.color = f.color
    BY <1>4 DEF Fields, SameData, SameChoice, SameColoring
  <1> HIDE DEF g
  <1>7. Recolored(g, UpdateNodeColoring(g))
    BY <1>6, UpdateRecolors DEF SameData
  <1> DEFINE t == StartGraph(s)
  <1>8. /\ SameData(s, t) /\ SameChoice(s, t) /\ SameColoring(s, t)
        /\ t.graph = TRUE /\ t.graphics = TRUE /\ t.links = f.links (+) SetToBag(links)
        /\ DOMAIN t.color = nodes \union ends
    BY <1>2, <1>4, <1>6, <1>7 DEF Recolored, SameData, SameChoice, SameColoring, SameGraph
  <1>9. \A n \in DOMAIN t.color : t.color[n] = "mana" =>
          s.manaColoringActive /\ n \in s.nodeManaColors
    BY <1>2, <1>4, <1>6, <1>7 DEF Recolored, SameColoring, SameGraph
  <1>10. \A l \in links : {l[1], l[2]} \subseteq ends
    BY DEF ends
  <1> HIDE DEF t
  <1> QED
    BY <1>5, <1>8, <1>9, <1>10 DEF Started, t, nodes, links

LEMMA RestartStarts ==
  ASSUME NEW s, DOMAIN s = Fields
  PROVE  Started(s, StartGraph(StopGraph(s)))
  <1> DEFINE e == StopGraph(s)
  <1>1. SameData(s, e) /\ SameChoice(s, e) /\ SameColoring(s, e)
    BY DEF StopGraph, Fields, SameData, SameChoice, SameColoring
  <1> HIDE DEF e
  <1>2. Started(e, StartGraph(e))
    BY <1>1, StartStarts DEF SameData
  <1>3. Started(s, StartGraph(e))
    BY <1>1, <1>2 DEF Started, SameData, SameChoice, SameColoring
  <1> QED
    BY <1>3 DEF e

-----------------------------------------------------------------------------
(* What is invariant of the store, whatever it is told: its networks, its  *)
(* graph, its colours and the choice of a network.                         *)
Bounded(S) == \E u \in Nat : \A y \in S : y <= u

NetworksOK(s) ==
  /\ DOMAIN s = Fields
  /\ s.nodes \in [Network -> SUBSET Peer]
  /\ s.connections \in [Network -> SUBSET (Peer \X Peer)]
  /\ DOMAIN s.neighbors = Network
  /\ \A v \in Network :
       /\ \A n \in DOMAIN s.neighbors[v] : DOMAIN s.neighbors[v][n] = {"in", "out"}
       /\ s.connections[v] = Links(s.neighbors[v])
       /\ s.nodes[v] = {} => s.connections[v] = {}
  /\ s.nodes[0] = {}

VersionsOK(s) == s.versions = {v \in Version : s.nodes[v] # {}}

DrawnOK(s) ==
  /\ \A l \in DOMAIN s.links :
       s.links[l] \in Nat \ {0} /\ {l[1], l[2]} \subseteq DOMAIN s.color
  /\ ~s.graph => DOMAIN s.color = {}
  /\ s.graph => s.graphics /\ s.nodes[s.selected] \subseteq DOMAIN s.color

ColorsOK(s) ==
  \A n \in DOMAIN s.color : s.color[n] = "mana" =>
    s.manaColoringActive /\ n \in s.nodeManaColors

ChoiceOK(s) ==
  /\ s.versions \subseteq Version /\ Bounded(s.versions)
  /\ s.userSelected # 0 => s.selected = s.userSelected /\ s.selected \in s.versions
  /\ s.userSelected = 0 => s.selected = AutoSelectNetwork(s)

ViewOK(s) == DrawnOK(s) /\ ColorsOK(s) /\ ChoiceOK(s)
StoreOK(s) == NetworksOK(s) /\ VersionsOK(s) /\ ViewOK(s)

(* Of a network that stays selected only the links in gone leave the       *)
(* graph, and a graph that is drawn anew has all of them.                  *)
GraphKept(s, t, gone) ==
  \/ /\ t.graph = s.graph /\ t.selected = s.selected
     /\ DOMAIN s.links \ gone \subseteq DOMAIN t.links
  \/ ~t.graph
  \/ t.connections[t.selected] \subseteq DOMAIN t.links

-----------------------------------------------------------------------------
(* The largest of the versions.                                            *)
LEMMA MaxIsLargest ==
  ASSUME NEW S, S \subseteq Nat, S # {}, Bounded(S)
  PROVE  Max(S) \in S /\ \A y \in S : y <= Max(S)
  <1>1. PICK u \in Nat : \A y \in S : y <= u
    BY DEF Bounded
  <1> DEFINE T == {u - y : y \in S}
  <1>2. T \subseteq Nat /\ T # {}
    <2>1. \A y \in S : u - y \in Nat
      BY <1>1
    <2> QED
      BY <2>1
  <1> HIDE DEF T
  <1>3. PICK x \in T : \A z \in T : ~(<<z, x>> \in OpToRel(<, Nat))
    BY <1>2, NatLessThanWellFounded, WFMin
  <1>4. \A z \in T : ~(z < x)
    BY <1>2, <1>3 DEF OpToRel
  <1>5. PICK m \in S : x = u - m
    BY DEF T
  <1>6. \A y \in S : m >= y
    <2> TAKE y \in S
    <2>1. u - y \in T
      BY DEF T
    <2> QED
      BY <1>1, <1>4, <1>5, <2>1
  <1>7. Max(S) \in S /\ \A y \in S : Max(S) >= y
    BY <1>6 DEF Max
  <1> QED
    BY <1>7

LEMMA LargestIsMax ==
  ASSUME NEW S, S \subseteq Nat, NEW m \in S, \A y \in S : y <= m
  PROVE  Max(S) = m
  <1>1. Max(S) \in S /\ \A y \in S : Max(S) >= y
    BY DEF Max
  <1>2. Max(S) \in Nat /\ m \in Nat /\ Max(S) >= m /\ Max(S) <= m
    BY <1>1
  <1> HIDE DEF Max
  <1> QED
    BY <1>2

LEMMA VersionsAreNumbers == Version \subseteq Nat /\ 0 \notin Version
  BY AutopeeringConstants

LEMMA SelectedIsNetwork ==
  ASSUME NEW s, ChoiceOK(s)
  PROVE  s.selected \in Network /\ AutoSelectNetwork(s) \in Network
  <1>1. CASE s.versions = {}
    BY <1>1 DEF ChoiceOK, AutoSelectNetwork, Network
  <1>2. CASE s.versions # {}
    <2>1. Max(s.versions) \in s.versions
      BY <1>2, MaxIsLargest, VersionsAreNumbers DEF ChoiceOK
    <2> QED
      BY <1>2, <2>1 DEF ChoiceOK, AutoSelectNetwork, Network
  <1> QED
    BY <1>1, <1>2

LEMMA LinksMembers ==
  ASSUME NEW nb, NEW a, NEW b
  PROVE  <<a, b>> \in Links(nb) <=> a \in DOMAIN nb /\ b \in nb[a].out
  BY DEF Links

-----------------------------------------------------------------------------
(* Colours and graphs keep what is invariant.                              *)
LEMMA RecoloringKeeps ==
  ASSUME NEW s, NEW t, Recolored(s, t), StoreOK(s)
  PROVE  StoreOK(t) /\ GraphKept(s, t, {})
  <1>1. NetworksOK(t) /\ VersionsOK(t)
    BY DEF Recolored, SameData, StoreOK, NetworksOK, VersionsOK
  <1>2. DrawnOK(t) /\ GraphKept(s, t, {})
    BY DEF Recolored, SameData, SameChoice, SameGraph, StoreOK, ViewOK, DrawnOK, GraphKept
  <1>3. ColorsOK(t)
    BY DEF Recolored, SameGraph, SameColoring, StoreOK, ViewOK, ColorsOK
  <1>4. ChoiceOK(t)
    BY DEF Recolored, SameData, SameChoice, StoreOK, ViewOK, ChoiceOK, AutoSelectNetwork
  <1> QED
    BY <1>1, <1>2, <1>3, <1>4 DEF StoreOK, ViewOK

LEMMA StartingShows ==
  ASSUME NEW s, NEW t, Started(s, t), NetworksOK(s), ChoiceOK(s)
  PROVE  NetworksOK(t) /\ ViewOK(t) /\ GraphKept(s, t, {})
  <1>1. NetworksOK(t)
    BY DEF Started, SameData, NetworksOK
  <1>2. t.connections[t.selected] \subseteq DOMAIN t.links
    BY SelectedIsNetwork DEF Started, SameData, SameChoice, NetworksOK
  <1>3. DrawnOK(t)
    BY DEF Started, SameData, SameChoice, DrawnOK
  <1>4. ColorsOK(t)
    BY DEF Started, SameColoring, ColorsOK
  <1>5. ChoiceOK(t)
    BY DEF Started, SameData, SameChoice, ChoiceOK, AutoSelectNetwork
  <1> QED
    BY <1>1, <1>2, <1>3, <1>4, <1>5 DEF ViewOK, GraphKept

(* The network shown is chosen anew.                                       *)
LEMMA AutoSelectionShows ==
  ASSUME NEW s, NetworksOK(s), DrawnOK(s), ColorsOK(s),
         s.versions \subseteq Version, Bounded(s.versions),
         s.selected # AutoSelectNetwork(s) \/ s.userSelected = 0,
         NEW t, t = HandleAutoVersionSelection(s, AutoSelectNetwork(s))
  PROVE  /\ NetworksOK(t) /\ SameData(s, t) /\ SameColoring(s, t)
         /\ ViewOK(t) /\ GraphKept(s, t, {}) /\ t.userSelected = 0
  <1> DEFINE auto == AutoSelectNetwork(s)
             c == ClearNodeSelection(s, FALSE)
             u == [c EXCEPT !.userSelected = 0, !.selected = auto]
  <1>0. DOMAIN s = Fields
    BY DEF NetworksOK
  <1>1. CASE s.selected = auto
    <2>1. t = s
      BY <1>1 DEF HandleAutoVersionSelection
    <2>2. ChoiceOK(s)
      BY <1>1 DEF ChoiceOK
    <2> QED
      BY <1>0, <1>1, <2>1, <2>2 DEF SameData, SameColoring, ViewOK, GraphKept
  <1>2. CASE s.selected # auto
    <2>1. (t = u /\ ~s.graphics) \/ t = StartGraph(StopGraph(u))
      BY <1>2 DEF HandleAutoVersionSelection
    <2>2. c = [s EXCEPT !.selectedNode = NoPeer, !.neighborsOf = NoPeer, !.selectionActive = FALSE]
      BY DEF ClearNodeSelection
    <2>3. /\ SameData(s, u) /\ SameColoring(s, u) /\ SameGraph(s, u) /\ u.color = s.color
          /\ u.selected = auto /\ u.userSelected = 0
      BY <1>0, <2>2 DEF Fields, SameData, SameColoring, SameGraph
    <2> HIDE DEF u, c
    <2>4. NetworksOK(u) /\ ChoiceOK(u)
      BY <2>3 DEF SameData, NetworksOK, ChoiceOK, AutoSelectNetwork
    <2>5. CASE t = u /\ ~s.graphics
      <3>1. DrawnOK(u) /\ ColorsOK(u) /\ ~u.graph
        BY <2>3, <2>5 DEF DrawnOK, ColorsOK, SameGraph, SameColoring
      <3> QED
        BY <2>3, <2>4, <2>5, <3>1 DEF ViewOK, GraphKept
    <2>6. CASE t = StartGraph(StopGraph(u))
      <3>1. Started(u, t)
        BY <2>3, <2>6, RestartStarts DEF SameData
      <3>2. NetworksOK(t) /\ ViewOK(t)
        BY <2>4, <3>1, StartingShows
      <3>3. t.connections[t.selected] \subseteq DOMAIN t.links
        BY <2>4, <3>1, SelectedIsNetwork DEF Started, SameData, SameChoice, NetworksOK
      <3> QED
        BY <2>3, <3>1, <3>2, <3>3 DEF Started, SameData, SameChoice, SameColoring, GraphKept
    <2> QED
      BY <2>1, <2>5, <2>6
  <1> QED
    BY <1>1, <1>2

-----------------------------------------------------------------------------
(* The handlers of the messages.                                           *)
LEMMA DrawingNodes ==
  ASSUME NEW s, DOMAIN s = Fields, NEW nodes, NEW t, t = DrawNodes(s, nodes)
  PROVE  /\ SameData(s, t) /\ SameChoice(s, t) /\ SameColoring(s, t)
         /\ t.graph = s.graph /\ t.graphics = s.graphics /\ t.links = s.links
         /\ DOMAIN s.color \subseteq DOMAIN t.color
         /\ s.graph => DOMAIN t.color = DOMAIN s.color \union nodes
         /\ ~s.graph => t = s
         /\ \A n \in DOMAIN t.color : t.color[n] = "mana" =>
              n \in DOMAIN s.color /\ s.color[n] = "mana"
  BY DEF DrawNodes, Fields, SameData, SameChoice, SameColoring

LEMMA DrawingLinks ==
  ASSUME NEW s, DOMAIN s = Fields, NEW links, NEW t, t = AddLinks(s, links), DrawnOK(s),
         s.graph
  PROVE  /\ SameData(s, t) /\ SameChoice(s, t) /\ SameColoring(s, t)
         /\ t.graph = s.graph /\ t.graphics = s.graphics
         /\ DOMAIN t.links = DOMAIN s.links \union links
         /\ DrawnOK(t)
         /\ \A n \in DOMAIN t.color : t.color[n] = "mana" =>
              n \in DOMAIN s.color /\ s.color[n] = "mana"
  <1> DEFINE ends == UNION {{l[1], l[2]} : l \in links}
             d == DrawNodes(s, ends)
  <1>1. /\ SameData(s, d) /\ SameChoice(s, d) /\ SameColoring(s, d)
        /\ d.graph = s.graph /\ d.graphics = s.graphics /\ d.links = s.links
        /\ DOMAIN d.color = DOMAIN s.color \union ends
        /\ \A n \in DOMAIN d.color : d.color[n] = "mana" =>
             n \in DOMAIN s.color /\ s.color[n] = "mana"
    <2> HIDE DEF ends, d
    <2>1. d = DrawNodes(s, ends)
      BY DEF d
    <2>2. /\ SameData(s, d) /\ SameChoice(s, d) /\ SameColoring(s, d)
          /\ d.graph = s.graph /\ d.graphics = s.graphics /\ d.links = s.links
      <3>1. SameData(s, d) /\ SameChoice(s, d)
        BY <2>1, DrawingNodes, Zenon
      <3>2. SameColoring(s, d) /\ d.graph = s.graph
        BY <2>1, DrawingNodes, Zenon
      <3>3. d.graphics = s.graphics
        BY <2>1, DrawingNodes
      <3>4. d.links = s.links
        BY <2>1, DrawingNodes
      <3> QED
        BY <3>1, <3>2, <3>3, <3>4, Zenon
    <2>3. DOMAIN d.color = DOMAIN s.color \union ends
      BY <2>1, DrawingNodes, Zenon
    <2>4. \A n \in DOMAIN d.color : d.color[n] = "mana" =>
            n \in DOMAIN s.color /\ s.color[n] = "mana"
      BY <2>1, DrawingNodes, Zenon
    <2> QED
      BY <2>2, <2>3, <2>4, Zenon
  <1>2. t = [d EXCEPT !.links = @ (+) SetToBag(links)]
    BY DEF AddLinks
  <1>3. \A l \in links : {l[1], l[2]} \subseteq ends
    OBVIOUS
  <1> HIDE DEF d, ends
  <1>4. /\ DOMAIN (d.links (+) SetToBag(links)) = DOMAIN s.links \union links
        /\ \A l \in DOMAIN s.links \union links : (d.links (+) SetToBag(links))[l] \in Nat \ {0}
    BY <1>1 DEF (+), SetToBag, DrawnOK
  <1>5. /\ SameData(s, t) /\ SameChoice(s, t) /\ SameColoring(s, t)
        /\ t.graph = s.graph /\ t.graphics = s.graphics
        /\ t.links = d.links (+) SetToBag(links) /\ t.color = d.color
    BY <1>1, <1>2 DEF Fields, SameData, SameChoice, SameColoring
  <1>6. DrawnOK(t)
    BY <1>1, <1>3, <1>4, <1>5 DEF DrawnOK, SameData, SameChoice
  <1> QED
    BY <1>1, <1>4, <1>5, <1>6

LEMMA BoundedMore ==
  ASSUME NEW S, S \subseteq Nat, Bounded(S), NEW v \in Nat
  PROVE  Bounded(S \union {v})
  <1>1. PICK u \in Nat : \A y \in S : y <= u
    BY DEF Bounded
  <1>2. CASE u <= v
    <2>1. \A y \in S \union {v} : y <= v
      BY <1>1, <1>2
    <2> QED
      BY <2>1, Zenon DEF Bounded
  <1>3. CASE ~(u <= v)
    <2>1. \A y \in S \union {v} : y <= u
      BY <1>1, <1>3
    <2> QED
      BY <2>1, Zenon DEF Bounded
  <1> QED
    BY <1>2, <1>3, Zenon

LEMMA AddNodeKeeps ==
  ASSUME NEW s, StoreOK(s), NEW v \in Version, NEW n \in Peer, NEW t, t = OnAddNode(s, v, n)
  PROVE  /\ StoreOK(t) /\ GraphKept(s, t, {})
         /\ t.nodes = [s.nodes EXCEPT ![v] = @ \union {n}]
         /\ t.connections = s.connections
  <1> DEFINE added == [s EXCEPT !.versions = @ \union {v}]
             m == IF v \in s.versions \/ s.userSelected # 0 THEN added
                  ELSE HandleAutoVersionSelection(added, AutoSelectNetwork(added))
             set == [m EXCEPT !.nodes[v] = @ \union {n}]
  <1>0. /\ DOMAIN s = Fields /\ v \in Network /\ v \in DOMAIN s.nodes
        /\ NetworksOK(s) /\ VersionsOK(s) /\ DrawnOK(s) /\ ColorsOK(s) /\ ChoiceOK(s)
    <2>1. NetworksOK(s) /\ VersionsOK(s) /\ DrawnOK(s) /\ ColorsOK(s) /\ ChoiceOK(s)
      BY DEF StoreOK, ViewOK
    <2>2. DOMAIN s = Fields /\ DOMAIN s.nodes = Network
      BY <2>1 DEF NetworksOK
    <2>3. v \in Network
      BY DEF Network
    <2> QED
      BY <2>1, <2>2, <2>3
  <1>1. t = IF n \in m.nodes[v] THEN m ELSE IF m.selected = v THEN DrawNodes(set, {n}) ELSE set
    <2>1. m = AddVersion(s, v)
      BY Zenon DEF AddVersion
    <2> HIDE DEF m
    <2> QED
      BY <2>1 DEF OnAddNode
  <1>2. /\ DOMAIN added = Fields /\ added.versions = s.versions \union {v}
        /\ added.nodes = s.nodes /\ added.connections = s.connections
        /\ added.neighbors = s.neighbors
        /\ SameChoice(s, added) /\ SameGraph(s, added) /\ SameColoring(s, added)
        /\ added.color = s.color
    BY <1>0 DEF Fields, SameChoice, SameGraph, SameColoring
  <1> HIDE DEF added
  <1>3. NetworksOK(added) /\ DrawnOK(added) /\ ColorsOK(added)
    <2>1. NetworksOK(added)
      BY <1>0, <1>2 DEF NetworksOK
    <2>2. DrawnOK(added) /\ ColorsOK(added)
      BY <1>0, <1>2 DEF DrawnOK, ColorsOK, SameChoice, SameGraph, SameColoring
    <2> QED
      BY <2>1, <2>2
  <1>4. added.versions \subseteq Version /\ Bounded(added.versions)
    BY <1>0, <1>2, BoundedMore, VersionsAreNumbers DEF ChoiceOK
  <1>5. GraphKept(s, added, {})
    BY <1>2 DEF GraphKept, SameChoice, SameGraph
  <1>6. /\ DOMAIN m = Fields /\ m.versions = s.versions \union {v}
        /\ m.nodes = s.nodes /\ m.connections = s.connections /\ m.neighbors = s.neighbors
        /\ NetworksOK(m) /\ ViewOK(m) /\ GraphKept(s, m, {})
    <2>1. CASE v \in s.versions
      <3>1. m = added /\ added.versions = s.versions
        BY <1>2, <2>1
      <3>2. ChoiceOK(added)
        BY <1>0, <1>2, <3>1 DEF ChoiceOK, SameChoice, AutoSelectNetwork
      <3> QED
        BY <1>2, <1>3, <1>5, <3>1, <3>2 DEF ViewOK
    <2>2. CASE v \notin s.versions /\ s.userSelected # 0
      <3>1. m = added
        BY <2>2
      <3>2. ChoiceOK(added)
        BY <1>0, <1>2, <1>4, <2>2 DEF ChoiceOK, SameChoice
      <3> QED
        BY <1>2, <1>3, <1>5, <3>1, <3>2 DEF ViewOK
    <2>3. CASE v \notin s.versions /\ s.userSelected = 0
      <3>1. m = HandleAutoVersionSelection(added, AutoSelectNetwork(added))
            /\ added.userSelected = 0
        BY <1>2, <2>3 DEF SameChoice
      <3> HIDE DEF m
      <3>2. /\ NetworksOK(m) /\ SameData(added, m) /\ ViewOK(m) /\ GraphKept(added, m, {})
        BY <1>3, <1>4, <3>1, AutoSelectionShows
      <3>3. GraphKept(s, m, {})
        BY <1>2, <3>2 DEF GraphKept, SameChoice, SameGraph
      <3> QED
        BY <1>2, <3>2, <3>3 DEF SameData
    <2> QED
      BY <2>1, <2>2, <2>3
  <1> HIDE DEF m
  <1>7. /\ DOMAIN set = Fields /\ set.versions = m.versions
        /\ set.nodes = [s.nodes EXCEPT ![v] = @ \union {n}]
        /\ set.connections = m.connections /\ set.neighbors = m.neighbors
        /\ SameChoice(m, set) /\ SameColoring(m, set)
        /\ set.graph = m.graph /\ set.graphics = m.graphics /\ set.links = m.links
        /\ set.color = m.color
    BY <1>6 DEF Fields, SameChoice, SameColoring
  <1> HIDE DEF set
  <1>8. /\ NetworksOK(set)
        /\ set.versions = {w \in Version : set.nodes[w] # {}}
    <2>1. NetworksOK(set)
      BY <1>0, <1>6, <1>7, VersionsAreNumbers DEF NetworksOK
    <2>2. set.versions = {w \in Version : set.nodes[w] # {}}
      BY <1>0, <1>6, <1>7 DEF VersionsOK, NetworksOK, Network
    <2> QED
      BY <2>1, <2>2
  <1>9. CASE n \in m.nodes[v]
    <2>1. t = m /\ s.nodes = [s.nodes EXCEPT ![v] = @ \union {n}]
      <3>1. s.nodes \in [Network -> SUBSET Peer] /\ s.nodes[v] \union {n} = s.nodes[v]
        BY <1>0, <1>6, <1>9 DEF NetworksOK
      <3> QED
        BY <1>0, <1>1, <1>9, <3>1
    <2>2. VersionsOK(m)
      BY <1>6, <1>7, <1>8, <2>1 DEF VersionsOK
    <2> QED
      BY <1>6, <2>1, <2>2 DEF StoreOK
  <1>10. CASE n \notin m.nodes[v]
    <2>1. /\ SameData(set, t) /\ SameChoice(set, t) /\ SameColoring(set, t)
          /\ t.graph = set.graph /\ t.graphics = set.graphics /\ t.links = set.links
          /\ DOMAIN set.color \subseteq DOMAIN t.color
          /\ set.graph /\ m.selected = v => n \in DOMAIN t.color
          /\ ~set.graph => DOMAIN t.color = DOMAIN set.color
          /\ \A k \in DOMAIN t.color : t.color[k] = "mana" =>
               k \in DOMAIN set.color /\ set.color[k] = "mana"
      <3>1. CASE m.selected = v
        BY <1>1, <1>7, <1>10, <3>1, DrawingNodes
      <3>2. CASE m.selected # v
        BY <1>1, <1>7, <1>10, <3>2 DEF SameData, SameChoice, SameColoring
      <3> QED
        BY <3>1, <3>2
    <2>2. NetworksOK(t) /\ VersionsOK(t)
      BY <1>8, <2>1 DEF SameData, NetworksOK, VersionsOK
    <2>3. m.selected \in Network /\ DOMAIN s.nodes = Network
      BY <1>0, <1>6, SelectedIsNetwork DEF ViewOK, NetworksOK
    <2>4. DrawnOK(t)
      <3>1. t.graph => t.graphics /\ t.nodes[t.selected] \subseteq DOMAIN t.color
        BY <1>6, <1>7, <2>1, <2>3 DEF ViewOK, DrawnOK, SameData, SameChoice
      <3>2. /\ \A l \in DOMAIN t.links :
                 t.links[l] \in Nat \ {0} /\ {l[1], l[2]} \subseteq DOMAIN t.color
            /\ ~t.graph => DOMAIN t.color = {}
        BY <1>6, <1>7, <2>1 DEF ViewOK, DrawnOK
      <3> QED
        BY <3>1, <3>2 DEF DrawnOK
    <2>5. ColorsOK(t)
      BY <1>6, <1>7, <2>1 DEF ViewOK, ColorsOK, SameColoring
    <2>6. ChoiceOK(t)
      BY <1>6, <1>7, <2>1 DEF ViewOK, ChoiceOK, SameData, SameChoice, AutoSelectNetwork
    <2>7. GraphKept(s, t, {})
      BY <1>6, <1>7, <2>1 DEF GraphKept, SameData, SameChoice
    <2> QED
      BY <1>6, <1>7, <2>1, <2>2, <2>4, <2>5, <2>6, <2>7 DEF StoreOK, ViewOK, SameData
  <1> QED
    BY <1>9, <1>10

LEMMA AutoSelectsAnother ==
  ASSUME NEW s, s.versions \subseteq Version, Bounded(s.versions), NEW v \in Version, v \notin s.versions
  PROVE  AutoSelectNetwork(s) # v
  <1>1. CASE s.versions = {}
    BY <1>1, VersionsAreNumbers DEF AutoSelectNetwork
  <1>2. CASE s.versions # {}
    BY <1>2, MaxIsLargest, VersionsAreNumbers DEF AutoSelectNetwork
  <1> QED
    BY <1>1, <1>2

(* A version that is not shown goes.                                       *)
LEMMA ForgettingKeepsChoice ==
  ASSUME NEW s, ChoiceOK(s), NEW v \in s.versions, s.selected # v,
         NEW t, SameChoice(s, t), t.versions = s.versions \ {v}
  PROVE  ChoiceOK(t)
  <1>1. t.versions \subseteq Version /\ Bounded(t.versions)
    BY DEF ChoiceOK, Bounded
  <1>2. s.userSelected = 0 => s.selected = AutoSelectNetwork(t)
    <2> SUFFICES ASSUME s.userSelected = 0 PROVE s.selected = AutoSelectNetwork(t)
      OBVIOUS
    <2>1. s.selected = Max(s.versions) /\ s.versions # {}
      BY DEF ChoiceOK, AutoSelectNetwork
    <2>2. s.selected \in s.versions /\ \A y \in s.versions : y <= s.selected
      BY <2>1, MaxIsLargest, VersionsAreNumbers DEF ChoiceOK
    <2>3. Max(t.versions) = s.selected
      BY <1>1, <2>2, LargestIsMax, VersionsAreNumbers
    <2> QED
      BY <2>2, <2>3 DEF AutoSelectNetwork
  <1> QED
    BY <1>1, <1>2 DEF ChoiceOK, SameChoice

OfNode(links, n) == {l \in DOMAIN links : n \in {l[1], l[2]}}

Removes(s, v, n, t) ==
  /\ StoreOK(t)
  /\ t.nodes = [s.nodes EXCEPT ![v] = @ \ {n}]
  /\ \/ t.connections = s.connections
     \/ t.nodes[v] = {} /\ t.connections = [s.connections EXCEPT ![v] = {}]
  /\ \/ s.selected = v /\ GraphKept(s, t, OfNode(s.links, n))
     \/ s.selected # v /\ GraphKept(s, t, {})

LEMMA RemoveNodeKeeps ==
  ASSUME NEW s, StoreOK(s), NEW v \in Version, NEW n \in Peer, NEW t, t = OnRemoveNode(s, v, n)
  PROVE  Removes(s, v, n, t)
  <1> SUFFICES /\ StoreOK(t)
               /\ t.nodes = [s.nodes EXCEPT ![v] = @ \ {n}]
               /\ \/ t.connections = s.connections
                  \/ t.nodes[v] = {} /\ t.connections = [s.connections EXCEPT ![v] = {}]
               /\ \/ s.selected = v /\ GraphKept(s, t, {l \in DOMAIN s.links : n \in {l[1], l[2]}})
                  \/ s.selected # v /\ GraphKept(s, t, {})
    BY DEF Removes, OfNode
  <1> DEFINE erased == IF Displayed(s, v) THEN RemoveFromGraph(s, n) ELSE s
             u == [erased EXCEPT !.nodes[v] = @ \ {n}]
             gone == [u EXCEPT !.neighbors[v] = <<>>, !.connections[v] = {},
                               !.versions = @ \ {v}]
             ofNode == {l \in DOMAIN s.links : n \in {l[1], l[2]}}
  <1>0. /\ DOMAIN s = Fields /\ v \in Network /\ v \in DOMAIN s.nodes
        /\ NetworksOK(s) /\ VersionsOK(s) /\ DrawnOK(s) /\ ColorsOK(s) /\ ChoiceOK(s)
    BY DEF StoreOK, ViewOK, NetworksOK, Network
  <1>1. t = IF n \notin s.nodes[v] THEN s
            ELSE IF u.nodes[v] # {} THEN u
            ELSE IF s.selected = v
                 THEN HandleAutoVersionSelection(gone, AutoSelectNetwork(gone)) ELSE gone
    BY DEF OnRemoveNode
  <1>2. /\ SameData(s, erased) /\ SameChoice(s, erased) /\ SameColoring(s, erased)
        /\ erased.graph = s.graph /\ erased.graphics = s.graphics
        /\ \A m \in DOMAIN erased.color : m \in DOMAIN s.color /\ erased.color[m] = s.color[m]
        /\ DOMAIN s.color \ {n} \subseteq DOMAIN erased.color
        /\ \A l \in DOMAIN erased.links :
             /\ l \in DOMAIN s.links /\ erased.links[l] = s.links[l]
             /\ {l[1], l[2]} \subseteq DOMAIN erased.color
        /\ \/ s.selected = v /\ DOMAIN s.links \ ofNode \subseteq DOMAIN erased.links
           \/ DOMAIN s.links \subseteq DOMAIN erased.links
        /\ ~Displayed(s, v) => erased = s
    <2>1. CASE Displayed(s, v)
      <3>1. /\ erased = RemoveFromGraph(s, n) /\ s.selected = v
        BY <2>1 DEF Displayed
      <3> HIDE DEF erased
      <3>2. /\ erased.color = [m \in DOMAIN s.color \ {n} |-> s.color[m]]
            /\ erased.links = [l \in {l \in DOMAIN s.links : n \notin {l[1], l[2]}} |-> s.links[l]]
            /\ SameData(s, erased) /\ SameChoice(s, erased) /\ SameColoring(s, erased)
            /\ erased.graph = s.graph /\ erased.graphics = s.graphics
        BY <1>0, <3>1 DEF RemoveFromGraph, Restrict, Fields, SameData, SameChoice, SameColoring
      <3>3. \A l \in DOMAIN erased.links : {l[1], l[2]} \subseteq DOMAIN erased.color
        BY <1>0, <3>2 DEF DrawnOK
      <3> QED
        BY <2>1, <3>1, <3>2, <3>3
    <2>2. CASE ~Displayed(s, v)
      BY <1>0, <2>2 DEF SameData, SameChoice, SameColoring, DrawnOK
    <2> QED
      BY <2>1, <2>2
  <1> HIDE DEF erased, ofNode
  <1>3. /\ DOMAIN u = Fields /\ u.versions = s.versions
        /\ u.nodes = [s.nodes EXCEPT ![v] = @ \ {n}]
        /\ u.connections = s.connections /\ u.neighbors = s.neighbors
        /\ SameChoice(s, u) /\ SameColoring(s, u)
        /\ u.graph = s.graph /\ u.graphics = s.graphics
        /\ u.links = erased.links /\ u.color = erased.color
    BY <1>0, <1>2 DEF Fields, SameData, SameChoice, SameColoring
  <1>4. /\ DOMAIN gone = Fields /\ gone.versions = s.versions \ {v}
        /\ gone.nodes = u.nodes
        /\ gone.connections = [s.connections EXCEPT ![v] = {}]
        /\ gone.neighbors = [s.neighbors EXCEPT ![v] = <<>>]
        /\ SameChoice(u, gone) /\ SameColoring(u, gone)
        /\ gone.graph = u.graph /\ gone.graphics = u.graphics
        /\ gone.links = u.links /\ gone.color = u.color
    BY <1>3 DEF Fields, SameChoice, SameColoring
  <1> HIDE DEF u, gone
  <1>5. s.selected \in Network
    BY <1>0, SelectedIsNetwork
  <1>6. DrawnOK(u) /\ ColorsOK(u)
    <2>1. u.graph => u.graphics /\ u.nodes[u.selected] \subseteq DOMAIN u.color
      <3>1. CASE s.selected = v
        BY <1>0, <1>2, <1>3, <3>1 DEF DrawnOK, SameChoice, NetworksOK
      <3>2. CASE s.selected # v
        BY <1>0, <1>2, <1>3, <1>5, <3>2 DEF DrawnOK, SameChoice, NetworksOK, Displayed
      <3> QED
        BY <3>1, <3>2
    <2>2. ~u.graph => DOMAIN u.color = {}
      BY <1>0, <1>2, <1>3 DEF DrawnOK
    <2>3. \A l \in DOMAIN u.links : u.links[l] \in Nat \ {0} /\ {l[1], l[2]} \subseteq DOMAIN u.color
      BY <1>0, <1>2, <1>3 DEF DrawnOK
    <2>4. ColorsOK(u)
      BY <1>0, <1>2, <1>3 DEF ColorsOK, SameColoring
    <2> QED
      BY <2>1, <2>2, <2>3, <2>4 DEF DrawnOK
  <1>7. \/ s.selected = v /\ GraphKept(s, u, ofNode)
        \/ s.selected # v /\ GraphKept(s, u, {})
    BY <1>2, <1>3 DEF GraphKept, SameChoice, Displayed
  <1>8. CASE n \notin s.nodes[v]
    <2>1. t = s /\ s.nodes = [s.nodes EXCEPT ![v] = @ \ {n}]
      <3>1. s.nodes \in [Network -> SUBSET Peer] /\ s.nodes[v] \ {n} = s.nodes[v]
        BY <1>0, <1>8 DEF NetworksOK
      <3> QED
        BY <1>0, <1>1, <1>8, <3>1
    <2> QED
      BY <2>1 DEF GraphKept
  <1>9. CASE n \in s.nodes[v] /\ u.nodes[v] # {}
    <2>1. t = u
      BY <1>1, <1>9
    <2>2. NetworksOK(u)
      BY <1>0, <1>3, <1>9, VersionsAreNumbers DEF NetworksOK
    <2>3. VersionsOK(u)
      BY <1>0, <1>3, <1>9 DEF VersionsOK, NetworksOK, Network
    <2>4. ChoiceOK(u)
      BY <1>0, <1>3 DEF ChoiceOK, SameChoice, AutoSelectNetwork
    <2> QED
      BY <1>3, <1>6, <1>7, <2>1, <2>2, <2>3, <2>4 DEF StoreOK, ViewOK, ofNode
  <1>10. CASE n \in s.nodes[v] /\ u.nodes[v] = {}
    <2>1. NetworksOK(gone)
      <3>1. Links(<<>>) = {}
        BY DEF Links
      <3>2. DOMAIN <<>> = {}
        OBVIOUS
      <3>3. /\ DOMAIN gone = Fields /\ DOMAIN gone.neighbors = Network
            /\ gone.nodes \in [Network -> SUBSET Peer]
            /\ gone.connections \in [Network -> SUBSET (Peer \X Peer)]
            /\ gone.nodes[0] = {}
        BY <1>0, <1>3, <1>4, VersionsAreNumbers DEF NetworksOK
      <3>4. gone.neighbors[v] = <<>> /\ gone.connections[v] = {}
        BY <1>0, <1>4 DEF NetworksOK
      <3>5. \A w \in Network : w # v =>
              /\ gone.neighbors[w] = s.neighbors[w] /\ gone.connections[w] = s.connections[w]
              /\ gone.nodes[w] = s.nodes[w]
        BY <1>0, <1>3, <1>4 DEF NetworksOK
      <3>6. ASSUME NEW w \in Network
            PROVE  /\ \A k \in DOMAIN gone.neighbors[w] :
                        DOMAIN gone.neighbors[w][k] = {"in", "out"}
                   /\ gone.connections[w] = Links(gone.neighbors[w])
                   /\ gone.nodes[w] = {} => gone.connections[w] = {}
        <4>1. CASE w = v
          BY <3>1, <3>2, <3>4, <4>1, Zenon
        <4>2. CASE w # v
          <5>1. /\ \A k \in DOMAIN s.neighbors[w] : DOMAIN s.neighbors[w][k] = {"in", "out"}
                /\ s.connections[w] = Links(s.neighbors[w])
                /\ s.nodes[w] = {} => s.connections[w] = {}
            BY <1>0 DEF NetworksOK
          <5>2. /\ gone.neighbors[w] = s.neighbors[w] /\ gone.connections[w] = s.connections[w]
                /\ gone.nodes[w] = s.nodes[w]
            BY <3>5, <4>2
          <5> QED
            BY <5>1, <5>2
        <4> QED
          BY <4>1, <4>2
      <3> QED
        BY <3>3, <3>6, Zenon DEF NetworksOK
    <2>2. VersionsOK(gone)
      <3>1. gone.nodes[v] = {} /\ \A w \in Version : w # v => gone.nodes[w] = s.nodes[w]
        BY <1>0, <1>3, <1>4, <1>10 DEF NetworksOK, Network
      <3> QED
        BY <1>0, <1>4, <3>1 DEF VersionsOK
    <2>3. DrawnOK(gone) /\ ColorsOK(gone)
      BY <1>4, <1>6 DEF DrawnOK, ColorsOK, SameChoice, SameColoring
    <2>4. v \in s.versions
      BY <1>0, <1>10 DEF VersionsOK
    <2>5. gone.versions \subseteq Version /\ Bounded(gone.versions)
      BY <1>0, <1>4 DEF ChoiceOK, Bounded
    <2>6. CASE s.selected = v
      <3>1. t = HandleAutoVersionSelection(gone, AutoSelectNetwork(gone))
        BY <1>1, <1>10, <2>6
      <3>2. gone.selected # AutoSelectNetwork(gone)
        BY <1>3, <1>4, <2>5, <2>6, AutoSelectsAnother DEF SameChoice
      <3>3. /\ NetworksOK(t) /\ SameData(gone, t) /\ ViewOK(t) /\ GraphKept(gone, t, {})
        BY <2>1, <2>3, <2>5, <3>1, <3>2, AutoSelectionShows
      <3>4. VersionsOK(t)
        BY <2>2, <3>3 DEF VersionsOK, SameData
      <3>5. GraphKept(s, t, ofNode)
        BY <1>2, <1>3, <1>4, <3>3 DEF GraphKept, SameChoice
      <3> QED
        BY <1>3, <1>4, <1>10, <2>6, <3>3, <3>4, <3>5 DEF StoreOK, SameData, ofNode
    <2>7. CASE s.selected # v
      <3>1. t = gone
        BY <1>1, <1>10, <2>7
      <3>2. ChoiceOK(gone)
        BY <1>0, <1>3, <1>4, <2>4, <2>7, ForgettingKeepsChoice DEF SameChoice
      <3>3. GraphKept(s, gone, {})
        BY <1>2, <1>3, <1>4, <2>7 DEF GraphKept, SameChoice, Displayed
      <3> QED
        BY <1>3, <1>4, <1>10, <2>1, <2>2, <2>3, <2>7, <3>1, <3>2, <3>3 DEF StoreOK, ViewOK
    <2> QED
      BY <2>6, <2>7
  <1> QED
    BY <1>8, <1>9, <1>10

LEMMA GraphKeptAgain ==
  ASSUME NEW s, NEW t, NEW u, GraphKept(s, t, {}), GraphKept(t, u, {}),
         u.connections = t.connections
  PROVE  GraphKept(s, u, {})
  BY DEF GraphKept

(* The neighbors after a connection.                                       *)
Connected(nb, a, b) ==
  [n \in DOMAIN nb \union {a, b} |->
           CASE n = a -> [NeighborsOf(nb, n) EXCEPT !.out = @ \union {b}]
             [] n = b -> [NeighborsOf(nb, n) EXCEPT !.in = @ \union {a}]
             [] OTHER -> nb[n]]

LEMMA ConnectedLinks ==
  ASSUME NEW nb, NEW a, NEW b, a # b,
         \A n \in DOMAIN nb : DOMAIN nb[n] = {"in", "out"}, NEW r, r = Connected(nb, a, b)
  PROVE  /\ \A n \in DOMAIN r : DOMAIN r[n] = {"in", "out"}
         /\ Links(r) = Links(nb) \union {<<a, b>>}
  <1>1. \A n \in DOMAIN r : DOMAIN NeighborsOf(nb, n) = {"in", "out"}
    BY DEF NeighborsOf, NoNeighbors
  <1>2. /\ DOMAIN r = DOMAIN nb \union {a, b}
        /\ r[a] = [NeighborsOf(nb, a) EXCEPT !.out = @ \union {b}]
        /\ a # b => r[b] = [NeighborsOf(nb, b) EXCEPT !.in = @ \union {a}]
        /\ \A n \in DOMAIN nb : n \notin {a, b} => r[n] = nb[n]
    <2>1. DOMAIN r = DOMAIN nb \union {a, b}
      BY DEF Connected
    <2> DEFINE Out(n) == [NeighborsOf(nb, n) EXCEPT !.out = @ \union {b}]
               In(n) == [NeighborsOf(nb, n) EXCEPT !.in = @ \union {a}]
    <2>2. r = [n \in DOMAIN nb \union {a, b} |->
                 CASE n = a -> Out(n) [] n = b -> In(n) [] OTHER -> nb[n]]
      BY DEF Connected
    <2> HIDE DEF Out, In
    <2>3. r[a] = Out(a) /\ (a # b => r[b] = In(b))
      BY <2>2
    <2>4. \A n \in DOMAIN nb : n \notin {a, b} => r[n] = nb[n]
      BY DEF Connected
    <2> QED
      BY <2>1, <2>3, <2>4 DEF Out, In
  <1>3. /\ DOMAIN r[a] = {"in", "out"} /\ r[a].out = NeighborsOf(nb, a).out \union {b}
        /\ DOMAIN r[b] = {"in", "out"}
        /\ a # b => r[b].out = NeighborsOf(nb, b).out
    BY <1>1, <1>2
  <1>4. \A n \in DOMAIN r : DOMAIN r[n] = {"in", "out"}
    BY <1>2, <1>3
  <1>5. /\ a \in DOMAIN nb => r[a].out = nb[a].out \union {b}
        /\ a \notin DOMAIN nb => r[a].out = {b}
        /\ a # b /\ b \in DOMAIN nb => r[b].out = nb[b].out
        /\ a # b /\ b \notin DOMAIN nb => r[b].out = {}
    BY <1>3 DEF NeighborsOf, NoNeighbors
  <1>6. \A x, y : <<x, y>> \in Links(r) <=> <<x, y>> \in Links(nb) \/ (x = a /\ y = b)
    <2> TAKE x, y
    <2>1. /\ <<x, y>> \in Links(r) <=> x \in DOMAIN r /\ y \in r[x].out
          /\ <<x, y>> \in Links(nb) <=> x \in DOMAIN nb /\ y \in nb[x].out
      BY LinksMembers
    <2>2. CASE x = a
      BY <1>2, <1>5, <2>1, <2>2
    <2>3. CASE x # a /\ x = b
      BY <1>2, <1>5, <2>1, <2>3
    <2>4. CASE x \notin {a, b}
      BY <1>2, <2>1, <2>4
    <2> QED
      BY <2>2, <2>3, <2>4
  <1>7. \A l \in Links(r) \union Links(nb) : l = <<l[1], l[2]>>
    BY DEF Links
  <1>8. \A l : l \in Links(r) <=> l \in Links(nb) \union {<<a, b>>}
    BY <1>6, <1>7
  <1> QED
    BY <1>4, <1>8

Connects(s, v, a, b, t) ==
  /\ StoreOK(t)
  /\ \/ s.nodes[v] # {} /\ t.nodes = s.nodes
     \/ s.nodes[v] = {} /\ t.nodes = [s.nodes EXCEPT ![v] = {a, b}]
  /\ \/ /\ {a, b} \subseteq t.nodes[v]
        /\ t.connections = [s.connections EXCEPT ![v] = @ \union {<<a, b>>}]
        /\ t.graph /\ t.selected = v => <<a, b>> \in DOMAIN t.links
        /\ GraphKept(s, t, {})
     \/ t = s /\ ~({a, b} \subseteq s.nodes[v])

LEMMA ConnectKeeps ==
  ASSUME NEW s, StoreOK(s), NEW v \in Version, NEW a \in Peer, NEW b \in Peer, a # b,
         NEW t, t = OnConnectNodes(s, v, a, b)
  PROVE  Connects(s, v, a, b, t)
  <1> SUFFICES /\ StoreOK(t)
               /\ \/ s.nodes[v] # {} /\ t.nodes = s.nodes
                  \/ s.nodes[v] = {} /\ t.nodes = [s.nodes EXCEPT ![v] = {a, b}]
               /\ \/ /\ {a, b} \subseteq t.nodes[v]
                     /\ t.connections = [s.connections EXCEPT ![v] = @ \union {<<a, b>>}]
                     /\ t.graph /\ t.selected = v => <<a, b>> \in DOMAIN t.links
                     /\ GraphKept(s, t, {})
                  \/ t = s /\ ~({a, b} \subseteq s.nodes[v])
    BY DEF Connects
  <1> DEFINE first == OnAddNode(s, v, a)
             m == IF s.nodes[v] # {} THEN s ELSE OnAddNode(first, v, b)
             d == IF Displayed(m, v) THEN AddLinks(m, {<<a, b>>}) ELSE m
             nb == d.neighbors[v]
             r == Connected(nb, a, b)
             u == [d EXCEPT !.connections[v] = @ \union {<<a, b>>}, !.neighbors[v] = r]
  <1>1. /\ StoreOK(m) /\ m.connections = s.connections /\ GraphKept(s, m, {})
        /\ \/ s.nodes[v] # {} /\ m = s
           \/ s.nodes[v] = {} /\ m.nodes = [s.nodes EXCEPT ![v] = {a, b}]
    <2>1. CASE s.nodes[v] # {}
      BY <2>1 DEF GraphKept
    <2>2. CASE s.nodes[v] = {}
      <3>1. m = OnAddNode(first, v, b)
        BY <2>2
      <3>2. /\ StoreOK(first) /\ GraphKept(s, first, {})
            /\ first.nodes = [s.nodes EXCEPT ![v] = @ \union {a}]
            /\ first.connections = s.connections
        BY AddNodeKeeps
      <3> HIDE DEF first, m
      <3>3. /\ StoreOK(m) /\ GraphKept(first, m, {})
            /\ m.nodes = [first.nodes EXCEPT ![v] = @ \union {b}]
            /\ m.connections = first.connections
        BY <3>1, <3>2, AddNodeKeeps
      <3>4. GraphKept(s, m, {})
        BY <3>2, <3>3, GraphKeptAgain
      <3>5. s.nodes \in [Network -> SUBSET Peer] /\ v \in Network
        BY DEF StoreOK, NetworksOK, Network
      <3>6. m.nodes = [s.nodes EXCEPT ![v] = {a, b}]
        BY <2>2, <3>2, <3>3, <3>5
      <3> QED
        BY <2>2, <3>2, <3>3, <3>4, <3>6
    <2> QED
      BY <2>1, <2>2
  <1>2. t = IF ~({a, b} \subseteq m.nodes[v]) THEN m ELSE u
    BY DEF OnConnectNodes, Connected
  <1> HIDE DEF m
  <1>3. s.nodes \in [Network -> SUBSET Peer] /\ v \in Network
    BY DEF StoreOK, NetworksOK, Network
  <1>4. CASE ~({a, b} \subseteq m.nodes[v])
    <2>1. m = s /\ s.nodes[v] # {}
      BY <1>1, <1>3, <1>4
    <2> QED
      BY <1>1, <1>2, <1>4, <2>1
  <1>5. CASE {a, b} \subseteq m.nodes[v]
    <2>1. t = u
      BY <1>2, <1>5
    <2>2. /\ DOMAIN m = Fields /\ NetworksOK(m) /\ VersionsOK(m)
          /\ DrawnOK(m) /\ ColorsOK(m) /\ ChoiceOK(m)
      BY <1>1 DEF StoreOK, ViewOK, NetworksOK
    <2>3. /\ SameData(m, d) /\ SameChoice(m, d) /\ SameColoring(m, d)
          /\ d.graph = m.graph /\ d.graphics = m.graphics
          /\ DOMAIN m.links \subseteq DOMAIN d.links
          /\ d.graph /\ d.selected = v => <<a, b>> \in DOMAIN d.links
          /\ DrawnOK(d)
          /\ \A n \in DOMAIN d.color : d.color[n] = "mana" =>
               n \in DOMAIN m.color /\ m.color[n] = "mana"
      <3>1. CASE Displayed(m, v)
        <4>1. d = AddLinks(m, {<<a, b>>}) /\ m.graph
          BY <3>1 DEF Displayed
        <4> HIDE DEF d
        <4>2. /\ SameData(m, d) /\ SameChoice(m, d) /\ SameColoring(m, d)
              /\ d.graph = m.graph /\ d.graphics = m.graphics
              /\ DOMAIN d.links = DOMAIN m.links \union {<<a, b>>}
              /\ DrawnOK(d)
              /\ \A n \in DOMAIN d.color : d.color[n] = "mana" =>
                   n \in DOMAIN m.color /\ m.color[n] = "mana"
          <5> DEFINE links == {<<a, b>>}
          <5>1. d = AddLinks(m, links)
            BY <4>1
          <5> HIDE DEF links
          <5>2. /\ SameData(m, d) /\ SameChoice(m, d) /\ SameColoring(m, d)
                /\ d.graph = m.graph /\ d.graphics = m.graphics
                /\ DOMAIN d.links = DOMAIN m.links \union links
                /\ DrawnOK(d)
                /\ \A n \in DOMAIN d.color : d.color[n] = "mana" =>
                     n \in DOMAIN m.color /\ m.color[n] = "mana"
            BY <2>2, <4>1, <5>1, DrawingLinks
          <5> QED
            BY <5>2 DEF links
        <4> QED
          BY <4>2
      <3>2. CASE ~Displayed(m, v)
        BY <2>2, <3>2 DEF Displayed, SameData, SameChoice, SameColoring
      <3> QED
        BY <3>1, <3>2
    <2> HIDE DEF d
    <2>4. /\ \A n \in DOMAIN r : DOMAIN r[n] = {"in", "out"}
          /\ Links(r) = Links(nb) \union {<<a, b>>}
      <3>1. \A n \in DOMAIN nb : DOMAIN nb[n] = {"in", "out"}
        BY <1>3, <2>2, <2>3 DEF NetworksOK, SameData
      <3>2. r = Connected(nb, a, b)
        OBVIOUS
      <3> HIDE DEF nb, r
      <3> QED
        BY <3>1, <3>2, ConnectedLinks
    <2> HIDE DEF r
    <2>5. /\ DOMAIN u = Fields /\ u.versions = m.versions /\ u.nodes = m.nodes
          /\ u.connections = [m.connections EXCEPT ![v] = @ \union {<<a, b>>}]
          /\ u.neighbors = [m.neighbors EXCEPT ![v] = r]
          /\ SameChoice(m, u) /\ SameColoring(m, u)
          /\ u.graph = m.graph /\ u.graphics = m.graphics
          /\ u.links = d.links /\ u.color = d.color
      BY <2>2, <2>3 DEF Fields, SameData, SameChoice, SameColoring
    <2> HIDE DEF u
    <2>6. NetworksOK(u)
      <3>1. /\ DOMAIN u = Fields /\ DOMAIN u.neighbors = Network
            /\ u.nodes \in [Network -> SUBSET Peer]
            /\ u.connections \in [Network -> SUBSET (Peer \X Peer)]
            /\ u.nodes[0] = {}
        BY <1>3, <2>2, <2>5, VersionsAreNumbers DEF NetworksOK
      <3>2. /\ u.neighbors[v] = r /\ u.connections[v] = m.connections[v] \union {<<a, b>>}
            /\ u.nodes[v] # {} /\ m.connections[v] = Links(nb)
        BY <1>3, <1>5, <2>2, <2>3, <2>5 DEF NetworksOK, SameData
      <3>3. ASSUME NEW w \in Network
            PROVE  /\ \A k \in DOMAIN u.neighbors[w] :
                        DOMAIN u.neighbors[w][k] = {"in", "out"}
                   /\ u.connections[w] = Links(u.neighbors[w])
                   /\ u.nodes[w] = {} => u.connections[w] = {}
        <4>1. CASE w = v
          BY <2>4, <3>2, <4>1
        <4>2. CASE w # v
          <5>1. /\ \A k \in DOMAIN m.neighbors[w] : DOMAIN m.neighbors[w][k] = {"in", "out"}
                /\ m.connections[w] = Links(m.neighbors[w])
                /\ m.nodes[w] = {} => m.connections[w] = {}
            BY <2>2 DEF NetworksOK
          <5>2. /\ u.neighbors[w] = m.neighbors[w] /\ u.connections[w] = m.connections[w]
                /\ u.nodes[w] = m.nodes[w]
            BY <2>2, <2>5, <4>2 DEF NetworksOK
          <5> QED
            BY <5>1, <5>2
        <4> QED
          BY <4>1, <4>2
      <3> QED
        BY <3>1, <3>3, Zenon DEF NetworksOK
    <2>7. VersionsOK(u)
      BY <2>2, <2>5 DEF VersionsOK
    <2>8. DrawnOK(u)
      BY <2>3, <2>5 DEF DrawnOK, SameData, SameChoice
    <2>9. ColorsOK(u)
      BY <2>2, <2>3, <2>5 DEF ColorsOK, SameColoring
    <2>10. ChoiceOK(u)
      BY <2>2, <2>5 DEF ChoiceOK, SameChoice, AutoSelectNetwork
    <2>11. u.graph /\ u.selected = v => <<a, b>> \in DOMAIN u.links
      BY <2>3, <2>5 DEF SameChoice
    <2>12. GraphKept(s, u, {})
      <3>1. \A w \in Network : u.selected = w /\ w # v => u.connections[w] = m.connections[w]
        BY <2>2, <2>5 DEF NetworksOK
      <3>2. u.selected \in Network
        BY <2>10, SelectedIsNetwork
      <3>3. u.connections[v] = m.connections[v] \union {<<a, b>>}
        BY <1>3, <2>2, <2>5 DEF NetworksOK
      <3>4. DOMAIN m.links \subseteq DOMAIN u.links /\ u.selected = m.selected
        BY <2>3, <2>5 DEF SameChoice
      <3>5. CASE m.connections[m.selected] \subseteq DOMAIN m.links
        BY <2>5, <2>11, <3>1, <3>2, <3>3, <3>4, <3>5 DEF GraphKept
      <3>6. CASE ~(m.connections[m.selected] \subseteq DOMAIN m.links)
        BY <1>1, <2>5, <3>4, <3>6 DEF GraphKept
      <3> QED
        BY <3>5, <3>6
    <2>13. u.connections = [s.connections EXCEPT ![v] = @ \union {<<a, b>>}]
      BY <1>1, <2>5
    <2>14. \/ s.nodes[v] # {} /\ u.nodes = s.nodes
           \/ s.nodes[v] = {} /\ u.nodes = [s.nodes EXCEPT ![v] = {a, b}]
      BY <1>1, <2>5
    <2> QED
      BY <1>5, <2>1, <2>5, <2>6, <2>7, <2>8, <2>9, <2>10, <2>11, <2>12, <2>13, <2>14
         DEF StoreOK, ViewOK
  <1> QED
    BY <1>4, <1>5

Disconnects(s, v, a, b, t) ==
  /\ StoreOK(t) /\ t.nodes = s.nodes
  /\ \/ t = s /\ s.graph /\ s.selected = v /\ <<a, b>> \notin DOMAIN s.links
     \/ /\ t.connections = [s.connections EXCEPT ![v] = @ \ {<<a, b>>}]
        /\ \/ s.selected = v /\ GraphKept(s, t, {<<a, b>>})
           \/ s.selected # v /\ GraphKept(s, t, {})

LEMMA DisconnectKeeps ==
  ASSUME NEW s, StoreOK(s), NEW v \in Version, NEW a \in Peer, NEW b \in Peer, a # b,
         NEW t, t = OnDisconnectNodes(s, v, a, b)
  PROVE  Disconnects(s, v, a, b, t)
  <1> SUFFICES /\ StoreOK(t) /\ t.nodes = s.nodes
               /\ \/ t = s /\ s.graph /\ s.selected = v /\ <<a, b>> \notin DOMAIN s.links
                  \/ /\ t.connections = [s.connections EXCEPT ![v] = @ \ {<<a, b>>}]
                     /\ \/ s.selected = v /\ GraphKept(s, t, {<<a, b>>})
                        \/ s.selected # v /\ GraphKept(s, t, {})
    BY DEF Disconnects
  <1> DEFINE link == <<a, b>>
             e == IF Displayed(s, v) THEN [s EXCEPT !.links = @ (-) SetToBag({link})] ELSE s
             d == [e EXCEPT !.connections[v] = @ \ {link}]
             nb == s.neighbors[v]
             u1 == [d EXCEPT !.neighbors[v][a].out = @ \ {b}]
             u2 == [d EXCEPT !.neighbors[v][a].out = @ \ {b}, !.neighbors[v][b].in = @ \ {a}]
  <1>0. /\ DOMAIN s = Fields /\ v \in Network /\ v \in DOMAIN s.nodes
        /\ NetworksOK(s) /\ VersionsOK(s) /\ DrawnOK(s) /\ ColorsOK(s) /\ ChoiceOK(s)
    BY DEF StoreOK, ViewOK, NetworksOK, Network
  <1>1. \/ t = s /\ Displayed(s, v) /\ link \notin DOMAIN s.links
        \/ t = d /\ a \notin DOMAIN nb
        \/ t = u1 /\ a \in DOMAIN nb /\ b \notin DOMAIN nb
        \/ t = u2 /\ a \in DOMAIN nb /\ b \in DOMAIN nb
    BY DEF OnDisconnectNodes, BagIn, BagToSet
  <1>2. /\ SameData(s, e) /\ SameChoice(s, e) /\ SameColoring(s, e)
        /\ e.graph = s.graph /\ e.graphics = s.graphics /\ e.color = s.color
        /\ \A l \in DOMAIN e.links : l \in DOMAIN s.links /\ e.links[l] \in Nat \ {0}
        /\ DOMAIN s.links \ {link} \subseteq DOMAIN e.links
        /\ s.selected # v => e = s
    <2>1. CASE Displayed(s, v)
      <3> DEFINE bag == s.links (-) SetToBag({link})
      <3>1. /\ \A l \in DOMAIN bag : l \in DOMAIN s.links /\ bag[l] \in Nat \ {0}
            /\ DOMAIN s.links \ {link} \subseteq DOMAIN bag
        BY <1>0 DEF (-), SetToBag, DrawnOK
      <3>2. e = [s EXCEPT !.links = bag]
        BY <2>1
      <3> HIDE DEF bag, e
      <3> QED
        BY <1>0, <2>1, <3>1, <3>2 DEF Fields, SameData, SameChoice, SameColoring, Displayed
    <2>2. CASE ~Displayed(s, v)
      BY <1>0, <2>2 DEF SameData, SameChoice, SameColoring, DrawnOK
    <2> QED
      BY <2>1, <2>2
  <1> HIDE DEF e
  <1>3. /\ DOMAIN d = Fields /\ d.versions = s.versions /\ d.nodes = s.nodes
        /\ d.connections = [s.connections EXCEPT ![v] = @ \ {link}]
        /\ d.neighbors = s.neighbors
        /\ SameChoice(s, d) /\ SameColoring(s, d)
        /\ d.graph = s.graph /\ d.graphics = s.graphics
        /\ d.links = e.links /\ d.color = s.color
    BY <1>2 DEF Fields, SameData, SameChoice, SameColoring
  <1> HIDE DEF d
  <1>4. CASE t = s /\ Displayed(s, v) /\ link \notin DOMAIN s.links
    BY <1>4 DEF Displayed
  <1>5. CASE ~(t = s /\ Displayed(s, v) /\ link \notin DOMAIN s.links)
    <2>1. \A n \in DOMAIN nb : DOMAIN nb[n] = {"in", "out"}
      BY <1>0 DEF NetworksOK
    <2>2. PICK r : /\ DOMAIN t = Fields /\ t.versions = s.versions /\ t.nodes = s.nodes
                   /\ t.connections = [s.connections EXCEPT ![v] = @ \ {link}]
                   /\ DOMAIN t.neighbors = Network /\ t.neighbors[v] = r
                   /\ \A w \in Network : w # v => t.neighbors[w] = s.neighbors[w]
                   /\ SameChoice(s, t) /\ SameColoring(s, t)
                   /\ t.graph = s.graph /\ t.graphics = s.graphics
                   /\ t.links = e.links /\ t.color = s.color
                   /\ DOMAIN r = DOMAIN nb
                   /\ \A n \in DOMAIN nb : /\ DOMAIN r[n] = {"in", "out"}
                                           /\ n = a => r[n].out = nb[n].out \ {b}
                                           /\ n # a => r[n].out = nb[n].out
      <3>1. CASE t = d /\ a \notin DOMAIN nb
        BY <1>0, <1>3, <2>1, <3>1 DEF NetworksOK
      <3>2. CASE t = u1 /\ a \in DOMAIN nb /\ b \notin DOMAIN nb
        <4> DEFINE r == [nb EXCEPT ![a].out = @ \ {b}]
        <4>1. u1 = [d EXCEPT !.neighbors = [s.neighbors EXCEPT ![v] = r]]
          BY <1>3
        <4>2. /\ DOMAIN r = DOMAIN nb
              /\ \A n \in DOMAIN nb : /\ DOMAIN r[n] = {"in", "out"}
                                      /\ n = a => r[n].out = nb[n].out \ {b}
                                      /\ n # a => r[n].out = nb[n].out
          BY <2>1, <3>2
        <4> HIDE DEF r
        <4>3. /\ DOMAIN u1 = Fields /\ u1.versions = s.versions /\ u1.nodes = s.nodes
              /\ u1.connections = [s.connections EXCEPT ![v] = @ \ {link}]
              /\ u1.neighbors = [s.neighbors EXCEPT ![v] = r]
              /\ SameChoice(s, u1) /\ SameColoring(s, u1)
              /\ u1.graph = s.graph /\ u1.graphics = s.graphics
              /\ u1.links = e.links /\ u1.color = s.color
          BY <1>3, <4>1 DEF Fields, SameChoice, SameColoring
        <4>4. /\ DOMAIN u1.neighbors = Network /\ u1.neighbors[v] = r
              /\ \A w \in Network : w # v => u1.neighbors[w] = s.neighbors[w]
          BY <1>0, <4>3 DEF NetworksOK
        <4> HIDE DEF u1
        <4> QED
          BY <3>2, <4>2, <4>3, <4>4
      <3>3. CASE t = u2 /\ a \in DOMAIN nb /\ b \in DOMAIN nb
        <4> DEFINE r1 == [nb EXCEPT ![a].out = @ \ {b}]
                   r == [r1 EXCEPT ![b].in = @ \ {a}]
                   neighbors1 == [s.neighbors EXCEPT ![v] = r1]
                   neighbors2 == [neighbors1 EXCEPT ![v] = r]
        <4>1. u1 = [d EXCEPT !.neighbors = neighbors1]
          BY <1>3
        <4>5. u2 = [u1 EXCEPT !.neighbors[v][b].in = @ \ {a}]
          OBVIOUS
        <4>6. DOMAIN d = Fields /\ "neighbors" \in Fields
          BY <1>3 DEF Fields
        <4>7. /\ DOMAIN u1 = Fields /\ u1.neighbors = neighbors1 /\ neighbors1[v] = r1
              /\ \A f \in Fields : f # "neighbors" => u1[f] = d[f]
          BY <1>0, <4>1, <4>6 DEF NetworksOK
        <4> HIDE DEF u1, u2, neighbors1, r1
        <4>8. u2 = [u1 EXCEPT !.neighbors = neighbors2]
          BY <4>5, <4>7
        <4>2. /\ DOMAIN r = DOMAIN nb
              /\ \A n \in DOMAIN nb : /\ DOMAIN r[n] = {"in", "out"}
                                      /\ n = a => r[n].out = nb[n].out \ {b}
                                      /\ n # a => r[n].out = nb[n].out
          BY <2>1, <3>3 DEF r1
        <4> HIDE DEF r, neighbors2
        <4>3. /\ DOMAIN u2 = Fields /\ u2.versions = s.versions /\ u2.nodes = s.nodes
              /\ u2.connections = [s.connections EXCEPT ![v] = @ \ {link}]
              /\ u2.neighbors = neighbors2
              /\ SameChoice(s, u2) /\ SameColoring(s, u2)
              /\ u2.graph = s.graph /\ u2.graphics = s.graphics
              /\ u2.links = e.links /\ u2.color = s.color
          BY <1>3, <4>7, <4>8 DEF Fields, SameChoice, SameColoring
        <4>4. /\ DOMAIN u2.neighbors = Network /\ u2.neighbors[v] = r
              /\ \A w \in Network : w # v => u2.neighbors[w] = s.neighbors[w]
          BY <1>0, <4>3 DEF NetworksOK, neighbors1, neighbors2
        <4> QED
          BY <3>3, <4>2, <4>3, <4>4
      <3> HIDE DEF u1, u2
      <3> QED
        BY <1>1, <1>5, <3>1, <3>2, <3>3
    <2> HIDE DEF nb, link
    <2>3. Links(r) = Links(nb) \ {link}
      <3>1. \A x, y : <<x, y>> \in Links(r) <=> <<x, y>> \in Links(nb) /\ ~(x = a /\ y = b)
        <4> TAKE x, y
        <4>1. /\ <<x, y>> \in Links(r) <=> x \in DOMAIN r /\ y \in r[x].out
              /\ <<x, y>> \in Links(nb) <=> x \in DOMAIN nb /\ y \in nb[x].out
          BY LinksMembers
        <4> QED
          BY <2>2, <4>1
      <3>2. \A l \in Links(r) \union Links(nb) : l = <<l[1], l[2]>>
        BY DEF Links
      <3>3. \A l : l \in Links(r) <=> l \in Links(nb) \ {link}
        BY <3>1, <3>2 DEF link
      <3> QED
        BY <3>3
    <2>4. NetworksOK(t)
      <3>1. /\ DOMAIN t = Fields /\ DOMAIN t.neighbors = Network
            /\ t.nodes \in [Network -> SUBSET Peer]
            /\ t.connections \in [Network -> SUBSET (Peer \X Peer)]
            /\ t.nodes[0] = {}
        BY <1>0, <2>2 DEF NetworksOK
      <3>2. /\ t.connections[v] = s.connections[v] \ {link} /\ s.connections[v] = Links(nb)
            /\ s.nodes[v] = {} => s.connections[v] = {}
        BY <1>0, <2>2 DEF NetworksOK, nb
      <3>3. ASSUME NEW w \in Network
            PROVE  /\ \A k \in DOMAIN t.neighbors[w] :
                        DOMAIN t.neighbors[w][k] = {"in", "out"}
                   /\ t.connections[w] = Links(t.neighbors[w])
                   /\ t.nodes[w] = {} => t.connections[w] = {}
        <4>1. CASE w = v
          BY <2>2, <2>3, <3>2, <4>1
        <4>2. CASE w # v
          <5>1. /\ \A k \in DOMAIN s.neighbors[w] : DOMAIN s.neighbors[w][k] = {"in", "out"}
                /\ s.connections[w] = Links(s.neighbors[w])
                /\ s.nodes[w] = {} => s.connections[w] = {}
            BY <1>0 DEF NetworksOK
          <5>2. /\ t.neighbors[w] = s.neighbors[w] /\ t.connections[w] = s.connections[w]
                /\ t.nodes[w] = s.nodes[w]
            BY <1>0, <2>2, <4>2 DEF NetworksOK
          <5> QED
            BY <5>1, <5>2
        <4> QED
          BY <4>1, <4>2
      <3> QED
        BY <3>1, <3>3, Zenon DEF NetworksOK
    <2>5. VersionsOK(t) /\ ColorsOK(t)
      BY <1>0, <2>2 DEF VersionsOK, ColorsOK, SameColoring
    <2>6. DrawnOK(t)
      BY <1>0, <1>2, <2>2 DEF DrawnOK, SameChoice
    <2>7. ChoiceOK(t)
      BY <1>0, <2>2 DEF ChoiceOK, SameChoice, AutoSelectNetwork
    <2>8. \/ s.selected = v /\ GraphKept(s, t, {link})
          \/ s.selected # v /\ GraphKept(s, t, {})
      BY <1>2, <2>2 DEF GraphKept, SameChoice
    <2> QED
      BY <2>2, <2>4, <2>5, <2>6, <2>7, <2>8 DEF StoreOK, ViewOK, link
  <1> QED
    BY <1>4, <1>5

-----------------------------------------------------------------------------
(* The page and its user: the networks of the store stay as they are.      *)
LEMMA TimerKeeps ==
  ASSUME NEW s, StoreOK(s), NEW t,
         t = UpdateNodeColoring(s) \/ \E n : t = HandleNodeSelection(s, n)
  PROVE  StoreOK(t) /\ SameData(s, t) /\ GraphKept(s, t, {})
  <1>1. Recolored(s, t)
    BY UpdateRecolors, SelectRecolors DEF StoreOK, NetworksOK
  <1> QED
    BY <1>1, RecoloringKeeps DEF Recolored

LEMMA MountKeeps ==
  ASSUME NEW s, StoreOK(s), NEW t, t = StartGraph(s) \/ t = StopGraph(s)
  PROVE  StoreOK(t) /\ SameData(s, t) /\ GraphKept(s, t, {})
  <1>0. DOMAIN s = Fields
    BY DEF StoreOK, NetworksOK
  <1>1. CASE t = StartGraph(s)
    <2>1. Started(s, t)
      BY <1>0, <1>1, StartStarts
    <2>2. VersionsOK(t)
      BY <2>1 DEF Started, SameData, StoreOK, VersionsOK
    <2> QED
      BY <2>1, <2>2, StartingShows DEF Started, StoreOK, ViewOK
  <1>2. CASE t = StopGraph(s)
    <2>1. /\ SameData(s, t) /\ SameChoice(s, t) /\ SameColoring(s, t)
          /\ t.graph = FALSE /\ DOMAIN t.links = {} /\ DOMAIN t.color = {}
      BY <1>0, <1>2 DEF StopGraph, Fields, SameData, SameChoice, SameColoring, EmptyBag, SetToBag
    <2>2. NetworksOK(t) /\ VersionsOK(t)
      BY <2>1 DEF SameData, StoreOK, NetworksOK, VersionsOK
    <2>3. DrawnOK(t) /\ ColorsOK(t)
      BY <2>1 DEF DrawnOK, ColorsOK
    <2>4. ChoiceOK(t)
      BY <2>1 DEF SameData, SameChoice, StoreOK, ViewOK, ChoiceOK, AutoSelectNetwork
    <2> QED
      BY <2>1, <2>2, <2>3, <2>4 DEF StoreOK, ViewOK, GraphKept
  <1> QED
    BY <1>1, <1>2

LEMMA SelectVersionKeeps ==
  ASSUME NEW s, StoreOK(s), NEW v \in s.versions, NEW t, t = HandleVersionSelection(s, v)
  PROVE  StoreOK(t) /\ SameData(s, t) /\ GraphKept(s, t, {})
  <1> DEFINE u == [s EXCEPT !.userSelected = v]
             c == ClearNodeSelection(u, TRUE)
             d == [c EXCEPT !.selected = v]
  <1>0. /\ DOMAIN s = Fields /\ v \in Version /\ v # 0
        /\ NetworksOK(s) /\ VersionsOK(s) /\ DrawnOK(s) /\ ColorsOK(s) /\ ChoiceOK(s)
    BY VersionsAreNumbers DEF StoreOK, ViewOK, NetworksOK, ChoiceOK
  <1>1. t = IF s.selected = v THEN u ELSE StartGraph(StopGraph(d))
    BY DEF HandleVersionSelection
  <1>2. /\ SameData(s, u) /\ SameGraph(s, u) /\ SameColoring(s, u) /\ u.color = s.color
        /\ u.selected = s.selected /\ u.userSelected = v
    BY <1>0 DEF Fields, SameData, SameGraph, SameColoring
  <1> HIDE DEF u
  <1>3. CASE s.selected = v
    <2>1. NetworksOK(u) /\ VersionsOK(u) /\ DrawnOK(u) /\ ColorsOK(u)
      BY <1>0, <1>2 DEF SameData, SameGraph, SameColoring, NetworksOK, VersionsOK, DrawnOK, ColorsOK
    <2>2. ChoiceOK(u) /\ GraphKept(s, u, {})
      BY <1>0, <1>2, <1>3 DEF SameData, SameGraph, ChoiceOK, GraphKept
    <2> QED
      BY <1>1, <1>2, <1>3, <2>1, <2>2 DEF StoreOK, ViewOK
  <1>4. CASE s.selected # v
    <2>1. Recolored(u, c)
      BY <1>2, ClearRecolors DEF SameData
    <2> HIDE DEF c
    <2>2. /\ SameData(s, d) /\ d.selected = v /\ d.userSelected = v
      BY <1>2, <2>1 DEF Recolored, SameData, SameChoice, Fields
    <2> HIDE DEF d
    <2>3. Started(d, t)
      BY <1>1, <1>4, <2>2, RestartStarts DEF SameData
    <2>4. NetworksOK(d) /\ ChoiceOK(d)
      BY <1>0, <2>2 DEF SameData, NetworksOK, ChoiceOK
    <2>5. NetworksOK(t) /\ ViewOK(t)
      BY <2>3, <2>4, StartingShows
    <2>6. t.connections[t.selected] \subseteq DOMAIN t.links
      BY <2>3, <2>4, SelectedIsNetwork DEF Started, SameData, SameChoice, NetworksOK
    <2>7. SameData(s, t)
      BY <2>2, <2>3 DEF Started, SameData
    <2>8. VersionsOK(t)
      BY <1>0, <2>7 DEF SameData, VersionsOK
    <2> QED
      BY <2>5, <2>6, <2>7, <2>8 DEF StoreOK, GraphKept
  <1> QED
    BY <1>3, <1>4

LEMMA ColoringKeeps ==
  ASSUME NEW s, StoreOK(s), NEW checked \in BOOLEAN, NEW t, t = HandleManaColoringChange(s, checked)
  PROVE  StoreOK(t) /\ SameData(s, t) /\ GraphKept(s, t, {})
  <1> DEFINE u == [s EXCEPT !.manaColoringActive = checked]
  <1>0. /\ DOMAIN s = Fields
        /\ NetworksOK(s) /\ VersionsOK(s) /\ DrawnOK(s) /\ ColorsOK(s) /\ ChoiceOK(s)
    BY DEF StoreOK, ViewOK, NetworksOK
  <1>1. t = IF checked = s.manaColoringActive THEN s
            ELSE IF checked THEN UpdateNodeColoring(u) ELSE DisableNodeColoring(u)
    BY DEF HandleManaColoringChange
  <1>2. /\ SameData(s, u) /\ SameGraph(s, u) /\ SameChoice(s, u) /\ u.color = s.color
        /\ u.nodeManaColors = s.nodeManaColors /\ u.manaColoringActive = checked
    BY <1>0 DEF Fields, SameData, SameGraph, SameChoice
  <1> HIDE DEF u
  <1>3. NetworksOK(u) /\ VersionsOK(u) /\ DrawnOK(u) /\ ChoiceOK(u) /\ GraphKept(s, u, {})
    <2>1. NetworksOK(u) /\ VersionsOK(u)
      BY <1>0, <1>2 DEF SameData, NetworksOK, VersionsOK
    <2>2. DrawnOK(u) /\ GraphKept(s, u, {})
      BY <1>0, <1>2 DEF SameData, SameGraph, SameChoice, DrawnOK, GraphKept
    <2>3. ChoiceOK(u)
      BY <1>0, <1>2 DEF SameData, SameChoice, ChoiceOK, AutoSelectNetwork
    <2> QED
      BY <2>1, <2>2, <2>3
  <1>4. CASE checked = s.manaColoringActive
    BY <1>0, <1>1, <1>4 DEF SameData, GraphKept
  <1>5. CASE checked # s.manaColoringActive /\ checked
    <2>1. ColorsOK(u)
      BY <1>0, <1>2, <1>5 DEF ColorsOK
    <2>2. t = UpdateNodeColoring(u) /\ StoreOK(u)
      BY <1>1, <1>3, <1>5, <2>1 DEF StoreOK, ViewOK
    <2>3. StoreOK(t) /\ SameData(u, t) /\ GraphKept(u, t, {})
      BY <2>2, TimerKeeps
    <2>4. SameData(s, t) /\ t.connections = u.connections
      BY <1>2, <2>3 DEF SameData
    <2> QED
      BY <1>3, <2>3, <2>4, GraphKeptAgain
  <1>6. CASE checked # s.manaColoringActive /\ ~checked
    <2>1. t = DisableNodeColoring(u)
      BY <1>1, <1>6
    <2>2. CASE ~u.graphics
      <3>1. t = u /\ ColorsOK(u)
        BY <1>3, <2>1, <2>2 DEF DisableNodeColoring, DrawnOK, ColorsOK
      <3> QED
        BY <1>2, <1>3, <3>1 DEF StoreOK, ViewOK
    <2>3. CASE u.graphics
      <3> DEFINE colors == [n \in DOMAIN u.color |->
                              IF n \in u.nodeManaColors THEN "default" ELSE u.color[n]]
      <3>1. t = [u EXCEPT !.color = colors]
        BY <2>1, <2>3 DEF DisableNodeColoring
      <3>2. DOMAIN colors = DOMAIN u.color /\ \A n \in DOMAIN colors : colors[n] # "mana"
        BY <1>0, <1>2 DEF ColorsOK
      <3> HIDE DEF colors
      <3>3. /\ SameData(u, t) /\ SameGraph(u, t) /\ SameChoice(u, t) /\ t.color = colors
        BY <1>2, <3>1, <3>2 DEF Fields, SameData, SameGraph, SameChoice
      <3>4. NetworksOK(t) /\ VersionsOK(t) /\ ColorsOK(t)
        BY <1>3, <3>2, <3>3 DEF SameData, NetworksOK, VersionsOK, ColorsOK
      <3>5. DrawnOK(t) /\ GraphKept(s, t, {})
        BY <1>3, <3>3 DEF SameData, SameGraph, SameChoice, DrawnOK, GraphKept
      <3>6. ChoiceOK(t)
        BY <1>3, <3>3 DEF SameData, SameChoice, ChoiceOK, AutoSelectNetwork
      <3>7. SameData(s, t)
        BY <1>2, <3>3 DEF SameData
      <3> QED
        BY <3>4, <3>5, <3>6, <3>7 DEF StoreOK, ViewOK
    <2> QED
      BY <2>2, <2>3
  <1> QED
    BY <1>4, <1>5, <1>6

LEMMA RichestKeeps ==
  ASSUME NEW s, StoreOK(s), NEW nodes, NEW t, t = [s EXCEPT !.nodeManaColors = @ \union nodes]
  PROVE  StoreOK(t) /\ SameData(s, t) /\ GraphKept(s, t, {})
  <1>1. /\ SameData(s, t) /\ SameGraph(s, t) /\ SameChoice(s, t) /\ t.color = s.color
        /\ t.nodeManaColors = s.nodeManaColors \union nodes
        /\ t.manaColoringActive = s.manaColoringActive
    BY DEF Fields, SameData, SameGraph, SameChoice, StoreOK, NetworksOK
  <1>2. NetworksOK(t) /\ VersionsOK(t)
    BY <1>1 DEF StoreOK, SameData, NetworksOK, VersionsOK
  <1>3. DrawnOK(t) /\ GraphKept(s, t, {})
    BY <1>1 DEF StoreOK, ViewOK, SameData, SameGraph, SameChoice, DrawnOK, GraphKept
  <1>4. ChoiceOK(t) /\ ColorsOK(t)
    BY <1>1 DEF StoreOK, ViewOK, SameData, SameChoice, ChoiceOK, ColorsOK, AutoSelectNetwork
  <1> QED
    BY <1>1, <1>2, <1>3, <1>4 DEF StoreOK, ViewOK
-----------------------------------------------------------------------------
(* The feed.  Networks share no data, so each is followed on its own.  A   *)
(* client that is told the events of a network in their order follows the  *)
(* maps the server had of it: r[1] is the one the client has reached, F    *)
(* the events that lead from there to the map the server has by now.       *)
EventSet ==
  {e \in [type : {"addNode", "removeNode", "connectNodes", "disconnectNodes"},
          network : Version, source : Peer, target : Peer] :
     e.type \in {"connectNodes", "disconnectNodes"} => e.source # e.target}
EventsOf(v) == {e \in EventSet : e.network = v}

Leads(m, e, m2) ==
  LET link == <<e.source, e.target>>
      Becomes(nodes, links) == m2.nodes = nodes /\ m2.links = links
  IN  \/ /\ e.type = "addNode" /\ e.source \notin m.nodes
         /\ Becomes(m.nodes \union {e.source}, m.links)
      \/ /\ e.type = "removeNode" /\ e.source \in m.nodes
         /\ \A l \in m.links : e.source \notin {l[1], l[2]}
         /\ Becomes(m.nodes \ {e.source}, m.links)
      \/ /\ e.type = "connectNodes" /\ link \notin m.links
         /\ {e.source, e.target} \subseteq m.nodes
         /\ Becomes(m.nodes, m.links \union {link})
      \/ /\ e.type = "disconnectNodes" /\ link \in m.links
         /\ Becomes(m.nodes, m.links \ {link})

Maps(r, F, m) ==
  /\ r \in [1..(Len(F) + 1) -> NetworkMap]
  /\ \A i \in 1..Len(F) : Leads(r[i], F[i], r[i + 1])
  /\ r[Len(F) + 1] = m

(* No event that is still to come is about the node, or the link.          *)
NodeSteady(r, n) == \A i \in DOMAIN r : n \in r[i].nodes <=> n \in r[1].nodes
LinkSteady(r, a, b) ==
  \A i \in DOMAIN r : <<a, b>> \in r[i].links <=> <<a, b>> \in r[1].links

(* Of the network v the store s, with what is still to be replayed to it,  *)
(* knows right of what is steady.  It may be ahead of the events: a node   *)
(* that is gone in the store is gone in the map if the store still has     *)
(* links of it, and only links that are gone in the map may be missing     *)
(* from the graph.                                                         *)
KnowsNodes(r, s, v, rest) ==
  \A n \in Peer : NodeSteady(r, n) =>
    (n \in s.nodes[v] \/ Event("addNode", v, n, n) \in rest <=> n \in r[1].nodes)

KnowsLinks(r, s, v, rest) ==
  \A a, b \in Peer : LinkSteady(r, a, b) =>
    (<<a, b>> \in s.connections[v] \/ Event("connectNodes", v, a, b) \in rest
       <=> <<a, b>> \in r[1].links)

LosesNodesInOrder(r, s, v) ==
  \A a, b \in Peer : <<a, b>> \in s.connections[v] =>
    \A n \in {a, b} : n \notin s.nodes[v] => n \notin r[1].nodes

DrawsLinks(r, s, v) ==
  \A a, b \in Peer :
    s.graph /\ s.selected = v /\ <<a, b>> \in s.connections[v] /\ <<a, b>> \in r[1].links
      => <<a, b>> \in DOMAIN s.links

Follows(r, s, v, rest) ==
  /\ KnowsNodes(r, s, v, rest) /\ KnowsLinks(r, s, v, rest)
  /\ LosesNodesInOrder(r, s, v) /\ DrawsLinks(r, s, v)

(* Links are replayed with their nodes.                                    *)
ReplayOK(s, rest) ==
  /\ rest \subseteq EventSet
  /\ \A e \in rest : e.type \in {"addNode", "connectNodes"}
  /\ \A e \in rest : e.type = "addNode" => e.target = e.source
  /\ \A e \in rest : e.type = "connectNodes" => \A n \in {e.source, e.target} :
       n \in s.nodes[e.network] \/ Event("addNode", e.network, n, n) \in rest

(* A link of a map has its nodes.                                          *)
LEMMA MapFacts ==
  ASSUME NEW m \in NetworkMap
  PROVE  /\ m.nodes \subseteq Peer /\ m.links \subseteq Peer \X Peer
         /\ \A l \in m.links : l[1] # l[2] /\ l[1] \in m.nodes /\ l[2] \in m.nodes
         /\ \A a, b : <<a, b>> \in m.links => a # b /\ a \in m.nodes /\ b \in m.nodes
  <1>1. /\ m \in [nodes : SUBSET Peer, links : SUBSET (Peer \X Peer)]
        /\ \A l \in m.links : l[1] # l[2] /\ l[1] \in m.nodes /\ l[2] \in m.nodes
    BY DEF NetworkMap
  <1>2. \A a, b : <<a, b>> \in m.links => a # b /\ a \in m.nodes /\ b \in m.nodes
    BY <1>1
  <1> QED
    BY <1>1, <1>2

(* The maps when an event is sent, and when it is received.                *)
LEMMA MapsGrow ==
  ASSUME NEW S, NEW F \in Seq(S), NEW m, NEW r, Maps(r, F, m),
         NEW e \in S, NEW m2 \in NetworkMap, Leads(m, e, m2)
  PROVE  \E q : /\ Maps(q, Append(F, e), m2) /\ q[1] = r[1]
                /\ \A i \in DOMAIN r : i \in DOMAIN q /\ q[i] = r[i]
  <1> DEFINE n == Len(F)
             G == Append(F, e)
             q == [i \in 1..(n + 2) |-> IF i = n + 2 THEN m2 ELSE r[i]]
  <1>1. /\ n \in Nat /\ Len(G) = n + 1 /\ G[n + 1] = e
        /\ \A i \in 1..n : G[i] = F[i]
    BY AppendProperties, LenProperties
  <1> HIDE DEF G
  <1>2. /\ r \in [1..(n + 1) -> NetworkMap] /\ r[n + 1] = m
        /\ \A i \in 1..n : Leads(r[i], F[i], r[i + 1])
    BY DEF Maps
  <1> HIDE DEF n
  <1>3. /\ q \in [1..(n + 2) -> NetworkMap] /\ q[n + 2] = m2 /\ q[n + 1] = m
        /\ \A i \in 1..(n + 1) : i \in 1..(n + 2) /\ q[i] = r[i]
        /\ \A i \in 1..n : q[i + 1] = r[i + 1]
    BY <1>1, <1>2
  <1>4. \A i \in 1..(n + 1) : Leads(q[i], G[i], q[i + 1])
    <2> TAKE i \in 1..(n + 1)
    <2>1. CASE i = n + 1
      <3>1. q[i] = m /\ G[i] = e /\ q[i + 1] = m2
        BY <1>1, <1>3, <2>1
      <3> QED
        BY <3>1
    <2>2. CASE i # n + 1
      <3>1. i \in 1..n
        BY <1>1, <2>2
      <3>2. q[i] = r[i] /\ G[i] = F[i] /\ q[i + 1] = r[i + 1]
        BY <1>1, <1>3, <3>1
      <3> QED
        BY <1>2, <3>1, <3>2
    <2> QED
      BY <2>1, <2>2
  <1>5. (n + 1) + 1 = n + 2 /\ 1 \in 1..(n + 1)
    BY <1>1
  <1> HIDE DEF q
  <1>6. Maps(q, G, m2)
    BY <1>1, <1>3, <1>4, <1>5 DEF Maps
  <1> QED
    BY <1>2, <1>3, <1>5, <1>6 DEF G

(* q is r without its first map.                                           *)
Later(r, q) == q[1] = r[2] /\ \A i \in DOMAIN r : i # 1 => \E j \in DOMAIN q : q[j] = r[i]

LEMMA MapsShrink ==
  ASSUME NEW S, NEW F \in Seq(S), F # <<>>, NEW m, NEW r, Maps(r, F, m)
  PROVE  /\ Tail(F) \in Seq(S) /\ Head(F) = F[1] /\ Head(F) \in S
         /\ r[1] \in NetworkMap /\ r[2] \in NetworkMap /\ Leads(r[1], Head(F), r[2])
         /\ \E q : Maps(q, Tail(F), m) /\ Later(r, q)
  <1> DEFINE n == Len(F)
             G == Tail(F)
             q == [i \in 1..n |-> r[i + 1]]
  <1>1. /\ n \in Nat /\ n # 0 /\ G \in Seq(S) /\ Len(G) = n - 1 /\ Head(F) = F[1] /\ F[1] \in S
        /\ \A i \in 1..(n - 1) : G[i] = F[i + 1]
    BY HeadTailProperties, LenProperties, EmptySeq
  <1> HIDE DEF G
  <1>2. /\ r \in [1..(n + 1) -> NetworkMap] /\ r[n + 1] = m
        /\ \A i \in 1..n : Leads(r[i], F[i], r[i + 1])
    BY DEF Maps
  <1> HIDE DEF n
  <1>3. 1 \in 1..n /\ n \in 1..n /\ 1 + 1 = 2 /\ 1 \in 1..(n + 1) /\ 2 \in 1..(n + 1) /\ (n - 1) + 1 = n
    BY <1>1
  <1>4. q \in [1..n -> NetworkMap] /\ q[n] = m /\ q[1] = r[2]
    BY <1>1, <1>2, <1>3
  <1>5. \A i \in 1..(n - 1) : Leads(q[i], G[i], q[i + 1])
    <2> TAKE i \in 1..(n - 1)
    <2>1. i + 1 \in 1..n /\ i \in 1..n
      BY <1>1
    <2>2. q[i] = r[i + 1] /\ G[i] = F[i + 1] /\ q[i + 1] = r[(i + 1) + 1]
      BY <1>1, <2>1
    <2> QED
      BY <1>2, <2>1, <2>2
  <1>6. \A i \in 1..(n + 1) : i # 1 => \E j \in 1..n : q[j] = r[i]
    <2> SUFFICES ASSUME NEW i \in 1..(n + 1), i # 1 PROVE \E j \in 1..n : q[j] = r[i]
      OBVIOUS
    <2>1. i - 1 \in 1..n /\ (i - 1) + 1 = i
      BY <1>1
    <2>2. q[i - 1] = r[i]
      BY <2>1
    <2> QED
      BY <2>1, <2>2
  <1> HIDE DEF q
  <1>7. Maps(q, G, m)
    BY <1>1, <1>3, <1>4, <1>5 DEF Maps
  <1>8. DOMAIN r = 1..(n + 1) /\ DOMAIN q = 1..n
    BY <1>2, <1>4
  <1>9. Leads(r[1], Head(F), r[2]) /\ r[1] \in NetworkMap /\ r[2] \in NetworkMap
    BY <1>1, <1>2, <1>3
  <1> QED
    BY <1>1, <1>4, <1>6, <1>7, <1>8, <1>9 DEF G, Later

(* The events that were not sent to the client yet, when it is gone.       *)
LEMMA MapsSuffix ==
  ASSUME NEW S, NEW F \in Seq(S), NEW G \in Seq(S), NEW m, NEW r, Maps(r, F \o G, m)
  PROVE  \E q : Maps(q, G, m)
  <1> DEFINE k == Len(F)
             n == Len(G)
             H == F \o G
             q == [i \in 1..(n + 1) |-> r[k + i]]
  <1>1. /\ k \in Nat /\ n \in Nat /\ Len(H) = k + n
        /\ \A i \in 1..(k + n) : H[i] = IF i <= k THEN F[i] ELSE G[i - k]
    BY ConcatProperties, LenProperties
  <1> HIDE DEF H
  <1>2. /\ r \in [1..((k + n) + 1) -> NetworkMap] /\ r[(k + n) + 1] = m
        /\ \A i \in 1..(k + n) : Leads(r[i], H[i], r[i + 1])
    BY <1>1 DEF Maps, H
  <1> HIDE DEF k, n
  <1>3. \A i \in 1..n : /\ k + i \in 1..(k + n) /\ ~(k + i <= k) /\ (k + i) - k = i
                        /\ i \in 1..(n + 1) /\ i + 1 \in 1..(n + 1) /\ (k + i) + 1 = k + (i + 1)
    BY <1>1
  <1>4. \A i \in 1..n : Leads(q[i], G[i], q[i + 1])
    <2> TAKE i \in 1..n
    <2>1. q[i] = r[k + i] /\ q[i + 1] = r[(k + i) + 1] /\ H[k + i] = G[i]
      BY <1>1, <1>3
    <2> QED
      BY <1>2, <1>3, <2>1
  <1>5. n + 1 \in 1..(n + 1) /\ k + (n + 1) = (k + n) + 1
        /\ \A i \in 1..(n + 1) : k + i \in 1..((k + n) + 1)
    BY <1>1
  <1>6. q \in [1..(n + 1) -> NetworkMap] /\ q[n + 1] = m
    BY <1>2, <1>5
  <1> HIDE DEF q
  <1>7. Maps(q, G, m)
    BY <1>4, <1>6 DEF Maps, n
  <1> QED
    BY <1>7

-----------------------------------------------------------------------------
(* What is steady stays so when an event is sent or received; a link that  *)
(* is, and is there, has steady nodes.                                     *)
Sent(r, q) == q[1] = r[1] /\ \A i \in DOMAIN r : i \in DOMAIN q /\ q[i] = r[i]

LEMMA SentFollows ==
  ASSUME NEW r, NEW q, Sent(r, q), NEW s, NEW v, NEW rest, Follows(r, s, v, rest)
  PROVE  Follows(q, s, v, rest)
  <1>1. \A n \in Peer : NodeSteady(q, n) => NodeSteady(r, n)
    BY DEF Sent, NodeSteady
  <1>2. \A a, b \in Peer : LinkSteady(q, a, b) => LinkSteady(r, a, b)
    BY DEF Sent, LinkSteady
  <1>3. KnowsNodes(q, s, v, rest)
    BY <1>1 DEF Sent, Follows, KnowsNodes
  <1>4. KnowsLinks(q, s, v, rest)
    BY <1>2 DEF Sent, Follows, KnowsLinks
  <1>5. LosesNodesInOrder(q, s, v) /\ DrawsLinks(q, s, v)
    BY DEF Sent, Follows, LosesNodesInOrder, DrawsLinks
  <1> QED
    BY <1>3, <1>4, <1>5 DEF Follows

Passed(r, q, e) ==
  /\ r[1] \in NetworkMap /\ r[2] \in NetworkMap /\ Leads(r[1], e, r[2]) /\ q[1] = r[2]
  /\ 1 \in DOMAIN q /\ \A j \in DOMAIN q : q[j] \in NetworkMap
  /\ \A i \in DOMAIN r : i # 1 => \E j \in DOMAIN q : q[j] = r[i]

LEMMA PassedSteady ==
  ASSUME NEW r, NEW q, NEW e, Passed(r, q, e)
  PROVE  /\ \A n \in Peer : NodeSteady(q, n) /\ (n \in r[2].nodes <=> n \in r[1].nodes)
              => NodeSteady(r, n)
         /\ \A a, b \in Peer :
              LinkSteady(q, a, b) /\ (<<a, b>> \in r[2].links <=> <<a, b>> \in r[1].links)
              => LinkSteady(r, a, b)
  <1>1. ASSUME NEW n \in Peer, NodeSteady(q, n), n \in r[2].nodes <=> n \in r[1].nodes
        PROVE  NodeSteady(r, n)
    <2> SUFFICES ASSUME NEW i \in DOMAIN r
                 PROVE  n \in r[i].nodes <=> n \in r[1].nodes
      BY DEF NodeSteady
    <2>1. CASE i = 1
      BY <2>1
    <2>2. CASE i # 1
      <3>1. PICK j \in DOMAIN q : q[j] = r[i]
        BY <2>2 DEF Passed
      <3>2. n \in q[j].nodes <=> n \in q[1].nodes
        BY <1>1 DEF NodeSteady
      <3> QED
        BY <1>1, <3>1, <3>2 DEF Passed
    <2> QED
      BY <2>1, <2>2
  <1>2. ASSUME NEW a \in Peer, NEW b \in Peer, LinkSteady(q, a, b),
               <<a, b>> \in r[2].links <=> <<a, b>> \in r[1].links
        PROVE  LinkSteady(r, a, b)
    <2> SUFFICES ASSUME NEW i \in DOMAIN r
                 PROVE  <<a, b>> \in r[i].links <=> <<a, b>> \in r[1].links
      BY DEF LinkSteady
    <2>1. CASE i = 1
      BY <2>1
    <2>2. CASE i # 1
      <3>1. PICK j \in DOMAIN q : q[j] = r[i]
        BY <2>2 DEF Passed
      <3>2. <<a, b>> \in q[j].links <=> <<a, b>> \in q[1].links
        BY <1>2 DEF LinkSteady
      <3> QED
        BY <1>2, <3>1, <3>2 DEF Passed
    <2> QED
      BY <2>1, <2>2
  <1> QED
    BY <1>1, <1>2

LEMMA SteadyLinkHasNodes ==
  ASSUME NEW q, 1 \in DOMAIN q, \A j \in DOMAIN q : q[j] \in NetworkMap,
         NEW a \in Peer, NEW b \in Peer, LinkSteady(q, a, b), <<a, b>> \in q[1].links
  PROVE  /\ NodeSteady(q, a) /\ a \in q[1].nodes
         /\ NodeSteady(q, b) /\ b \in q[1].nodes
  <1>1. \A j \in DOMAIN q : <<a, b>> \in q[j].links
    BY DEF LinkSteady
  <1>2. \A j \in DOMAIN q : a \in q[j].nodes /\ b \in q[j].nodes
    BY <1>1, MapFacts
  <1> QED
    BY <1>2 DEF NodeSteady

LEMMA KeptLink ==
  ASSUME NEW s, NEW t, NEW gone, GraphKept(s, t, gone), NEW v, t.graph, t.selected = v,
         NEW link \in t.connections[v],
         s.graph /\ s.selected = v => link \in DOMAIN s.links /\ link \notin gone
  PROVE  link \in DOMAIN t.links
  BY DEF GraphKept

(* The page and its user.                                                  *)
LEMMA UserFollows ==
  ASSUME NEW s, NEW t, SameData(s, t), GraphKept(s, t, {}), NEW r, NEW v, NEW rest
  PROVE  /\ Follows(r, s, v, rest) => Follows(r, t, v, rest)
         /\ ReplayOK(s, rest) => ReplayOK(t, rest)
  <1>1. ReplayOK(s, rest) => ReplayOK(t, rest)
    BY DEF SameData, ReplayOK
  <1> SUFFICES ASSUME Follows(r, s, v, rest) PROVE Follows(r, t, v, rest)
    BY <1>1
  <1>2. KnowsNodes(r, t, v, rest) /\ KnowsLinks(r, t, v, rest)
    BY DEF SameData, Follows, KnowsNodes, KnowsLinks
  <1>3. LosesNodesInOrder(r, t, v)
    BY DEF SameData, Follows, LosesNodesInOrder
  <1>4. DrawsLinks(r, t, v)
    BY DEF SameData, Follows, DrawsLinks, GraphKept
  <1> QED
    BY <1>2, <1>3, <1>4 DEF Follows

(* What is replayed or received of another network.                        *)
Apart(s, t, w) ==
  /\ t.nodes[w] = s.nodes[w] /\ t.connections[w] = s.connections[w]
  /\ \E gone : GraphKept(s, t, gone) /\ (s.selected = w => gone = {})

LEMMA OtherFollows ==
  ASSUME NEW s, NEW t, NEW w, Apart(s, t, w), NEW r, NEW rest, NEW after, after \subseteq rest,
         \A e \in rest \ after : e.network # w, Follows(r, s, w, rest)
  PROVE  Follows(r, t, w, after)
  <1>0. /\ t.nodes[w] = s.nodes[w] /\ t.connections[w] = s.connections[w]
        /\ \E gone : GraphKept(s, t, gone) /\ (s.selected = w => gone = {})
    BY DEF Apart
  <1>1. \A type, a, b : Event(type, w, a, b) \in rest <=> Event(type, w, a, b) \in after
    <2>1. \A type, a, b : Event(type, w, a, b).network = w
      BY DEF Event
    <2> QED
      BY <2>1
  <1>2. KnowsNodes(r, t, w, after) /\ KnowsLinks(r, t, w, after)
    BY <1>0, <1>1 DEF Follows, KnowsNodes, KnowsLinks
  <1>3. LosesNodesInOrder(r, t, w)
    BY <1>0 DEF Follows, LosesNodesInOrder
  <1>4. DrawsLinks(r, t, w)
    <2> SUFFICES ASSUME NEW a \in Peer, NEW b \in Peer, t.graph, t.selected = w,
                        <<a, b>> \in t.connections[w], <<a, b>> \in r[1].links
                 PROVE  <<a, b>> \in DOMAIN t.links
      BY DEF DrawsLinks
    <2>1. PICK gone : GraphKept(s, t, gone) /\ (s.selected = w => gone = {})
      BY <1>0
    <2>2. s.graph /\ s.selected = w => <<a, b>> \in DOMAIN s.links /\ <<a, b>> \notin gone
      BY <1>0, <2>1 DEF Follows, DrawsLinks
    <2> QED
      BY <2>1, <2>2, KeptLink
  <1> QED
    BY <1>2, <1>3, <1>4 DEF Follows

-----------------------------------------------------------------------------
(* The replay.                                                             *)
LEMMA EventFields ==
  ASSUME NEW type, NEW v, NEW a, NEW b
  PROVE  /\ Event(type, v, a, b).type = type /\ Event(type, v, a, b).network = v
         /\ Event(type, v, a, b).source = a /\ Event(type, v, a, b).target = b
  BY DEF Event

LEMMA EventOf ==
  ASSUME NEW e \in EventSet
  PROVE  /\ e = Event(e.type, e.network, e.source, e.target)
         /\ e.type \in {"addNode", "removeNode", "connectNodes", "disconnectNodes"}
         /\ e.network \in Version /\ e.source \in Peer /\ e.target \in Peer
         /\ e.type \in {"connectNodes", "disconnectNodes"} => e.source # e.target
  BY DEF EventSet, Event

(* A replayed node is added to its network, and to no other.               *)
LEMMA ReplayedNode ==
  ASSUME NEW s, StoreOK(s), NEW rest, ReplayOK(s, rest),
         NEW v \in Version, NEW n \in Peer, NEW e, e = Event("addNode", v, n, n), e \in rest,
         NEW t, t = OnAddNode(s, v, n)
  PROVE  /\ ReplayOK(t, rest \ {e})
         /\ \A w \in Version : w # v => Apart(s, t, w)
         /\ \A r : Follows(r, s, v, rest) => Follows(r, t, v, rest \ {e})
  <1>1. /\ StoreOK(t) /\ GraphKept(s, t, {}) /\ t.connections = s.connections
        /\ t.nodes = [s.nodes EXCEPT ![v] = @ \union {n}]
    BY AddNodeKeeps
  <1>2. /\ \A w \in Version : w # v => t.nodes[w] = s.nodes[w]
        /\ t.nodes[v] = s.nodes[v] \union {n}
    BY <1>1 DEF StoreOK, NetworksOK, Network
  <1>3. \A w \in Version, x \in Peer :
          x \in t.nodes[w] \/ Event("addNode", w, x, x) \in rest \ {e}
            <=> x \in s.nodes[w] \/ Event("addNode", w, x, x) \in rest
    <2> TAKE w \in Version, x \in Peer
    <2>1. CASE w = v /\ x = n
      BY <1>2, <2>1
    <2>2. CASE ~(w = v /\ x = n)
      <3>1. Event("addNode", w, x, x) # e
        <4>1. e.network = v /\ e.source = n
          BY EventFields
        <4>2. Event("addNode", w, x, x).network = w /\ Event("addNode", w, x, x).source = x
          BY EventFields
        <4> QED
          BY <2>2, <4>1, <4>2
      <3>2. x \in t.nodes[w] <=> x \in s.nodes[w]
        BY <1>2, <2>2
      <3> QED
        BY <3>1, <3>2
    <2> QED
      BY <2>1, <2>2
  <1>4. ASSUME NEW r, Follows(r, s, v, rest) PROVE Follows(r, t, v, rest \ {e})
    <2>1. KnowsNodes(r, t, v, rest \ {e})
      BY <1>3, <1>4 DEF Follows, KnowsNodes
    <2>2. \A a, b \in Peer : Event("connectNodes", v, a, b) # e
      <3> SUFFICES ASSUME NEW a \in Peer, NEW b \in Peer
                   PROVE  Event("connectNodes", v, a, b) # e
        OBVIOUS
      <3>1. Event("connectNodes", v, a, b).type = "connectNodes" /\ e.type = "addNode"
        BY EventFields
      <3> QED
        BY <3>1
    <2>3. KnowsLinks(r, t, v, rest \ {e})
      BY <1>1, <1>4, <2>2 DEF Follows, KnowsLinks
    <2>4. LosesNodesInOrder(r, t, v)
      BY <1>1, <1>2, <1>4 DEF Follows, LosesNodesInOrder
    <2>5. DrawsLinks(r, t, v)
      BY <1>1, <1>4 DEF Follows, DrawsLinks, GraphKept
    <2> QED
      BY <2>1, <2>3, <2>4, <2>5 DEF Follows
  <1>5. ReplayOK(t, rest \ {e})
    <2> SUFFICES ASSUME NEW f \in rest \ {e}, f.type = "connectNodes", NEW x \in {f.source, f.target}
                 PROVE  x \in t.nodes[f.network] \/ Event("addNode", f.network, x, x) \in rest \ {e}
      BY DEF ReplayOK
    <2>1. x \in s.nodes[f.network] \/ Event("addNode", f.network, x, x) \in rest
      BY DEF ReplayOK
    <2>2. f.network \in Version /\ x \in Peer
      BY EventOf DEF ReplayOK
    <2> QED
      BY <1>3, <2>1, <2>2
  <1>6. \A w \in Version : w # v => Apart(s, t, w)
    BY <1>1, <1>2 DEF Apart
  <1> QED
    BY <1>4, <1>5, <1>6

LEMMA ReplayedLink ==
  ASSUME NEW s, StoreOK(s), NEW rest, ReplayOK(s, rest),
         NEW v \in Version, NEW a \in Peer, NEW b \in Peer, a # b,
         NEW e, e = Event("connectNodes", v, a, b), e \in rest,
         {a, b} \subseteq s.nodes[v], NEW t, t = OnConnectNodes(s, v, a, b)
  PROVE  /\ ReplayOK(t, rest \ {e})
         /\ \A w \in Version : w # v => Apart(s, t, w)
         /\ \A r : Follows(r, s, v, rest) => Follows(r, t, v, rest \ {e})
  <1>1. /\ StoreOK(t) /\ GraphKept(s, t, {}) /\ t.nodes = s.nodes
        /\ t.connections = [s.connections EXCEPT ![v] = @ \union {<<a, b>>}]
        /\ t.graph /\ t.selected = v => <<a, b>> \in DOMAIN t.links
    <2>1. s.nodes[v] # {}
      OBVIOUS
    <2>2. Connects(s, v, a, b, t)
      BY ConnectKeeps
    <2> QED
      BY <2>1, <2>2 DEF Connects
  <1>2. /\ \A w \in Version : w # v => t.connections[w] = s.connections[w]
        /\ t.connections[v] = s.connections[v] \union {<<a, b>>}
    BY <1>1 DEF StoreOK, NetworksOK, Network
  <1>3. \A x, y \in Peer :
          <<x, y>> \in t.connections[v] \/ Event("connectNodes", v, x, y) \in rest \ {e}
            <=> <<x, y>> \in s.connections[v] \/ Event("connectNodes", v, x, y) \in rest
    <2> TAKE x, y \in Peer
    <2>1. CASE x = a /\ y = b
      BY <1>2, <2>1
    <2>2. CASE ~(x = a /\ y = b)
      <3>1. Event("connectNodes", v, x, y) # e
        BY <2>2, EventFields
      <3>2. <<x, y>> \in t.connections[v] <=> <<x, y>> \in s.connections[v]
        BY <1>2, <2>2
      <3> QED
        BY <3>1, <3>2
    <2> QED
      BY <2>1, <2>2
  <1>4. \A w \in Version, x \in Peer : Event("addNode", w, x, x) # e
    <2> SUFFICES ASSUME NEW w \in Version, NEW x \in Peer PROVE Event("addNode", w, x, x) # e
      OBVIOUS
    <2>1. Event("addNode", w, x, x).type = "addNode" /\ e.type = "connectNodes"
      BY EventFields
    <2> QED
      BY <2>1
  <1>5. ASSUME NEW r, Follows(r, s, v, rest) PROVE Follows(r, t, v, rest \ {e})
    <2>1. KnowsNodes(r, t, v, rest \ {e})
      BY <1>1, <1>4, <1>5 DEF Follows, KnowsNodes
    <2>2. KnowsLinks(r, t, v, rest \ {e})
      BY <1>3, <1>5 DEF Follows, KnowsLinks
    <2>3. LosesNodesInOrder(r, t, v)
      <3> SUFFICES ASSUME NEW x \in Peer, NEW y \in Peer, <<x, y>> \in t.connections[v],
                          NEW n \in {x, y}, n \notin t.nodes[v]
                   PROVE  n \notin r[1].nodes
        BY DEF LosesNodesInOrder
      <3>1. <<x, y>> \in s.connections[v]
        BY <1>1, <1>2
      <3> QED
        BY <1>1, <1>5, <3>1 DEF Follows, LosesNodesInOrder
    <2>4. DrawsLinks(r, t, v)
      <3> SUFFICES ASSUME NEW x \in Peer, NEW y \in Peer, t.graph, t.selected = v,
                          <<x, y>> \in t.connections[v], <<x, y>> \in r[1].links
                   PROVE  <<x, y>> \in DOMAIN t.links
        BY DEF DrawsLinks
      <3>1. CASE <<x, y>> = <<a, b>>
        BY <1>1, <3>1
      <3>2. CASE <<x, y>> # <<a, b>>
        <4>1. <<x, y>> \in s.connections[v]
          BY <1>2, <3>2
        <4>2. s.graph /\ s.selected = v => <<x, y>> \in DOMAIN s.links /\ <<x, y>> \notin {}
          BY <1>5, <4>1 DEF Follows, DrawsLinks
        <4>3. GraphKept(s, t, {})
          BY <1>1
        <4> QED
          BY <4>2, <4>3, KeptLink
      <3> QED
        BY <3>1, <3>2
    <2> QED
      BY <2>1, <2>2, <2>3, <2>4 DEF Follows
  <1>6. ReplayOK(t, rest \ {e})
    <2> SUFFICES ASSUME NEW f \in rest \ {e}, f.type = "connectNodes", NEW x \in {f.source, f.target}
                 PROVE  x \in t.nodes[f.network] \/ Event("addNode", f.network, x, x) \in rest \ {e}
      BY DEF ReplayOK
    <2>1. x \in s.nodes[f.network] \/ Event("addNode", f.network, x, x) \in rest
      BY DEF ReplayOK
    <2>2. f.network \in Version /\ x \in Peer
      BY EventOf DEF ReplayOK
    <2> QED
      BY <1>1, <1>4, <2>1, <2>2
  <1>7. \A w \in Version : w # v => Apart(s, t, w)
    BY <1>1, <1>2 DEF Apart
  <1> QED
    BY <1>5, <1>6, <1>7

-----------------------------------------------------------------------------
(* The events.  One that is received takes the store to the next map.      *)
FollowsOn(s, t, v, e) ==
  \A r, q : Follows(r, s, v, {}) /\ Passed(r, q, e) => Follows(q, t, v, {})

LEMMA ReceivedAdd ==
  ASSUME NEW s, StoreOK(s), NEW v \in Version, NEW n \in Peer,
         NEW e, e.type = "addNode", e.source = n, NEW t, t = OnAddNode(s, v, n)
  PROVE  /\ StoreOK(t) /\ \A w \in Version : w # v => Apart(s, t, w)
         /\ FollowsOn(s, t, v, e)
  <1>1. /\ StoreOK(t) /\ GraphKept(s, t, {}) /\ t.connections = s.connections
        /\ t.nodes = [s.nodes EXCEPT ![v] = @ \union {n}]
    BY AddNodeKeeps
  <1>2. /\ \A w \in Version : w # v => t.nodes[w] = s.nodes[w]
        /\ t.nodes[v] = s.nodes[v] \union {n}
    BY <1>1 DEF StoreOK, NetworksOK, Network
  <1>3. ASSUME NEW r, NEW q, Follows(r, s, v, {}), Passed(r, q, e)
        PROVE  Follows(q, t, v, {})
    <2>1. q[1] = r[2] /\ r[2].nodes = r[1].nodes \union {n} /\ r[2].links = r[1].links
      BY <1>3 DEF Passed, Leads
    <2>2. KnowsNodes(q, t, v, {})
      <3> SUFFICES ASSUME NEW x \in Peer, NodeSteady(q, x)
                   PROVE  x \in t.nodes[v] <=> x \in q[1].nodes
        BY DEF KnowsNodes
      <3>1. CASE x = n
        BY <1>2, <2>1, <3>1
      <3>2. CASE x # n
        <4>1. x \in r[2].nodes <=> x \in r[1].nodes
          BY <2>1, <3>2
        <4>2. NodeSteady(r, x)
          BY <1>3, <4>1, PassedSteady
        <4>3. x \in s.nodes[v] <=> x \in r[1].nodes
          BY <1>3, <4>2 DEF Follows, KnowsNodes
        <4> QED
          BY <1>2, <2>1, <3>2, <4>3
      <3> QED
        BY <3>1, <3>2
    <2>3. KnowsLinks(q, t, v, {})
      <3> SUFFICES ASSUME NEW x \in Peer, NEW y \in Peer, LinkSteady(q, x, y)
                   PROVE  <<x, y>> \in t.connections[v] <=> <<x, y>> \in q[1].links
        BY DEF KnowsLinks
      <3>1. LinkSteady(r, x, y)
        BY <1>3, <2>1, PassedSteady
      <3> QED
        BY <1>1, <1>3, <2>1, <3>1 DEF Follows, KnowsLinks
    <2>4. LosesNodesInOrder(q, t, v)
      BY <1>1, <1>2, <1>3, <2>1 DEF Follows, LosesNodesInOrder
    <2>5. DrawsLinks(q, t, v)
      <3> SUFFICES ASSUME NEW x \in Peer, NEW y \in Peer, t.graph, t.selected = v,
                          <<x, y>> \in t.connections[v], <<x, y>> \in q[1].links
                   PROVE  <<x, y>> \in DOMAIN t.links
        BY DEF DrawsLinks
      <3>1. s.graph /\ s.selected = v => <<x, y>> \in DOMAIN s.links
        BY <1>1, <1>3, <2>1 DEF Follows, DrawsLinks
      <3>2. GraphKept(s, t, {}) /\ <<x, y>> \notin {}
        BY <1>1
      <3> QED
        BY <3>1, <3>2, KeptLink
    <2> QED
      BY <2>2, <2>3, <2>4, <2>5 DEF Follows
  <1>4. \A w \in Version : w # v => Apart(s, t, w)
    BY <1>1, <1>2 DEF Apart
  <1> QED
    BY <1>1, <1>3, <1>4 DEF FollowsOn

LEMMA ReceivedRemove ==
  ASSUME NEW s, StoreOK(s), NEW v \in Version, NEW n \in Peer,
         NEW e, e.type = "removeNode", e.source = n, NEW t, t = OnRemoveNode(s, v, n)
  PROVE  /\ StoreOK(t) /\ \A w \in Version : w # v => Apart(s, t, w)
         /\ FollowsOn(s, t, v, e)
  <1>0. Removes(s, v, n, t)
    BY RemoveNodeKeeps
  <1>1. /\ StoreOK(t) /\ t.nodes = [s.nodes EXCEPT ![v] = @ \ {n}]
        /\ \/ t.connections = s.connections
           \/ t.nodes[v] = {} /\ t.connections = [s.connections EXCEPT ![v] = {}]
    BY <1>0 DEF Removes
  <1>2. /\ \A w \in Version : w # v => t.nodes[w] = s.nodes[w]
        /\ t.nodes[v] = s.nodes[v] \ {n}
        /\ \A w \in Version : w # v => t.connections[w] = s.connections[w]
        /\ \/ t.connections[v] = s.connections[v]
           \/ t.nodes[v] = {} /\ t.connections[v] = {}
    <2>1. /\ v \in Network /\ Version \subseteq Network
          /\ DOMAIN s.nodes = Network /\ DOMAIN s.connections = Network
          /\ s.nodes \in [Network -> SUBSET Peer]
          /\ s.connections \in [Network -> SUBSET (Peer \X Peer)]
      BY DEF StoreOK, NetworksOK, Network
    <2>2. /\ \A w \in Version : w # v => t.nodes[w] = s.nodes[w]
          /\ t.nodes[v] = s.nodes[v] \ {n}
      BY <1>1, <2>1
    <2>3. CASE t.connections = s.connections
      BY <2>2, <2>3
    <2>4. CASE t.nodes[v] = {} /\ t.connections = [s.connections EXCEPT ![v] = {}]
      BY <2>1, <2>2, <2>4
    <2> QED
      BY <1>1, <2>3, <2>4
  <1> DEFINE gone == OfNode(s.links, n)
  <1>3. \/ s.selected = v /\ GraphKept(s, t, gone)
        \/ s.selected # v /\ GraphKept(s, t, {})
    BY <1>0 DEF Removes
  <1>4. \A x, y : n \notin {x, y} => <<x, y>> \notin gone
    BY DEF OfNode
  <1> HIDE DEF gone
  <1>5. ASSUME NEW r, NEW q, Follows(r, s, v, {}), Passed(r, q, e)
        PROVE  Follows(q, t, v, {})
    <2>1. /\ q[1] = r[2] /\ r[2].nodes = r[1].nodes \ {n} /\ r[2].links = r[1].links
          /\ \A l \in r[1].links : n \notin {l[1], l[2]}
      BY <1>5 DEF Passed, Leads
    <2>2. t.connections[v] \subseteq s.connections[v]
      BY <1>2
    <2>3. KnowsNodes(q, t, v, {})
      <3> SUFFICES ASSUME NEW x \in Peer, NodeSteady(q, x)
                   PROVE  x \in t.nodes[v] <=> x \in q[1].nodes
        BY DEF KnowsNodes
      <3>1. CASE x = n
        BY <1>2, <2>1, <3>1
      <3>2. CASE x # n
        <4>1. x \in r[2].nodes <=> x \in r[1].nodes
          BY <2>1, <3>2
        <4>2. NodeSteady(r, x)
          BY <1>5, <4>1, PassedSteady
        <4>3. x \in s.nodes[v] <=> x \in r[1].nodes
          BY <1>5, <4>2 DEF Follows, KnowsNodes
        <4> QED
          BY <1>2, <2>1, <3>2, <4>3
      <3> QED
        BY <3>1, <3>2
    <2>4. KnowsLinks(q, t, v, {})
      <3> SUFFICES ASSUME NEW x \in Peer, NEW y \in Peer, LinkSteady(q, x, y)
                   PROVE  <<x, y>> \in t.connections[v] <=> <<x, y>> \in q[1].links
        BY DEF KnowsLinks
      <3>1. LinkSteady(r, x, y)
        BY <1>5, <2>1, PassedSteady
      <3>2. <<x, y>> \in s.connections[v] <=> <<x, y>> \in q[1].links
        BY <1>5, <2>1, <3>1 DEF Follows, KnowsLinks
      <3>3. CASE t.connections[v] = s.connections[v]
        BY <3>2, <3>3
      <3>4. CASE t.connections[v] # s.connections[v]
        <4>1. t.nodes[v] = {} /\ t.connections[v] = {}
          BY <1>2, <3>4
        <4>2. ASSUME <<x, y>> \in q[1].links PROVE FALSE
          <5>1. NodeSteady(q, x) /\ x \in q[1].nodes
            BY <1>5, <4>2, SteadyLinkHasNodes DEF Passed
          <5>2. x \in t.nodes[v]
            BY <2>3, <5>1 DEF KnowsNodes
          <5> QED
            BY <4>1, <5>2
        <4> QED
          BY <4>1, <4>2
      <3> QED
        BY <3>3, <3>4
    <2>5. LosesNodesInOrder(q, t, v)
      <3> SUFFICES ASSUME NEW x \in Peer, NEW y \in Peer, <<x, y>> \in t.connections[v],
                          NEW z \in {x, y}, z \notin t.nodes[v]
                   PROVE  z \notin q[1].nodes
        BY DEF LosesNodesInOrder
      <3>1. CASE z = n
        BY <2>1, <3>1
      <3>2. CASE z # n
        <4>1. z \notin s.nodes[v] /\ <<x, y>> \in s.connections[v]
          BY <1>2, <2>2, <3>2
        <4>2. z \notin r[1].nodes
          BY <1>5, <4>1 DEF Follows, LosesNodesInOrder
        <4> QED
          BY <2>1, <4>2
      <3> QED
        BY <3>1, <3>2
    <2>6. DrawsLinks(q, t, v)
      <3> SUFFICES ASSUME NEW x \in Peer, NEW y \in Peer, t.graph, t.selected = v,
                          <<x, y>> \in t.connections[v], <<x, y>> \in q[1].links
                   PROVE  <<x, y>> \in DOMAIN t.links
        BY DEF DrawsLinks
      <3>1. <<x, y>> \in s.connections[v] /\ <<x, y>> \in r[1].links
        BY <2>1, <2>2
      <3>2. n \notin {x, y}
        BY <2>1, <3>1
      <3>3. <<x, y>> \notin gone
        BY <1>4, <3>2
      <3>4. s.graph /\ s.selected = v => <<x, y>> \in DOMAIN s.links
        BY <1>5, <3>1 DEF Follows, DrawsLinks
      <3>5. CASE s.selected = v /\ GraphKept(s, t, gone)
        BY <3>3, <3>4, <3>5, KeptLink
      <3>6. CASE s.selected # v /\ GraphKept(s, t, {})
        BY <3>4, <3>6, KeptLink
      <3> QED
        BY <1>3, <3>5, <3>6
    <2> QED
      BY <2>3, <2>4, <2>5, <2>6 DEF Follows
  <1>6. ASSUME NEW w \in Version, w # v PROVE Apart(s, t, w)
    <2>1. t.nodes[w] = s.nodes[w] /\ t.connections[w] = s.connections[w]
      BY <1>2, <1>6
    <2>2. CASE s.selected = v /\ GraphKept(s, t, gone)
      BY <1>6, <2>1, <2>2 DEF Apart
    <2>3. CASE s.selected # v /\ GraphKept(s, t, {})
      BY <2>1, <2>3 DEF Apart
    <2> QED
      BY <1>3, <2>2, <2>3
  <1> QED
    BY <1>1, <1>5, <1>6 DEF FollowsOn

LEMMA ReceivedConnect ==
  ASSUME NEW s, StoreOK(s), NEW v \in Version, NEW a \in Peer, NEW b \in Peer, a # b,
         NEW e, e.type = "connectNodes", e.source = a, e.target = b,
         NEW t, t = OnConnectNodes(s, v, a, b)
  PROVE  /\ StoreOK(t) /\ \A w \in Version : w # v => Apart(s, t, w)
         /\ FollowsOn(s, t, v, e)
  <1> DEFINE link == <<a, b>>
  <1>0. Connects(s, v, a, b, t)
    BY ConnectKeeps
  <1>1. CASE t = s /\ ~({a, b} \subseteq s.nodes[v])
    <2>1. \A w \in Version : Apart(s, t, w)
      <3>1. GraphKept(s, s, {})
        BY DEF GraphKept
      <3> QED
        BY <1>1, <3>1 DEF Apart
    <2>2. ASSUME NEW r, NEW q, Follows(r, s, v, {}), Passed(r, q, e)
          PROVE  Follows(q, t, v, {})
      <3>1. /\ q[1] = r[2] /\ r[2].nodes = r[1].nodes /\ a \in r[1].nodes /\ b \in r[1].nodes
            /\ r[2].links = r[1].links \union {link}
        BY <2>2 DEF Passed, Leads
      <3>2. ASSUME NEW x \in Peer, NodeSteady(q, x)
            PROVE  x \in s.nodes[v] <=> x \in q[1].nodes
        <4>1. NodeSteady(r, x)
          BY <2>2, <3>1, <3>2, PassedSteady
        <4> QED
          BY <2>2, <3>1, <4>1 DEF Follows, KnowsNodes
      <3>3. KnowsNodes(q, t, v, {})
        BY <1>1, <3>2 DEF KnowsNodes
      <3>4. ~LinkSteady(q, a, b)
        <4> SUFFICES ASSUME LinkSteady(q, a, b) PROVE FALSE
          OBVIOUS
        <4>1. link \in q[1].links
          BY <3>1
        <4>2. NodeSteady(q, a) /\ NodeSteady(q, b) /\ a \in q[1].nodes /\ b \in q[1].nodes
          BY <2>2, <4>1, SteadyLinkHasNodes DEF Passed
        <4> QED
          BY <1>1, <3>2, <4>2
      <3>5. KnowsLinks(q, t, v, {})
        <4> SUFFICES ASSUME NEW x \in Peer, NEW y \in Peer, LinkSteady(q, x, y)
                     PROVE  <<x, y>> \in s.connections[v] <=> <<x, y>> \in q[1].links
          BY <1>1 DEF KnowsLinks
        <4>1. <<x, y>> # link
          BY <3>4
        <4>2. <<x, y>> \in r[2].links <=> <<x, y>> \in r[1].links
          BY <3>1, <4>1
        <4>3. LinkSteady(r, x, y)
          BY <2>2, <4>2, PassedSteady
        <4> QED
          BY <2>2, <3>1, <4>2, <4>3 DEF Follows, KnowsLinks
      <3>6. LosesNodesInOrder(q, t, v)
        BY <1>1, <2>2, <3>1 DEF Follows, LosesNodesInOrder
      <3>7. link \notin s.connections[v]
        BY <1>1, <2>2, <3>1 DEF Follows, LosesNodesInOrder
      <3>8. DrawsLinks(q, t, v)
        <4> SUFFICES ASSUME NEW x \in Peer, NEW y \in Peer, s.graph, s.selected = v,
                            <<x, y>> \in s.connections[v], <<x, y>> \in q[1].links
                     PROVE  <<x, y>> \in DOMAIN s.links
          BY <1>1 DEF DrawsLinks
        <4>1. <<x, y>> \in r[1].links
          BY <3>1, <3>7
        <4> QED
          BY <2>2, <4>1 DEF Follows, DrawsLinks
      <3> QED
        BY <3>3, <3>5, <3>6, <3>8 DEF Follows
    <2> QED
      BY <1>1, <2>1, <2>2 DEF FollowsOn
  <1>2. CASE ~(t = s /\ ~({a, b} \subseteq s.nodes[v]))
    <2>1. /\ StoreOK(t) /\ a \in t.nodes[v] /\ b \in t.nodes[v] /\ GraphKept(s, t, {})
          /\ t.connections = [s.connections EXCEPT ![v] = @ \union {<<a, b>>}]
          /\ t.graph /\ t.selected = v => <<a, b>> \in DOMAIN t.links
      BY <1>0, <1>2 DEF Connects
    <2>2. \/ t.nodes = s.nodes
          \/ s.nodes[v] = {} /\ t.nodes = [s.nodes EXCEPT ![v] = {a, b}]
      BY <1>0 DEF Connects
    <2>3. /\ \A w \in Version : w # v => t.nodes[w] = s.nodes[w]
          /\ t.nodes[v] \union {a, b} = s.nodes[v] \union {a, b}
          /\ \A w \in Version : w # v => t.connections[w] = s.connections[w]
          /\ t.connections[v] = s.connections[v] \union {link}
      <3>1. /\ v \in Network /\ Version \subseteq Network
            /\ DOMAIN s.nodes = Network /\ DOMAIN s.connections = Network
            /\ s.nodes \in [Network -> SUBSET Peer]
            /\ s.connections \in [Network -> SUBSET (Peer \X Peer)]
        BY DEF StoreOK, NetworksOK, Network
      <3>2. /\ \A w \in Version : w # v => t.connections[w] = s.connections[w]
            /\ t.connections[v] = s.connections[v] \union {link}
        BY <2>1, <3>1
      <3>3. CASE t.nodes = s.nodes
        BY <3>2, <3>3
      <3>4. CASE s.nodes[v] = {} /\ t.nodes = [s.nodes EXCEPT ![v] = {a, b}]
        BY <3>1, <3>2, <3>4
      <3> QED
        BY <2>2, <3>3, <3>4
    <2>4. ASSUME NEW r, NEW q, Follows(r, s, v, {}), Passed(r, q, e)
          PROVE  Follows(q, t, v, {})
      <3>1. /\ q[1] = r[2] /\ r[2].nodes = r[1].nodes /\ a \in r[1].nodes /\ b \in r[1].nodes
            /\ r[2].links = r[1].links \union {link}
        BY <2>4 DEF Passed, Leads
      <3>2. KnowsNodes(q, t, v, {})
        <4> SUFFICES ASSUME NEW x \in Peer, NodeSteady(q, x)
                     PROVE  x \in t.nodes[v] <=> x \in q[1].nodes
          BY DEF KnowsNodes
        <4>1. CASE x \in {a, b}
          BY <2>1, <3>1, <4>1
        <4>2. CASE x \notin {a, b}
          <5>1. x \in t.nodes[v] <=> x \in s.nodes[v]
            BY <2>3, <4>2
          <5>2. NodeSteady(r, x)
            BY <2>4, <3>1, PassedSteady
          <5> QED
            BY <2>4, <3>1, <5>1, <5>2 DEF Follows, KnowsNodes
        <4> QED
          BY <4>1, <4>2
      <3>3. KnowsLinks(q, t, v, {})
        <4> SUFFICES ASSUME NEW x \in Peer, NEW y \in Peer, LinkSteady(q, x, y)
                     PROVE  <<x, y>> \in t.connections[v] <=> <<x, y>> \in q[1].links
          BY DEF KnowsLinks
        <4>1. CASE <<x, y>> = link
          BY <2>3, <3>1, <4>1
        <4>2. CASE <<x, y>> # link
          <5>1. <<x, y>> \in t.connections[v] <=> <<x, y>> \in s.connections[v]
            BY <2>3, <4>2
          <5>2. <<x, y>> \in r[2].links <=> <<x, y>> \in r[1].links
            BY <3>1, <4>2
          <5>3. LinkSteady(r, x, y)
            BY <2>4, <5>2, PassedSteady
          <5> QED
            BY <2>4, <3>1, <5>1, <5>2, <5>3 DEF Follows, KnowsLinks
        <4> QED
          BY <4>1, <4>2
      <3>4. LosesNodesInOrder(q, t, v)
        <4> SUFFICES ASSUME NEW x \in Peer, NEW y \in Peer, <<x, y>> \in t.connections[v],
                            NEW z \in {x, y}, z \notin t.nodes[v]
                     PROVE  z \notin q[1].nodes
          BY DEF LosesNodesInOrder
        <4>1. <<x, y>> # link
          BY <2>1
        <4>2. <<x, y>> \in s.connections[v] /\ z \notin s.nodes[v]
          BY <2>1, <2>3, <4>1
        <4> QED
          BY <2>4, <3>1, <4>2 DEF Follows, LosesNodesInOrder
      <3>5. DrawsLinks(q, t, v)
        <4> SUFFICES ASSUME NEW x \in Peer, NEW y \in Peer, t.graph, t.selected = v,
                            <<x, y>> \in t.connections[v], <<x, y>> \in q[1].links
                     PROVE  <<x, y>> \in DOMAIN t.links
          BY DEF DrawsLinks
        <4>1. CASE <<x, y>> = link
          BY <2>1, <4>1
        <4>2. CASE <<x, y>> # link
          <5>1. <<x, y>> \in s.connections[v] /\ <<x, y>> \in r[1].links
            BY <2>3, <3>1, <4>2
          <5>2. s.graph /\ s.selected = v => <<x, y>> \in DOMAIN s.links
            BY <2>4, <5>1 DEF Follows, DrawsLinks
          <5>3. GraphKept(s, t, {}) /\ (s.graph /\ s.selected = v => <<x, y>> \notin {})
            BY <2>1
          <5> QED
            BY <5>2, <5>3, KeptLink
        <4> QED
          BY <4>1, <4>2
      <3> QED
        BY <3>2, <3>3, <3>4, <3>5 DEF Follows
    <2>5. \A w \in Version : w # v => Apart(s, t, w)
      BY <2>1, <2>3 DEF Apart
    <2> QED
      BY <2>1, <2>4, <2>5 DEF FollowsOn
  <1> QED
    BY <1>1, <1>2

LEMMA ReceivedDisconnect ==
  ASSUME NEW s, StoreOK(s), NEW v \in Version, NEW a \in Peer, NEW b \in Peer, a # b,
         NEW e, e.type = "disconnectNodes", e.source = a, e.target = b,
         NEW t, t = OnDisconnectNodes(s, v, a, b)
  PROVE  /\ StoreOK(t) /\ \A w \in Version : w # v => Apart(s, t, w)
         /\ FollowsOn(s, t, v, e)
  <1> DEFINE link == <<a, b>>
  <1>0. Disconnects(s, v, a, b, t)
    BY DisconnectKeeps
  <1>1. StoreOK(t) /\ t.nodes = s.nodes
    BY <1>0 DEF Disconnects
  <1>2. /\ v \in Network /\ Version \subseteq Network /\ DOMAIN s.connections = Network
        /\ s.connections \in [Network -> SUBSET (Peer \X Peer)]
    BY DEF StoreOK, NetworksOK, Network
  <1>3. /\ \A w \in Version : w # v => t.connections[w] = s.connections[w]
        /\ t.connections[v] \subseteq s.connections[v]
        /\ \/ t = s /\ s.graph /\ s.selected = v /\ link \notin DOMAIN s.links
           \/ t.connections[v] = s.connections[v] \ {link}
    <2>1. CASE t = s /\ s.graph /\ s.selected = v /\ link \notin DOMAIN s.links
      BY <2>1
    <2>2. CASE t.connections = [s.connections EXCEPT ![v] = @ \ {link}]
      BY <1>2, <2>2
    <2> QED
      BY <1>0, <2>1, <2>2 DEF Disconnects
  <1>4. \/ t = s
        \/ s.selected = v /\ GraphKept(s, t, {link})
        \/ s.selected # v /\ GraphKept(s, t, {})
    BY <1>0 DEF Disconnects
  <1>5. ASSUME NEW r, NEW q, Follows(r, s, v, {}), Passed(r, q, e)
        PROVE  Follows(q, t, v, {})
    <2>1. /\ q[1] = r[2] /\ r[2].nodes = r[1].nodes
          /\ link \in r[1].links /\ r[2].links = r[1].links \ {link}
      BY <1>5 DEF Passed, Leads
    <2>2. t.connections[v] = s.connections[v] \ {link}
      <3>1. CASE t = s /\ s.graph /\ s.selected = v /\ link \notin DOMAIN s.links
        <4>1. link \notin s.connections[v]
          BY <1>5, <2>1, <3>1 DEF Follows, DrawsLinks
        <4> QED
          BY <3>1, <4>1
      <3> QED
        BY <1>3, <3>1
    <2>3. KnowsNodes(q, t, v, {})
      <3> SUFFICES ASSUME NEW x \in Peer, NodeSteady(q, x)
                   PROVE  x \in t.nodes[v] <=> x \in q[1].nodes
        BY DEF KnowsNodes
      <3>1. NodeSteady(r, x)
        BY <1>5, <2>1, PassedSteady
      <3> QED
        BY <1>1, <1>5, <2>1, <3>1 DEF Follows, KnowsNodes
    <2>4. KnowsLinks(q, t, v, {})
      <3> SUFFICES ASSUME NEW x \in Peer, NEW y \in Peer, LinkSteady(q, x, y)
                   PROVE  <<x, y>> \in t.connections[v] <=> <<x, y>> \in q[1].links
        BY DEF KnowsLinks
      <3>1. CASE <<x, y>> = link
        BY <2>1, <2>2, <3>1
      <3>2. CASE <<x, y>> # link
        <4>1. <<x, y>> \in r[2].links <=> <<x, y>> \in r[1].links
          BY <2>1, <3>2
        <4>2. LinkSteady(r, x, y)
          BY <1>5, <4>1, PassedSteady
        <4>3. <<x, y>> \in s.connections[v] <=> <<x, y>> \in r[1].links
          BY <1>5, <4>2 DEF Follows, KnowsLinks
        <4>4. <<x, y>> \in s.connections[v] <=> <<x, y>> \in t.connections[v]
          BY <2>2, <3>2
        <4> QED
          BY <2>1, <4>1, <4>3, <4>4
      <3> QED
        BY <3>1, <3>2
    <2>5. LosesNodesInOrder(q, t, v)
      BY <1>1, <1>3, <1>5, <2>1 DEF Follows, LosesNodesInOrder
    <2>6. DrawsLinks(q, t, v)
      <3> SUFFICES ASSUME NEW x \in Peer, NEW y \in Peer, t.graph, t.selected = v,
                          <<x, y>> \in t.connections[v], <<x, y>> \in q[1].links
                   PROVE  <<x, y>> \in DOMAIN t.links
        BY DEF DrawsLinks
      <3>1. <<x, y>> \in s.connections[v] /\ <<x, y>> \in r[1].links /\ <<x, y>> # link
        BY <1>3, <2>1, <2>2
      <3>2. s.graph /\ s.selected = v => <<x, y>> \in DOMAIN s.links
        BY <1>5, <3>1 DEF Follows, DrawsLinks
      <3>3. CASE t = s
        BY <3>2, <3>3
      <3>4. CASE s.selected = v /\ GraphKept(s, t, {link})
        BY <3>1, <3>2, <3>4, KeptLink
      <3>5. CASE s.selected # v /\ GraphKept(s, t, {})
        BY <3>2, <3>5, KeptLink
      <3> QED
        BY <1>4, <3>3, <3>4, <3>5
    <2> QED
      BY <2>3, <2>4, <2>5, <2>6 DEF Follows
  <1>6. ASSUME NEW w \in Version, w # v PROVE Apart(s, t, w)
    <2>1. t.nodes[w] = s.nodes[w] /\ t.connections[w] = s.connections[w]
      BY <1>1, <1>3, <1>6
    <2>2. CASE t = s
      <3>1. GraphKept(s, s, {})
        BY DEF GraphKept
      <3> QED
        BY <2>1, <2>2, <3>1 DEF Apart
    <2>3. CASE s.selected = v /\ GraphKept(s, t, {link})
      BY <1>6, <2>1, <2>3 DEF Apart
    <2>4. CASE s.selected # v /\ GraphKept(s, t, {})
      BY <2>1, <2>4 DEF Apart
    <2> QED
      BY <1>4, <2>2, <2>3, <2>4
  <1> QED
    BY <1>1, <1>5, <1>6 DEF FollowsOn

-----------------------------------------------------------------------------
(* What is triggered, sent and received of the events of a network.        *)
LEMMA ConcatAppend ==
  ASSUME NEW S, NEW F \in Seq(S), NEW G \in Seq(S), NEW e \in S
  PROVE  F \o Append(G, e) = Append(F \o G, e)
  <1> DEFINE last == <<e>>
  <1>1. last \in Seq(S) /\ F \o G \in Seq(S)
    BY ConcatProperties
  <1>2. Append(G, e) = G \o last /\ Append(F \o G, e) = (F \o G) \o last
    BY <1>1, AppendIsConcat
  <1> HIDE DEF last
  <1>3. (F \o G) \o last = F \o (G \o last)
    BY <1>1, ConcatAssociative, SMTT(30)
  <1> QED
    BY <1>2, <1>3

LEMMA MoveHead ==
  ASSUME NEW S, NEW F \in Seq(S), NEW G \in Seq(S), G # <<>>
  PROVE  Append(F, Head(G)) \o Tail(G) = F \o G
  <1> DEFINE first == <<Head(G)>>
             rest == Tail(G)
  <1>1. /\ Head(G) \in S /\ rest \in Seq(S)
        /\ \A i \in 1..Len(rest) : rest[i] = G[i + 1]
        /\ Head(G) = G[1] /\ Len(G) = Len(rest) + 1 /\ Len(rest) \in Nat
    BY HeadTailProperties, LenProperties, EmptySeq
  <1>2. first \in Seq(S) /\ Append(F, Head(G)) = F \o first
    BY <1>1, AppendIsConcat
  <1>3. G = first \o rest
    BY <1>1
  <1> HIDE DEF first, rest
  <1>4. first \in Seq(S) /\ rest \in Seq(S)
    BY <1>1, <1>2
  <1>5. (F \o first) \o rest = F \o (first \o rest)
    BY <1>4, ConcatAssociative, SMTT(30)
  <1> QED
    BY <1>2, <1>3, <1>5 DEF rest

LEMMA HeadOfConcat ==
  ASSUME NEW S, NEW F \in Seq(S), NEW G \in Seq(S), F # <<>>
  PROVE  F \o G # <<>> /\ Head(F \o G) = Head(F) /\ Tail(F \o G) = Tail(F) \o G
  <1> DEFINE first == <<Head(F)>>
             rest == Tail(F)
             R == rest \o G
  <1>1. first \in Seq(S) /\ rest \in Seq(S) /\ F = first \o rest
    BY HeadTailProperties
  <1>2. R \in Seq(S)
    BY <1>1, ConcatProperties
  <1> HIDE DEF first, rest
  <1>3. F \o G = first \o R
    <2>1. (first \o rest) \o G = first \o (rest \o G)
      BY <1>1, ConcatAssociative, SMTT(30)
    <2> QED
      BY <1>1, <2>1
  <1> DEFINE h == Head(F)
  <1> HIDE DEF R, h
  <1>4. <<h>> \o R # <<>> /\ Head(<<h>> \o R) = h /\ Tail(<<h>> \o R) = R
    BY <1>2
  <1> QED
    BY <1>3, <1>4 DEF R, h, first, rest

LEMMA RemovedAt ==
  ASSUME NEW S, NEW F \in Seq(S), NEW i \in DOMAIN F
  PROVE  /\ F[i] \in S /\ RemoveAt(F, i) \in Seq(S)
         /\ F # <<>> /\ F[1] = Head(F) /\ RemoveAt(F, 1) = Tail(F)
  <1>1. /\ DOMAIN F = 1..Len(F) /\ Len(F) \in Nat /\ i \in 1..Len(F)
        /\ \A j \in 1..Len(F) : F[j] \in S
    BY LenProperties, ElementOfSeq
  <1>2. F # <<>> /\ Head(F) = F[1] /\ Tail(F) \in Seq(S)
    BY <1>1, HeadTailProperties, EmptySeq
  <1>3. i - 1 \in Int /\ i + 1 \in Int /\ Len(F) \in Int /\ 1 \in Int
    BY <1>1
  <1>4. SubSeq(F, 1, i - 1) \in Seq(S)
    <2>1. \A j \in 1..(i - 1) : F[j] \in S
      BY <1>1
    <2> QED
      BY <1>3, <2>1, SubSeqProperties
  <1>5. SubSeq(F, i + 1, Len(F)) \in Seq(S)
    <2>1. \A j \in (i + 1)..Len(F) : F[j] \in S
      BY <1>1
    <2> QED
      BY <1>3, <2>1, SubSeqProperties
  <1>6. RemoveAt(F, i) \in Seq(S)
    BY <1>4, <1>5, ConcatProperties DEF RemoveAt
  <1>7. SubSeq(F, 1, 1 - 1) = <<>>
    <2>1. 1 - 1 \in Int /\ 1 - 1 < 1
      OBVIOUS
    <2> QED
      BY <2>1, SubSeqEmpty
  <1>8. SubSeq(F, 1 + 1, Len(F)) = Tail(F)
    <2>1. 1 + 1 = 2
      OBVIOUS
    <2> QED
      BY <1>2, <2>1, TailIsSubSeq
  <1>9. RemoveAt(F, 1) = Tail(F)
    BY <1>2, <1>7, <1>8, ConcatEmptySeq DEF RemoveAt
  <1> QED
    BY <1>1, <1>2, <1>6, <1>9

-----------------------------------------------------------------------------
(* The inductive invariant.  Of a network that was not replayed yet the    *)
(* store has nothing; the others it follows, unless events of them were    *)
(* sent out of their order.                                                *)
Unheard(v) == peeringSocket = "none" \/ v \in copying

WireInv ==
  /\ peeringSocket \in {"none", "open", "closed"}
  /\ map \in [Version -> NetworkMap]
  /\ DOMAIN pool = Version /\ DOMAIN queued = Version
  /\ \A v \in Version : pool[v] \in Seq(EventsOf(v)) /\ queued[v] \in Seq(EventsOf(v))
  /\ copying \subseteq Version
  /\ peeringSocket # "open" =>
       copying = {} /\ replay = {} /\ \A v \in Version : queued[v] = <<>>
  /\ \A e \in replay : e.network \notin copying
  /\ \A v \in Version : Unheard(v) => peering.nodes[v] = {} /\ peering.connections[v] = {}

Followed(v) ==
  \E r : /\ Maps(r, queued[v] \o pool[v], map[v])
         /\ peeringSocket = "open" /\ v \notin copying => Follows(r, peering, v, replay)

IInv ==
  /\ StoreOK(peering) /\ WireInv /\ ReplayOK(peering, replay)
  /\ \A v \in Version \ overtaken : Followed(v)

LEMMA FirstMap ==
  ASSUME NEW m \in NetworkMap
  PROVE  \E r : Maps(r, <<>>, m)
  <1> DEFINE r == [i \in 1..1 |-> m]
  <1>1. Len(<<>>) = 0 /\ 0 + 1 = 1 /\ 1 \in 1..1 /\ 1..0 = {}
    OBVIOUS
  <1>2. r \in [1..1 -> NetworkMap] /\ r[1] = m
    BY <1>1
  <1> HIDE DEF r
  <1>3. Maps(r, <<>>, m)
    BY <1>1, <1>2 DEF Maps
  <1> QED
    BY <1>3

LEMMA InitIInv == PeeringInit => IInv
  <1> SUFFICES ASSUME PeeringInit PROVE IInv
    OBVIOUS
  <1> DEFINE s == peering
  <1>1. /\ DOMAIN s = Fields /\ s.versions = {} /\ s.selected = 0 /\ s.userSelected = 0
        /\ s.nodes = [v \in Network |-> {}] /\ s.connections = [v \in Network |-> {}]
        /\ s.neighbors = [v \in Network |-> <<>>]
        /\ s.graph = FALSE /\ s.links = EmptyBag /\ s.color = <<>>
    BY DEF PeeringInit, InitialPeering, Fields, Network
  <1>2. DOMAIN EmptyBag = {} /\ DOMAIN <<>> = {}
    BY DEF EmptyBag, SetToBag
  <1> HIDE DEF s
  <1>3. Links(<<>>) = {}
    BY <1>2 DEF Links
  <1>4. NetworksOK(s)
    BY <1>1, <1>2, <1>3 DEF NetworksOK, Network
  <1>5. VersionsOK(s)
    BY <1>1 DEF VersionsOK, Network
  <1>6. DrawnOK(s) /\ ColorsOK(s)
    BY <1>1, <1>2 DEF DrawnOK, ColorsOK
  <1>7. Bounded({})
    BY DEF Bounded
  <1>8. ChoiceOK(s)
    BY <1>1, <1>7 DEF ChoiceOK, AutoSelectNetwork
  <1>9. \A v \in Version : s.nodes[v] = {} /\ s.connections[v] = {}
    BY <1>1 DEF Network
  <1>10. map \in [Version -> NetworkMap]
    BY AutopeeringConstants DEF PeeringInit
  <1>11. /\ pool = [v \in Version |-> <<>>] /\ queued = [v \in Version |-> <<>>]
         /\ peeringSocket = "none" /\ copying = {} /\ replay = {}
    BY DEF PeeringInit
  <1>12. \A v \in Version : <<>> \in Seq(EventsOf(v)) /\ <<>> \o <<>> = <<>>
    BY EmptySeq, ConcatEmptySeq
  <1>13. WireInv
    BY <1>9, <1>10, <1>11, <1>12 DEF WireInv, s
  <1>14. \A v \in Version : Followed(v)
    BY <1>10, <1>11, <1>12, FirstMap DEF Followed
  <1>15. ReplayOK(s, replay)
    BY <1>11 DEF ReplayOK
  <1> QED
    BY <1>4, <1>5, <1>6, <1>8, <1>13, <1>14, <1>15 DEF IInv, StoreOK, ViewOK, s

(* A network of which nothing is sent and nothing changes.                 *)
LEMMA StillFollowed ==
  ASSUME NEW v \in Version, Followed(v),
         queued'[v] = queued[v], pool'[v] = pool[v], map'[v] = map[v],
         peeringSocket' = "open" /\ v \notin copying' => peeringSocket = "open" /\ v \notin copying,
         \A r : Follows(r, peering, v, replay) => Follows(r, peering', v, replay')
  PROVE  Followed(v)'
  BY DEF Followed

-----------------------------------------------------------------------------
(* The server.                                                             *)
LEMMA TriggerStep ==
  ASSUME IInv, NEW v \in Version, NEW e \in EventsOf(v), Trigger(e),
         map' \in [Version -> NetworkMap], Leads(map[v], e, map'[v]),
         \A w \in Version : w # v => map'[w] = map[w]
  PROVE  IInv'
  <1>1. /\ pool' = [pool EXCEPT ![v] = Append(@, e)]
        /\ UNCHANGED <<peering, peeringSocket, copying, replay, queued, overtaken>>
    BY DEF Trigger, EventsOf
  <1>2. /\ pool'[v] = Append(pool[v], e) /\ pool'[v] \in Seq(EventsOf(v))
        /\ \A w \in Version : w # v => pool'[w] = pool[w]
        /\ DOMAIN pool' = Version
    BY <1>1, AppendProperties DEF IInv, WireInv
  <1>3. StoreOK(peering)' /\ WireInv' /\ ReplayOK(peering, replay)'
    BY <1>1, <1>2 DEF IInv, WireInv, Unheard
  <1>4. ASSUME NEW w \in Version \ overtaken, w # v PROVE Followed(w)'
    <2>1. Followed(w)
      BY <1>4 DEF IInv
    <2> QED
      BY <1>1, <1>2, <1>4, <2>1, StillFollowed
  <1>5. ASSUME v \notin overtaken PROVE Followed(v)'
    <2>1. PICK r : /\ Maps(r, queued[v] \o pool[v], map[v])
                   /\ peeringSocket = "open" /\ v \notin copying =>
                        Follows(r, peering, v, replay)
      BY <1>5 DEF IInv, Followed
    <2>2. queued[v] \o pool[v] \in Seq(EventsOf(v))
      BY ConcatProperties DEF IInv, WireInv
    <2>3. queued[v] \o Append(pool[v], e) = Append(queued[v] \o pool[v], e)
      <3> DEFINE sent == queued[v]
                 unsent == pool[v]
      <3>1. unsent \in Seq(EventsOf(v)) /\ sent \in Seq(EventsOf(v))
        BY DEF IInv, WireInv
      <3> HIDE DEF sent, unsent
      <3>2. sent \o Append(unsent, e) = Append(sent \o unsent, e)
        BY <3>1, ConcatAppend
      <3> QED
        BY <3>2 DEF sent, unsent
    <2> DEFINE m2 == map'[v]
               F == queued[v] \o pool[v]
    <2> HIDE DEF m2, F
    <2>4. PICK q : /\ Maps(q, Append(F, e), m2) /\ q[1] = r[1]
                   /\ \A i \in DOMAIN r : i \in DOMAIN q /\ q[i] = r[i]
      <3>1. m2 \in NetworkMap /\ Leads(map[v], e, m2) /\ F \in Seq(EventsOf(v)) /\ Maps(r, F, map[v])
        BY <2>1, <2>2 DEF m2, F
      <3> QED
        BY <3>1, MapsGrow
    <2>5. Maps(q, queued'[v] \o pool'[v], map'[v])
      BY <1>1, <1>2, <2>3, <2>4 DEF m2, F
    <2>6. peeringSocket = "open" /\ v \notin copying => Follows(q, peering, v, replay)
      BY <2>1, <2>4, SentFollows DEF Sent
    <2> QED
      BY <1>1, <2>5, <2>6 DEF Followed
  <1> QED
    BY <1>1, <1>3, <1>4, <1>5 DEF IInv

(* An event of the network v, which changes its map.                       *)
LEMMA ServerStep ==
  ASSUME IInv, NEW v \in Version,
         \/ \E n \in Peer : ServerAddNode(v, n) \/ ServerRemoveNode(v, n)
         \/ \E a, b \in Peer : ServerConnectNodes(v, a, b)
         \/ \E link \in map[v].links : ServerDisconnectNodes(v, link)
  PROVE  IInv'
  <1>1. /\ map \in [Version -> NetworkMap] /\ map[v] \in NetworkMap
        /\ map[v] \in [nodes : SUBSET Peer, links : SUBSET (Peer \X Peer)]
        /\ \A l \in map[v].links : l[1] # l[2] /\ {l[1], l[2]} \subseteq map[v].nodes
    BY DEF IInv, WireInv, NetworkMap
  <1>2. ASSUME NEW m \in [nodes : SUBSET Peer, links : SUBSET (Peer \X Peer)],
               \A l \in m.links : l[1] # l[2] /\ {l[1], l[2]} \subseteq m.nodes,
               map' = [map EXCEPT ![v] = m], NEW e \in EventsOf(v), Trigger(e),
               Leads(map[v], e, m)
        PROVE  IInv'
    <2>1. m \in NetworkMap
      BY <1>2 DEF NetworkMap
    <2>2. /\ map' \in [Version -> NetworkMap] /\ map'[v] = m
          /\ \A w \in Version : w # v => map'[w] = map[w]
      BY <1>1, <1>2, <2>1
    <2> QED
      BY <1>2, <2>2, TriggerStep
  <1>3. ASSUME NEW n \in Peer, ServerAddNode(v, n) PROVE IInv'
    <2> DEFINE e == Event("addNode", v, n, n)
               m == [map[v] EXCEPT !.nodes = @ \union {n}]
    <2>1. n \notin map[v].nodes /\ map' = [map EXCEPT ![v] = m] /\ Trigger(e)
      BY <1>1, <1>3 DEF ServerAddNode
    <2>2. /\ m \in [nodes : SUBSET Peer, links : SUBSET (Peer \X Peer)]
          /\ m.nodes = map[v].nodes \union {n} /\ m.links = map[v].links
      BY <1>1
    <2>3. e \in EventsOf(v) /\ e.type = "addNode" /\ e.source = n
      BY DEF EventsOf, EventSet, Event
    <2> HIDE DEF e, m
    <2>4. Leads(map[v], e, m)
      BY <2>1, <2>2, <2>3 DEF Leads
    <2>5. \A l \in m.links : l[1] # l[2] /\ {l[1], l[2]} \subseteq m.nodes
      BY <1>1, <2>2
    <2> QED
      BY <1>2, <2>1, <2>2, <2>3, <2>4, <2>5
  <1>4. ASSUME NEW n \in Peer, ServerRemoveNode(v, n) PROVE IInv'
    <2> DEFINE e == Event("removeNode", v, n, n)
               m == [map[v] EXCEPT !.nodes = @ \ {n}]
    <2>1. /\ n \in map[v].nodes /\ \A l \in map[v].links : n \notin {l[1], l[2]}
          /\ map' = [map EXCEPT ![v] = m] /\ Trigger(e)
      BY <1>1, <1>4 DEF ServerRemoveNode
    <2>2. /\ m \in [nodes : SUBSET Peer, links : SUBSET (Peer \X Peer)]
          /\ m.nodes = map[v].nodes \ {n} /\ m.links = map[v].links
      BY <1>1
    <2>3. e \in EventsOf(v) /\ e.type = "removeNode" /\ e.source = n
      BY DEF EventsOf, EventSet, Event
    <2> HIDE DEF e, m
    <2>4. Leads(map[v], e, m)
      BY <2>1, <2>2, <2>3 DEF Leads
    <2>5. \A l \in m.links : l[1] # l[2] /\ {l[1], l[2]} \subseteq m.nodes
      BY <1>1, <2>1, <2>2
    <2> QED
      BY <1>2, <2>1, <2>2, <2>3, <2>4, <2>5
  <1>5. ASSUME NEW a \in Peer, NEW b \in Peer, ServerConnectNodes(v, a, b) PROVE IInv'
    <2> DEFINE e == Event("connectNodes", v, a, b)
               m == [map[v] EXCEPT !.links = @ \union {<<a, b>>}]
    <2>1. /\ a # b /\ {a, b} \subseteq map[v].nodes /\ <<a, b>> \notin map[v].links
          /\ map' = [map EXCEPT ![v] = m] /\ Trigger(e)
      BY <1>1, <1>5 DEF ServerConnectNodes
    <2>2. /\ m \in [nodes : SUBSET Peer, links : SUBSET (Peer \X Peer)]
          /\ m.nodes = map[v].nodes /\ m.links = map[v].links \union {<<a, b>>}
      BY <1>1
    <2>3. e \in EventsOf(v) /\ e.type = "connectNodes" /\ e.source = a /\ e.target = b
      BY <2>1 DEF EventsOf, EventSet, Event
    <2> HIDE DEF e, m
    <2>4. Leads(map[v], e, m)
      BY <2>1, <2>2, <2>3 DEF Leads
    <2>5. \A l \in m.links : l[1] # l[2] /\ {l[1], l[2]} \subseteq m.nodes
      BY <1>1, <2>1, <2>2
    <2> QED
      BY <1>2, <2>1, <2>2, <2>3, <2>4, <2>5
  <1>6. ASSUME NEW link \in map[v].links, ServerDisconnectNodes(v, link) PROVE IInv'
    <2> DEFINE e == Event("disconnectNodes", v, link[1], link[2])
               m == [map[v] EXCEPT !.links = @ \ {link}]
    <2>1. /\ link[1] # link[2] /\ link = <<link[1], link[2]>>
          /\ link[1] \in Peer /\ link[2] \in Peer
          /\ map' = [map EXCEPT ![v] = m] /\ Trigger(e)
      BY <1>1, <1>6 DEF ServerDisconnectNodes
    <2>2. /\ m \in [nodes : SUBSET Peer, links : SUBSET (Peer \X Peer)]
          /\ m.nodes = map[v].nodes /\ m.links = map[v].links \ {link}
      BY <1>1
    <2>3. /\ e \in EventsOf(v) /\ e.type = "disconnectNodes"
          /\ e.source = link[1] /\ e.target = link[2]
      BY <2>1 DEF EventsOf, EventSet, Event
    <2> HIDE DEF e, m
    <2>4. Leads(map[v], e, m)
      BY <2>1, <2>2, <2>3 DEF Leads
    <2>5. \A l \in m.links : l[1] # l[2] /\ {l[1], l[2]} \subseteq m.nodes
      BY <1>1, <2>2
    <2> QED
      BY <1>2, <2>1, <2>2, <2>3, <2>4, <2>5
  <1> QED
    BY <1>3, <1>4, <1>5, <1>6

-----------------------------------------------------------------------------
(* The wire.                                                               *)
LEMMA SendStep ==
  ASSUME IInv, NEW v \in Version, NEW i \in DOMAIN pool[v], SendEvent(v, i)
  PROVE  IInv'
  <1> DEFINE P == pool[v]
             Q == queued[v]
  <1>1. /\ pool' = [pool EXCEPT ![v] = RemoveAt(@, i)]
        /\ queued' = IF peeringSocket = "open"
                     THEN [queued EXCEPT ![v] = Append(@, pool[v][i])] ELSE queued
        /\ overtaken' = IF i = 1 THEN overtaken ELSE overtaken \union {v}
        /\ UNCHANGED <<peering, peeringSocket, copying, replay, map>>
    BY DEF SendEvent, serverVars
  <1>2. P \in Seq(EventsOf(v)) /\ Q \in Seq(EventsOf(v)) /\ i \in DOMAIN P
    BY DEF IInv, WireInv
  <1>3. /\ \A w \in Version : w # v => pool'[w] = pool[w] /\ queued'[w] = queued[w]
        /\ pool'[v] = RemoveAt(P, i) /\ DOMAIN pool' = Version /\ DOMAIN queued' = Version
        /\ peeringSocket = "open" => queued'[v] = Append(Q, P[i])
        /\ peeringSocket # "open" => queued'[v] = Q /\ queued' = queued
    BY <1>1 DEF IInv, WireInv
  <1> HIDE DEF P, Q
  <1>4. /\ P[i] \in EventsOf(v) /\ RemoveAt(P, i) \in Seq(EventsOf(v))
        /\ P # <<>> /\ P[1] = Head(P) /\ RemoveAt(P, 1) = Tail(P)
    BY <1>2, RemovedAt
  <1>5. WireInv'
    <2>1. Append(Q, P[i]) \in Seq(EventsOf(v))
      BY <1>2, <1>4, AppendProperties
    <2>2. pool'[v] \in Seq(EventsOf(v)) /\ queued'[v] \in Seq(EventsOf(v))
      BY <1>2, <1>3, <1>4, <2>1
    <2>3. \A w \in Version : pool'[w] \in Seq(EventsOf(w)) /\ queued'[w] \in Seq(EventsOf(w))
      BY <1>3, <2>2 DEF IInv, WireInv
    <2> QED
      BY <1>1, <1>3, <2>3 DEF IInv, WireInv, Unheard
  <1>6. ASSUME NEW w \in Version \ overtaken', w # v PROVE Followed(w)'
    <2>1. w \in Version /\ Followed(w)
      BY <1>1, <1>6 DEF IInv
    <2> QED
      BY <1>1, <1>3, <1>6, <2>1, StillFollowed
  <1>7. ASSUME v \notin overtaken' PROVE Followed(v)'
    <2>1. i = 1 /\ v \notin overtaken
      BY <1>1, <1>7
    <2>2. PICK r : /\ Maps(r, Q \o P, map[v])
                   /\ peeringSocket = "open" /\ v \notin copying => Follows(r, peering, v, replay)
      BY <2>1 DEF IInv, Followed, P, Q
    <2>3. CASE peeringSocket = "open"
      <3>1. Append(Q, Head(P)) \o Tail(P) = Q \o P
        BY <1>2, <1>4, MoveHead
      <3>2. queued'[v] \o pool'[v] = Q \o P
        BY <1>3, <1>4, <2>1, <2>3, <3>1
      <3> QED
        BY <1>1, <2>2, <3>2 DEF Followed
    <2>4. CASE peeringSocket # "open"
      <3>1. Q = <<>>
        BY <2>4 DEF IInv, WireInv, Q
      <3>2. Q \o P = P
        BY <1>2, <3>1, ConcatEmptySeq
      <3>3. \E q : Maps(q, Tail(P), map[v])
        BY <1>2, <1>4, <2>2, <3>2, MapsShrink
      <3>4. queued'[v] \o pool'[v] = Tail(P)
        <4>1. queued'[v] = <<>> /\ pool'[v] = Tail(P) /\ Tail(P) \in Seq(EventsOf(v))
          BY <1>3, <1>4, <2>1, <2>4, <3>1
        <4> QED
          BY <4>1, ConcatEmptySeq
      <3> QED
        BY <1>1, <2>4, <3>3, <3>4 DEF Followed
    <2> QED
      BY <2>3, <2>4
  <1> QED
    BY <1>1, <1>5, <1>6, <1>7 DEF IInv

LEMMA RegisterStep ==
  ASSUME IInv, RegisterWSClient
  PROVE  IInv'
  <1>1. /\ peeringSocket = "none" /\ peeringSocket' = "open" /\ copying' = Version
        /\ UNCHANGED <<peering, pool, replay, queued, overtaken, map>>
    BY DEF RegisterWSClient, serverVars
  <1>2. WireInv'
    BY <1>1 DEF IInv, WireInv, Unheard
  <1>3. \A v \in Version \ overtaken : Followed(v)'
    BY <1>1 DEF IInv, Followed
  <1> QED
    BY <1>1, <1>2, <1>3 DEF IInv

(* What is replayed of a network, to a store that has nothing of it.       *)
LEMMA ReplayStep ==
  ASSUME IInv, NEW v \in Version, ReplayAutopeeringEvents(v)
  PROVE  IInv'
  <1> DEFINE nodes == {Event("addNode", v, n, n) : n \in map[v].nodes}
             links == {Event("connectNodes", v, l[1], l[2]) : l \in map[v].links}
  <1>1. /\ v \in copying /\ copying' = copying \ {v}
        /\ replay' = (replay \union nodes) \union links
        /\ UNCHANGED <<peering, peeringSocket, pool, queued, overtaken, map>>
    BY DEF ReplayAutopeeringEvents, serverVars
  <1>2. /\ peeringSocket = "open" /\ map[v] \in NetworkMap
        /\ peering.nodes[v] = {} /\ peering.connections[v] = {}
        /\ \A e \in replay : e.network # v
    BY <1>1 DEF IInv, WireInv, Unheard
  <1>3. /\ \A e \in nodes : \E n \in map[v].nodes : n \in Peer /\ e = Event("addNode", v, n, n)
        /\ \A e \in links : \E a, b \in map[v].nodes :
             /\ <<a, b>> \in map[v].links /\ a # b /\ a \in Peer /\ b \in Peer
             /\ e = Event("connectNodes", v, a, b)
    <2>1. \A n \in map[v].nodes : n \in Peer
      BY <1>2, MapFacts
    <2>2. ASSUME NEW e \in links
          PROVE  \E a, b \in map[v].nodes :
                   /\ <<a, b>> \in map[v].links /\ a # b /\ a \in Peer /\ b \in Peer
                   /\ e = Event("connectNodes", v, a, b)
      <3>1. PICK l \in map[v].links : e = Event("connectNodes", v, l[1], l[2])
        BY <2>2
      <3>2. /\ l \in Peer \X Peer /\ l[1] # l[2] /\ l[1] \in map[v].nodes /\ l[2] \in map[v].nodes
        BY <1>2, <3>1, MapFacts
      <3>3. l = <<l[1], l[2]>> /\ l[1] \in Peer /\ l[2] \in Peer
        BY <3>2
      <3> QED
        BY <3>1, <3>2, <3>3
    <2> QED
      BY <2>1, <2>2
  <1>4. /\ \A n \in map[v].nodes : Event("addNode", v, n, n) \in nodes
        /\ \A a, b : <<a, b>> \in map[v].links => Event("connectNodes", v, a, b) \in links
    <2>1. \A a, b : <<a, b>>[1] = a /\ <<a, b>>[2] = b
      OBVIOUS
    <2> QED
      BY <2>1
  <1> HIDE DEF nodes, links
  <1>5. ASSUME NEW e \in nodes
        PROVE  e \in EventsOf(v) /\ e.network = v /\ e.type = "addNode" /\ e.target = e.source
    <2>1. PICK n \in map[v].nodes : n \in Peer /\ e = Event("addNode", v, n, n)
      BY <1>3, <1>5
    <2>2. e.type = "addNode" /\ e.network = v /\ e.source = n /\ e.target = n
      BY <2>1, EventFields
    <2>3. e \in EventSet
      BY <2>1 DEF Event, EventSet
    <2> QED
      BY <2>2, <2>3 DEF EventsOf
  <1>6. ASSUME NEW e \in links
        PROVE  e \in EventsOf(v) /\ e.network = v /\ e.type = "connectNodes"
    <2>1. PICK a, b \in map[v].nodes :
            a # b /\ a \in Peer /\ b \in Peer /\ e = Event("connectNodes", v, a, b)
      BY <1>3, <1>6
    <2>2. e.type = "connectNodes" /\ e.network = v
      BY <2>1, EventFields
    <2>3. e \in EventSet
      BY <2>1 DEF Event, EventSet
    <2> QED
      BY <2>2, <2>3 DEF EventsOf
  <1>7. \A n \in Peer : Event("addNode", v, n, n) \in replay' <=> n \in map[v].nodes
    <2> SUFFICES ASSUME NEW n \in Peer, Event("addNode", v, n, n) \in replay'
                 PROVE  n \in map[v].nodes
      BY <1>1, <1>4
    <2> DEFINE e == Event("addNode", v, n, n)
    <2>1. e.network = v /\ e.type = "addNode" /\ e.source = n
      BY EventFields
    <2> HIDE DEF e
    <2>2. e \in replay'
      BY DEF e
    <2>3. e \in nodes
      BY <1>1, <1>2, <1>5, <1>6, <2>1, <2>2
    <2>4. PICK x \in map[v].nodes : e = Event("addNode", v, x, x)
      BY <1>3, <2>3
    <2>5. x = n
      BY <2>1, <2>4, EventFields
    <2> QED
      BY <2>5
  <1>8. \A a, b \in Peer :
          Event("connectNodes", v, a, b) \in replay' <=> <<a, b>> \in map[v].links
    <2> SUFFICES ASSUME NEW a \in Peer, NEW b \in Peer, Event("connectNodes", v, a, b) \in replay'
                 PROVE  <<a, b>> \in map[v].links
      BY <1>1, <1>4
    <2> DEFINE e == Event("connectNodes", v, a, b)
    <2>1. e.network = v /\ e.type = "connectNodes" /\ e.source = a /\ e.target = b
      BY EventFields
    <2> HIDE DEF e
    <2>2. e \in replay'
      BY DEF e
    <2>3. e \in links
      BY <1>1, <1>2, <1>5, <1>6, <2>1, <2>2
    <2>4. PICK x, y \in map[v].nodes : <<x, y>> \in map[v].links /\ e = Event("connectNodes", v, x, y)
      BY <1>3, <2>3
    <2>5. x = a /\ y = b
      BY <2>1, <2>4, EventFields
    <2> QED
      BY <2>4, <2>5
  <1>9. ReplayOK(peering, replay)'
    <2>1. replay' \subseteq EventSet
      BY <1>1, <1>5, <1>6 DEF IInv, ReplayOK, EventsOf
    <2>2. \A e \in replay' : /\ e.type \in {"addNode", "connectNodes"}
                             /\ e.type = "addNode" => e.target = e.source
      BY <1>1, <1>5, <1>6 DEF IInv, ReplayOK
    <2>3. ASSUME NEW e \in replay', e.type = "connectNodes", NEW n \in {e.source, e.target}
          PROVE  n \in peering.nodes[e.network] \/ Event("addNode", e.network, n, n) \in replay'
      <3>1. CASE e \in replay
        BY <1>1, <2>3, <3>1 DEF IInv, ReplayOK
      <3>2. CASE e \notin replay
        <4>1. e \in links
          BY <1>1, <1>5, <2>3, <3>2
        <4>2. PICK x, y \in map[v].nodes : e = Event("connectNodes", v, x, y)
          BY <1>3, <4>1
        <4>3. n \in map[v].nodes /\ e.network = v
          BY <2>3, <4>2, EventFields
        <4> QED
          BY <1>1, <1>4, <4>3
      <3> QED
        BY <3>1, <3>2
    <2> QED
      BY <1>1, <2>1, <2>2, <2>3 DEF ReplayOK
  <1>10. WireInv'
    BY <1>1, <1>2, <1>5, <1>6 DEF IInv, WireInv, Unheard
  <1>11. ASSUME NEW w \in Version \ overtaken, w # v PROVE Followed(w)'
    <2>1. \A e \in replay' \ replay : e.network # w
      BY <1>1, <1>5, <1>6, <1>11
    <2>2. \A type, a, b : Event(type, w, a, b) \in replay' <=> Event(type, w, a, b) \in replay
      BY <1>1, <2>1, EventFields
    <2>3. ASSUME NEW r, Follows(r, peering, w, replay) PROVE Follows(r, peering, w, replay')
      BY <2>2, <2>3 DEF Follows, KnowsNodes, KnowsLinks
    <2>4. w \in Version /\ Followed(w)
      BY <1>11 DEF IInv
    <2> QED
      BY <1>1, <1>11, <2>3, <2>4, StillFollowed
  <1>12. ASSUME v \notin overtaken PROVE Followed(v)'
    <2> DEFINE F == queued[v] \o pool[v]
    <2>1. PICK r : Maps(r, F, map[v])
      BY <1>12 DEF IInv, Followed
    <2>2. F \in Seq(EventsOf(v))
      BY ConcatProperties DEF IInv, WireInv
    <2> HIDE DEF F
    <2>3. r[Len(F) + 1] = map[v] /\ Len(F) + 1 \in DOMAIN r
      <3>1. Len(F) \in Nat /\ r[Len(F) + 1] = map[v] /\ DOMAIN r = 1..(Len(F) + 1)
        BY <2>1, <2>2, LenProperties DEF Maps
      <3> DEFINE k == Len(F)
      <3> HIDE DEF k
      <3>2. k \in Nat => k + 1 \in 1..(k + 1)
        OBVIOUS
      <3> QED
        BY <3>1, <3>2 DEF k
    <2>4. KnowsNodes(r, peering, v, replay')
      BY <1>2, <1>7, <2>3 DEF KnowsNodes, NodeSteady
    <2>5. KnowsLinks(r, peering, v, replay')
      BY <1>2, <1>8, <2>3 DEF KnowsLinks, LinkSteady
    <2>6. LosesNodesInOrder(r, peering, v) /\ DrawsLinks(r, peering, v)
      BY <1>2 DEF LosesNodesInOrder, DrawsLinks
    <2>7. Follows(r, peering, v, replay')
      BY <2>4, <2>5, <2>6 DEF Follows
    <2> QED
      BY <1>1, <2>1, <2>7 DEF Followed, F
  <1> QED
    BY <1>1, <1>9, <1>10, <1>11, <1>12 DEF IInv

LEMMA ReplayedStep ==
  ASSUME IInv, Replayed
  PROVE  IInv'
  <1>1. PICK e \in replay :
          /\ e.type = "connectNodes" =>
               \A f \in replay : f.network = e.network => f.type # "addNode"
          /\ replay' = replay \ {e} /\ peering' = Handle(peering, e)
    BY DEF Replayed
  <1>2. UNCHANGED <<peeringSocket, pool, copying, queued, overtaken, map>>
    BY DEF Replayed, serverVars
  <1>3. peeringSocket = "open" /\ e.network \notin copying /\ ReplayOK(peering, replay)
    BY <1>1 DEF IInv, WireInv
  <1>4. e \in EventSet /\ e.type \in {"addNode", "connectNodes"}
    BY <1>3 DEF ReplayOK
  <1> DEFINE v == e.network
             a == e.source
             b == e.target
  <1>5. v \in Version /\ a \in Peer /\ b \in Peer /\ e = Event(e.type, v, a, b)
    BY <1>4, EventOf
  <1>6. /\ StoreOK(peering') /\ ReplayOK(peering', replay')
        /\ \A w \in Version : w # v => Apart(peering, peering', w)
        /\ \A r : Follows(r, peering, v, replay) => Follows(r, peering', v, replay')
    <2>1. CASE e.type = "addNode"
      <3> DEFINE t == OnAddNode(peering, v, a)
      <3>1. peering' = t
        BY <1>1, <2>1 DEF Handle
      <3>2. e = Event("addNode", v, a, a)
        BY <1>3, <1>5, <2>1 DEF ReplayOK
      <3>3. StoreOK(t)
        BY <1>5, AddNodeKeeps DEF IInv
      <3>4. /\ ReplayOK(t, replay \ {e})
            /\ \A w \in Version : w # v => Apart(peering, t, w)
            /\ \A r : Follows(r, peering, v, replay) => Follows(r, t, v, replay \ {e})
        <4>1. StoreOK(peering)
          BY DEF IInv
        <4> HIDE DEF a, v
        <4> QED
          BY <1>3, <1>5, <3>2, <4>1, ReplayedNode
      <3> QED
        BY <1>1, <3>1, <3>3, <3>4
    <2>2. CASE e.type = "connectNodes"
      <3> DEFINE t == OnConnectNodes(peering, v, a, b)
      <3>1. peering' = t
        BY <1>1, <2>2 DEF Handle
      <3>2. e = Event("connectNodes", v, a, b) /\ a # b
        BY <1>4, <1>5, <2>2, EventOf
      <3>3. Connects(peering, v, a, b, t)
        BY <1>5, <3>2, ConnectKeeps DEF IInv
      <3>4. ASSUME NEW n \in {a, b} PROVE n \in peering.nodes[v]
        <4>1. n \in peering.nodes[v] \/ Event("addNode", v, n, n) \in replay
          BY <1>3, <2>2 DEF ReplayOK
        <4>2. /\ Event("addNode", v, n, n).network = v
              /\ Event("addNode", v, n, n).type = "addNode"
          BY EventFields
        <4> QED
          BY <1>1, <2>2, <4>1, <4>2
      <3>5. /\ ReplayOK(t, replay \ {e})
            /\ \A w \in Version : w # v => Apart(peering, t, w)
            /\ \A r : Follows(r, peering, v, replay) => Follows(r, t, v, replay \ {e})
        <4>1. {a, b} \subseteq peering.nodes[v] /\ StoreOK(peering)
          BY <3>4 DEF IInv
        <4> HIDE DEF a, b, v
        <4> QED
          BY <1>3, <1>5, <3>2, <4>1, ReplayedLink
      <3> QED
        BY <1>1, <3>1, <3>3, <3>5 DEF Connects
    <2> QED
      BY <1>4, <2>1, <2>2
  <1> HIDE DEF v, a, b
  <1>7. v \notin copying /\ e.network = v
    BY <1>3 DEF v
  <1>8. WireInv'
    BY <1>1, <1>2, <1>3, <1>6, <1>7 DEF IInv, WireInv, Unheard, Apart
  <1>9. ASSUME NEW w \in Version \ overtaken PROVE Followed(w)'
    <2>1. ASSUME NEW r, Follows(r, peering, w, replay) PROVE Follows(r, peering', w, replay')
      <3>1. CASE w = v
        BY <1>6, <2>1, <3>1
      <3>2. CASE w # v
        <4>1. Apart(peering, peering', w)
          BY <1>6, <3>2
        <4>2. replay' \subseteq replay /\ \A f \in replay \ replay' : f.network # w
          BY <1>1, <1>7, <3>2
        <4> QED
          BY <2>1, <4>1, <4>2, OtherFollows
      <3> QED
        BY <3>1, <3>2
    <2>2. w \in Version /\ Followed(w)
      BY <1>9 DEF IInv
    <2> QED
      BY <1>2, <2>1, <2>2, StillFollowed
  <1> QED
    BY <1>2, <1>6, <1>8, <1>9 DEF IInv

(* An event takes the store on, to the next map of its network.            *)
LEMMA EventHandled ==
  ASSUME NEW s, StoreOK(s), NEW v \in Version, NEW e \in EventsOf(v),
         NEW t, t = Handle(s, e)
  PROVE  /\ StoreOK(t) /\ \A w \in Version : w # v => Apart(s, t, w)
         /\ FollowsOn(s, t, v, e)
  <1> DEFINE a == e.source
             b == e.target
  <1>1. /\ e.network = v /\ a \in Peer /\ b \in Peer
        /\ e.type \in {"addNode", "removeNode", "connectNodes", "disconnectNodes"}
        /\ e.type \in {"connectNodes", "disconnectNodes"} => a # b
    BY EventOf DEF EventsOf
  <1>2. CASE e.type = "addNode"
    <2>1. t = OnAddNode(s, v, a)
      BY <1>1, <1>2 DEF Handle
    <2> QED
      BY <1>1, <1>2, <2>1, ReceivedAdd
  <1>3. CASE e.type = "removeNode"
    <2>1. t = OnRemoveNode(s, v, a)
      BY <1>1, <1>3 DEF Handle
    <2> QED
      BY <1>1, <1>3, <2>1, ReceivedRemove
  <1>4. CASE e.type = "connectNodes"
    <2>1. t = OnConnectNodes(s, v, a, b)
      BY <1>1, <1>4 DEF Handle
    <2> QED
      BY <1>1, <1>4, <2>1, ReceivedConnect
  <1>5. CASE e.type = "disconnectNodes"
    <2>1. t = OnDisconnectNodes(s, v, a, b)
      BY <1>1, <1>5 DEF Handle
    <2> QED
      BY <1>1, <1>5, <2>1, ReceivedDisconnect
  <1> QED
    BY <1>1, <1>2, <1>3, <1>4, <1>5

LEMMA ReceivedStep ==
  ASSUME IInv, NEW v \in Version, Received(v)
  PROVE  IInv'
  <1> DEFINE Q == queued[v]
             P == pool[v]
             h == Head(Q)
  <1>1. /\ copying = {} /\ replay = {} /\ Q # <<>>
        /\ queued' = [queued EXCEPT ![v] = Tail(@)] /\ peering' = Handle(peering, h)
        /\ UNCHANGED <<peeringSocket, pool, copying, replay, overtaken, map>>
    BY DEF Received, serverVars
  <1>2. /\ peeringSocket = "open" /\ StoreOK(peering)
        /\ Q \in Seq(EventsOf(v)) /\ P \in Seq(EventsOf(v))
        /\ DOMAIN queued' = Version /\ queued'[v] = Tail(Q)
        /\ \A w \in Version : w # v => queued'[w] = queued[w]
    BY <1>1 DEF IInv, WireInv
  <1> HIDE DEF Q, P
  <1>3. h \in EventsOf(v) /\ Tail(Q) \in Seq(EventsOf(v))
    BY <1>1, <1>2, HeadTailProperties
  <1>4. /\ StoreOK(peering') /\ FollowsOn(peering, peering', v, h)
        /\ \A w \in Version : w # v => Apart(peering, peering', w)
    <2> HIDE DEF h
    <2> QED
      BY <1>1, <1>2, <1>3, EventHandled
  <1>5. WireInv'
    <2>1. \A w \in Version : queued'[w] \in Seq(EventsOf(w))
      BY <1>2, <1>3 DEF IInv, WireInv
    <2> QED
      BY <1>1, <1>2, <2>1 DEF IInv, WireInv, Unheard
  <1>6. ASSUME NEW w \in Version \ overtaken, w # v PROVE Followed(w)'
    <2>1. w \in Version /\ Followed(w) /\ Apart(peering, peering', w)
      BY <1>4, <1>6 DEF IInv
    <2>2. replay' = replay /\ replay \subseteq replay /\ \A e \in replay \ replay : e.network # w
      BY <1>1
    <2>3. \A r : Follows(r, peering, w, replay) => Follows(r, peering', w, replay')
      BY <2>1, <2>2, OtherFollows
    <2> QED
      BY <1>1, <1>2, <1>6, <2>1, <2>3, StillFollowed
  <1>7. ASSUME v \notin overtaken PROVE Followed(v)'
    <2> DEFINE F == Q \o P
    <2>1. PICK r : Maps(r, F, map[v]) /\ Follows(r, peering, v, {})
      BY <1>1, <1>2, <1>7 DEF IInv, Followed, Q, P
    <2>2. F \in Seq(EventsOf(v)) /\ F # <<>> /\ Head(F) = h /\ Tail(F) = Tail(Q) \o P
      BY <1>1, <1>2, HeadOfConcat, ConcatProperties
    <2> HIDE DEF F, h
    <2>3. /\ r[1] \in NetworkMap /\ r[2] \in NetworkMap /\ Leads(r[1], Head(F), r[2])
          /\ \E q : Maps(q, Tail(F), map[v]) /\ Later(r, q)
      BY <2>1, <2>2, MapsShrink
    <2>4. PICK q : Maps(q, Tail(F), map[v]) /\ Later(r, q)
      BY <2>3
    <2>5. 1 \in DOMAIN q /\ \A j \in DOMAIN q : q[j] \in NetworkMap
      <3> DEFINE k == Len(Tail(F))
      <3>1. k \in Nat /\ q \in [1..(k + 1) -> NetworkMap]
        <4>1. Tail(F) \in Seq(EventsOf(v))
          BY <2>2, HeadTailProperties
        <4> QED
          BY <2>4, <4>1, LenProperties DEF Maps
      <3> HIDE DEF k
      <3> QED
        BY <3>1
    <2>6. Passed(r, q, h)
      BY <2>2, <2>3, <2>4, <2>5 DEF Passed, Later
    <2>7. Follows(q, peering', v, {})
      BY <1>4, <2>1, <2>6 DEF FollowsOn
    <2>8. Maps(q, queued'[v] \o pool'[v], map'[v])
      BY <1>1, <1>2, <2>2, <2>4 DEF P
    <2> QED
      BY <1>1, <2>7, <2>8 DEF Followed
  <1>8. ReplayOK(peering, replay)'
    BY <1>1 DEF ReplayOK
  <1> QED
    BY <1>1, <1>4, <1>5, <1>6, <1>7, <1>8 DEF IInv

LEMMA CloseStep ==
  ASSUME IInv, CloseSocket
  PROVE  IInv'
  <1>1. /\ peeringSocket' = "closed" /\ copying' = {} /\ replay' = {}
        /\ queued' = [v \in Version |-> <<>>]
        /\ UNCHANGED <<peering, pool, overtaken, map>>
    BY DEF CloseSocket, serverVars
  <1>2. WireInv'
    BY <1>1, EmptySeq DEF IInv, WireInv, Unheard
  <1>3. ASSUME NEW v \in Version \ overtaken PROVE Followed(v)'
    <2> DEFINE P == pool[v]
               Q == queued[v]
    <2>1. P \in Seq(EventsOf(v)) /\ Q \in Seq(EventsOf(v)) /\ queued'[v] = <<>> /\ pool'[v] = P
      BY <1>1, <1>3 DEF IInv, WireInv
    <2>2. \E r : Maps(r, Q \o P, map[v])
      BY <1>3 DEF IInv, Followed
    <2> HIDE DEF P, Q
    <2>3. \E q : Maps(q, P, map[v])
      BY <2>1, <2>2, MapsSuffix
    <2>4. queued'[v] \o pool'[v] = P
      BY <2>1, ConcatEmptySeq
    <2> QED
      BY <1>1, <2>3, <2>4 DEF Followed
  <1>4. ReplayOK(peering, replay)'
    BY <1>1 DEF ReplayOK
  <1> QED
    BY <1>1, <1>2, <1>3, <1>4 DEF IInv

-----------------------------------------------------------------------------
(* The page and its user, and all steps.                                   *)
LEMMA PageStep ==
  ASSUME IInv, NEW t, AtPage(t), StoreOK(t), SameData(peering, t), GraphKept(peering, t, {})
  PROVE  IInv'
  <1>1. peering' = t /\ UNCHANGED <<peeringSocket, pool, copying, replay, queued, overtaken, map>>
    BY DEF AtPage, wireVars, serverVars
  <1>2. WireInv'
    BY <1>1 DEF IInv, WireInv, Unheard, SameData
  <1>3. /\ ReplayOK(peering, replay) => ReplayOK(t, replay)
        /\ \A r, v : Follows(r, peering, v, replay) => Follows(r, t, v, replay)
    BY UserFollows
  <1>4. ASSUME NEW v \in Version \ overtaken PROVE Followed(v)'
    BY <1>1, <1>3, <1>4, StillFollowed DEF IInv
  <1> QED
    BY <1>1, <1>2, <1>3, <1>4 DEF IInv

LEMMA UserStep ==
  ASSUME IInv,
         \/ Mount \/ Unmount \/ ColorTimer
         \/ \E n \in Peer : ClickNode(n)
         \/ \E v \in Version : SelectVersion(v)
         \/ \E checked \in BOOLEAN : SwitchManaColoring(checked)
         \/ \E nodes \in ManaLists : UpdateActiveRichest(nodes)
  PROVE  IInv'
  <1>0. StoreOK(peering)
    BY DEF IInv
  <1>1. CASE Mount \/ Unmount
    BY <1>0, <1>1, MountKeeps, PageStep DEF Mount, Unmount
  <1>2. CASE ColorTimer
    BY <1>0, <1>2, TimerKeeps, PageStep DEF ColorTimer
  <1>3. CASE \E n \in Peer : ClickNode(n)
    BY <1>0, <1>3, TimerKeeps, PageStep DEF ClickNode
  <1>4. CASE \E v \in Version : SelectVersion(v)
    BY <1>0, <1>4, SelectVersionKeeps, PageStep DEF SelectVersion
  <1>5. CASE \E checked \in BOOLEAN : SwitchManaColoring(checked)
    BY <1>0, <1>5, ColoringKeeps, PageStep DEF SwitchManaColoring
  <1>6. CASE \E nodes \in ManaLists : UpdateActiveRichest(nodes)
    BY <1>0, <1>6, RichestKeeps, PageStep DEF UpdateActiveRichest
  <1> QED
    BY <1>1, <1>2, <1>3, <1>4, <1>5, <1>6

LEMMA Inductive == IInv /\ [PeeringNext]_peeringVars => IInv'
  <1> SUFFICES ASSUME IInv, [PeeringNext]_peeringVars PROVE IInv'
    OBVIOUS
  <1>1. CASE UNCHANGED peeringVars
    <2>1. UNCHANGED <<peering, map, pool, queued, copying, replay, overtaken, peeringSocket>>
      BY <1>1 DEF peeringVars, wireVars, serverVars
    <2>2. WireInv'
      BY <2>1 DEF IInv, WireInv, Unheard
    <2>3. \A v \in Version \ overtaken : Followed(v)'
      BY <2>1 DEF IInv, Followed
    <2> QED
      BY <2>1, <2>2, <2>3 DEF IInv
  <1>2. CASE PeeringNext
    <2>1. CASE \E v \in Version :
                 \/ \E n \in Peer : ServerAddNode(v, n) \/ ServerRemoveNode(v, n)
                 \/ \E a, b \in Peer : ServerConnectNodes(v, a, b)
                 \/ \E link \in map[v].links : ServerDisconnectNodes(v, link)
      BY <2>1, ServerStep
    <2>2. CASE \E v \in Version : \E i \in DOMAIN pool[v] : SendEvent(v, i)
      BY <2>2, SendStep
    <2>3. CASE \E v \in Version : ReplayAutopeeringEvents(v) \/ Received(v)
      BY <2>3, ReplayStep, ReceivedStep
    <2>4. CASE RegisterWSClient \/ Replayed \/ CloseSocket
      BY <2>4, RegisterStep, ReplayedStep, CloseStep
    <2>5. CASE \/ Mount \/ Unmount \/ ColorTimer
               \/ \E n \in Peer : ClickNode(n)
               \/ \E v \in Version : SelectVersion(v)
               \/ \E checked \in BOOLEAN : SwitchManaColoring(checked)
               \/ \E nodes \in ManaLists : UpdateActiveRichest(nodes)
      BY <2>5, UserStep
    <2> QED
      BY <1>2, <2>1, <2>2, <2>3, <2>4, <2>5 DEF PeeringNext
  <1> QED
    BY <1>1, <1>2

LEMMA Invariant == PeeringSpec => []IInv
  BY InitIInv, Inductive, PTL DEF PeeringSpec

-----------------------------------------------------------------------------
(* Once settled no event is to come, so every node and link is steady.     *)
LEMMA SettledStore ==
  ASSUME IInv, Settled, NEW v \in Version \ overtaken
  PROVE  /\ peering.nodes[v] = map[v].nodes
         /\ peering.connections[v] = map[v].links
         /\ peering.graph /\ peering.selected = v =>
              peering.connections[v] \subseteq DOMAIN peering.links
  <1>1. /\ peeringSocket = "open" /\ copying = {} /\ replay = {}
        /\ pool[v] = <<>> /\ queued[v] = <<>> /\ map[v] \in NetworkMap
    BY DEF IInv, WireInv, Settled
  <1>2. queued[v] \o pool[v] = <<>>
    BY <1>1, ConcatEmptySeq, EmptySeq
  <1>3. PICK r : Maps(r, <<>>, map[v]) /\ Follows(r, peering, v, {})
    BY <1>1, <1>2 DEF IInv, Followed
  <1>4. DOMAIN r = {1} /\ r[1] = map[v]
    <2>1. Len(<<>>) + 1 = 1 /\ 1..1 = {1}
      BY EmptySeq
    <2> QED
      BY <1>3, <2>1 DEF Maps
  <1>5. peering.nodes[v] \subseteq Peer /\ peering.connections[v] \subseteq Peer \X Peer
    BY DEF IInv, StoreOK, NetworksOK, Network
  <1>6. map[v].nodes \subseteq Peer /\ map[v].links \subseteq Peer \X Peer
    BY <1>1, MapFacts
  <1>7. peering.nodes[v] = map[v].nodes
    <2>1. \A n \in Peer : n \in peering.nodes[v] <=> n \in map[v].nodes
      BY <1>3, <1>4 DEF Follows, KnowsNodes, NodeSteady
    <2> QED
      BY <1>5, <1>6, <2>1
  <1>8. peering.connections[v] = map[v].links
    <2>1. \A a, b \in Peer : <<a, b>> \in peering.connections[v] <=> <<a, b>> \in map[v].links
      BY <1>3, <1>4 DEF Follows, KnowsLinks, LinkSteady
    <2>2. \A l \in Peer \X Peer : l \in peering.connections[v] <=> l \in map[v].links
      BY <2>1
    <2> QED
      BY <1>5, <1>6, <2>2
  <1>9. ASSUME peering.graph, peering.selected = v, NEW l \in peering.connections[v]
        PROVE  l \in DOMAIN peering.links
    <2>1. PICK a \in Peer, b \in Peer : l = <<a, b>>
      BY <1>5, <1>9
    <2>2. <<a, b>> \in r[1].links
      BY <1>4, <1>8, <1>9, <2>1
    <2> QED
      BY <1>3, <1>9, <2>1, <2>2 DEF Follows, DrawsLinks
  <1> QED
    BY <1>7, <1>8, <1>9

(* Whatever the networks, the events of the server and their number, when  *)
(* a client connects among them and what its user does meanwhile: once the *)
(* replay and the events queued around it are handled the store has the    *)
(* nodes, connections, neighbors and versions the server has of every      *)
(* network whose events were sent in their order, in whatever order and    *)
(* with whatever losses those of the other networks were.                  *)
THEOREM StoreFollowsServer == PeeringSpec => []StoreMirrorsServer
  <1>1. IInv => StoreMirrorsServer
    <2> SUFFICES ASSUME IInv, Settled, NEW v \in Version \ overtaken
                 PROVE  /\ peering.nodes[v] = map[v].nodes
                        /\ peering.connections[v] = map[v].links
                        /\ Links(peering.neighbors[v]) = map[v].links
                        /\ v \in peering.versions <=> map[v].nodes # {}
      BY DEF StoreMirrorsServer
    <2>1. peering.nodes[v] = map[v].nodes /\ peering.connections[v] = map[v].links
      BY SettledStore
    <2>2. Links(peering.neighbors[v]) = peering.connections[v]
      BY DEF IInv, StoreOK, NetworksOK, Network
    <2>3. v \in peering.versions <=> peering.nodes[v] # {}
      BY DEF IInv, StoreOK, VersionsOK
    <2> QED
      BY <2>1, <2>2, <2>3
  <1> QED
    BY <1>1, Invariant, PTL

(* The graph has every node of the network the user looks at and no link   *)
(* without its nodes, in every state and whatever the order of the events; *)
(* once settled it has every connection of that network, if its events     *)
(* were sent in their order, whichever networks and pages were shown in    *)
(* between.                                                                *)
THEOREM GraphFollowsStore == PeeringSpec => []GraphShowsNetwork
  <1>1. IInv => GraphShowsNetwork
    <2> DEFINE v == peering.selected
    <2> SUFFICES ASSUME IInv, peering.graph
                 PROVE  /\ peering.nodes[v] \subseteq DOMAIN peering.color
                        /\ \A l \in BagToSet(peering.links) :
                             {l[1], l[2]} \subseteq DOMAIN peering.color
                        /\ Settled /\ v \notin overtaken =>
                             peering.connections[v] \subseteq BagToSet(peering.links)
      BY DEF GraphShowsNetwork
    <2>1. /\ peering.nodes[v] \subseteq DOMAIN peering.color
          /\ \A l \in DOMAIN peering.links : {l[1], l[2]} \subseteq DOMAIN peering.color
      BY DEF IInv, StoreOK, ViewOK, DrawnOK
    <2>2. ASSUME Settled, v \notin overtaken
          PROVE  peering.connections[v] \subseteq DOMAIN peering.links
      <3>1. CASE v = 0
        BY <3>1 DEF IInv, StoreOK, NetworksOK, Network
      <3>2. CASE v # 0
        <4>1. v \in Version
          BY <3>2, SelectedIsNetwork DEF IInv, StoreOK, ViewOK, Network
        <4> QED
          BY <2>2, <4>1, SettledStore
      <3> QED
        BY <3>1, <3>2
    <2> QED
      BY <2>1, <2>2 DEF BagToSet
  <1> QED
    BY <1>1, Invariant, PTL

(* The choice of the user stands exactly as long as its network exists,    *)
(* and else the last version is shown, for any versions that come and go.  *)
THEOREM ChoiceStands == PeeringSpec => []ChosenNetworkShown
  <1>1. IInv => ChosenNetworkShown
    BY DEF IInv, StoreOK, ViewOK, ChoiceOK, ChosenNetworkShown
  <1> QED
    BY <1>1, Invariant, PTL

(* No node keeps the colour of its mana once the colouring is off, for any *)
(* selections, redraws and lists of nodes before, in between and after.    *)
THEOREM NoColorStays == PeeringSpec => []ColoringOffLeavesNoColor
  <1>1. IInv => ColoringOffLeavesNoColor
    BY DEF IInv, StoreOK, ViewOK, ColorsOK, ColoringOffLeavesNoColor
  <1> QED
    BY <1>1, Invariant, PTL
=============================================================================
