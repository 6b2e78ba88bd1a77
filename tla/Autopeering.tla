------------------------------ MODULE Autopeering ------------------------------
(***************************************************************************)
(* The autopeering visualizer of the network analyzer                      *)
(* (plugins/analysis/dashboard/frontend/src/app: stores/AutopeeringStore,  *)
(* services/WS, services/WSmana, components/Autopeering and App).  The     *)
(* analysis server keeps a map of every network from heartbeats and        *)
(* announces its changes by events, whose handlers are attached: each runs *)
(* as a task of its own, and submits to the worker pool that sends to the  *)
(* clients when its turn comes.  A client that connects is registered, and *)
(* replayed the maps, one after the other, before the events sent since.   *)
(*                                                                         *)
(* The store is a record and a handler an operator from stores to stores;  *)
(* where a handler throws, the operator keeps what it assigned before.     *)
(* Networks are numbers in the order localeCompare gives their versions,   *)
(* 0 stands for the empty version.  Left out: edge colours, the sizes of   *)
(* nodes, and the spacing that follows the number of nodes beyond thirty.  *)
(***************************************************************************)
EXTENDS Integers, Bags, FiniteSetsExt, SequencesExt

CONSTANTS Version,
          Peer, NoPeer,    \* the nodes of a network
          MaxEvents,       \* bound: events of the server
          InitialMaps,     \* bound: what the server knows at first
          ManaLists        \* bound: the nodes of a list with their mana

(* What the server knows of a network: its nodes and links.                *)
NetworkMap ==
  {m \in [nodes : SUBSET Peer, links : SUBSET (Peer \X Peer)] :
     \A l \in m.links : l[1] # l[2] /\ {l[1], l[2]} \subseteq m.nodes}

ASSUME AutopeeringConstants ==
  /\ Version \subseteq Nat \ {0}
  /\ NoPeer \notin Peer /\ MaxEvents \in Nat
  /\ InitialMaps \subseteq [Version -> NetworkMap]

VARIABLES
  peering,        \* the AutopeeringStore
  mounted,        \* the page is shown
  peeringSocket, websocketUp,   \* the socket of services/WS
  map,            \* the server: by network a NetworkMap,
  pool, events,   \* its events not sent yet, and how many there were
  copying,        \* the networks a client has yet to be replayed
  replay, queued, \* on their way to the client: what is left of the replay,
                  \* and the events sent since it was registered
  overtaken       \* history: the networks of which an event was sent before
                  \* an earlier one
(* pool and queued are kept by network: as the tasks run in any order, and *)
(* networks share no data, the order among networks tells nothing apart.   *)

serverVars == <<map, events>>
wireVars == <<peeringSocket, websocketUp, pool, copying, replay, queued, overtaken>>
peeringVars == <<peering, mounted, wireVars, serverVars>>

NoNeighbors == [in |-> {}, out |-> {}]
InitialPeering ==
  [versions |-> {}, selected |-> 0, userSelected |-> 0,
   nodes |-> [v \in Version \union {0} |-> {}],   \* {}: not in the map
   connections |-> [v \in Version \union {0} |-> {}],
   neighbors |-> [v \in Version \union {0} |-> <<>>],     \* by node; <<>>: not in the map
   selectedNode |-> NoPeer, selectionActive |-> FALSE,
   neighborsOf |-> NoPeer,    \* whose sets of neighbors the selection holds
   manaColoringActive |-> FALSE, nodeManaColors |-> {},
   graphics |-> FALSE,        \* a graph was drawn before
   graph |-> FALSE,           \* a graph is drawn: its links and the colours
   links |-> EmptyBag,        \* of its nodes
   color |-> <<>>]

-----------------------------------------------------------------------------
(* Selection and colours.                                                  *)
SelectedNeighbors(s) ==
  IF s.neighborsOf = NoPeer THEN NoNeighbors
  ELSE s.neighbors[s.selected][s.neighborsOf]

UpdateNodeColoring(s) ==
  IF ~s.manaColoringActive \/ s.selectionActive \/ ~s.graphics THEN s
  ELSE [s EXCEPT !.color = [n \in DOMAIN @ |->
                              IF n \in s.nodeManaColors THEN "mana" ELSE @[n]]]

DisableNodeColoring(s) ==
  IF ~s.graphics THEN s
  ELSE [s EXCEPT !.color = [n \in DOMAIN @ |->
                              IF n \in s.nodeManaColors THEN "default" ELSE @[n]]]

(* resetPreviousColors updates the colouring too, but does so while the    *)
(* selection is still active.                                              *)
ResetPreviousColors_ToMana(s) ==
  LET sel == SelectedNeighbors(s)
      highlighted == {s.selectedNode} \union sel.in \union sel.out
      Previous(n) == IF n \in s.nodeManaColors THEN "mana" ELSE "default"
  IN  IF ~s.selectionActive \/ ~s.graph THEN s
      ELSE UpdateNodeColoring([s EXCEPT !.color = [n \in DOMAIN @ |->
             IF n \in highlighted THEN Previous(n) ELSE @[n]]])

ResetPreviousColors(s) ==
  LET sel == SelectedNeighbors(s)
      highlighted == {s.selectedNode} \union sel.in \union sel.out
      Previous(n) == IF s.manaColoringActive /\ n \in s.nodeManaColors
                     THEN "mana" ELSE "default"
  IN  IF ~s.selectionActive \/ ~s.graph THEN s
      ELSE UpdateNodeColoring([s EXCEPT !.color = [n \in DOMAIN @ |->
             IF n \in highlighted THEN Previous(n) ELSE @[n]]])

ShowHighlight(s) ==
  LET sel == SelectedNeighbors(s)
  IN  IF ~s.graph THEN s
      ELSE [s EXCEPT !.color = [n \in DOMAIN @ |->
              CASE n \in sel.out -> "out"
                [] n \in sel.in \ sel.out -> "in"
                [] n = s.selectedNode /\ n \notin sel.in \union sel.out -> "active"
                [] OTHER -> @[n]]]

ClearNodeSelection(s, resetPrevColors) ==
  [(IF resetPrevColors THEN ResetPreviousColors(s) ELSE s)
     EXCEPT !.selectedNode = NoPeer, !.neighborsOf = NoPeer,
            !.selectionActive = FALSE]

(* It returns early when the node is not known, and throws when no nodes   *)
(* of the network have been connected yet.                                 *)
UpdateSelectedNode(s, n) ==
  LET t == [s EXCEPT !.selectedNode = n]
      known == DOMAIN s.neighbors[s.selected]
  IN  IF n \notin s.nodes[s.selected] \/ known = {} THEN t
      ELSE ShowHighlight([t EXCEPT !.neighborsOf = IF n \in known THEN n ELSE NoPeer,
                                   !.selectionActive = TRUE])

HandleNodeSelection(s, n) ==
  IF s.selectionActive /\ s.selectedNode = n THEN ClearNodeSelection(s, TRUE)
  ELSE UpdateSelectedNode(ResetPreviousColors(s), n)

HandleManaColoringChange(s, checked) ==
  LET t == [s EXCEPT !.manaColoringActive = checked]
  IN  IF checked = s.manaColoringActive THEN s
      ELSE IF checked THEN UpdateNodeColoring(t) ELSE DisableNodeColoring(t)

-----------------------------------------------------------------------------
(* The graph.                                                              *)
DrawNodes(s, nodes) ==
  IF ~s.graph THEN s
  ELSE [s EXCEPT !.color = [n \in DOMAIN @ \union nodes |->
                              IF n \in DOMAIN @ THEN @[n] ELSE "default"]]

(* Links are drawn again if they are there, and draw their nodes.          *)
AddLinks(s, links) ==
  LET t == DrawNodes(s, UNION {{l[1], l[2]} : l \in links})
  IN  [t EXCEPT !.links = @ (+) SetToBag(links)]

RemoveFromGraph(s, n) ==
  [s EXCEPT !.color = Restrict(@, DOMAIN @ \ {n}),
            !.links = Restrict(@, {l \in DOMAIN @ : n \notin {l[1], l[2]}})]

Links(neighbors) ==
  UNION {{n} \X neighbors[n].out : n \in DOMAIN neighbors}

InitialDrawGraph_OnlyNodes(s) == DrawNodes(s, s.nodes[s.selected])

InitialDrawGraph(s) ==
  AddLinks(DrawNodes(s, s.nodes[s.selected]), Links(s.neighbors[s.selected]))

StartGraph(s) ==
  UpdateNodeColoring(InitialDrawGraph(
    [s EXCEPT !.graph = TRUE, !.graphics = TRUE, !.links = EmptyBag, !.color = <<>>]))

StopGraph(s) == [s EXCEPT !.graph = FALSE, !.links = EmptyBag, !.color = <<>>]

HandleVersionSelection(s, version) ==
  LET t == [s EXCEPT !.userSelected = version]
  IN  IF s.selected = version THEN t
      ELSE StartGraph(StopGraph([ClearNodeSelection(t, TRUE) EXCEPT !.selected = version]))

(* A graph that was shown before is drawn, also when the page is not.      *)
HandleAutoVersionSelection_KeepsChoice(s, version) ==
  LET t == [ClearNodeSelection(s, FALSE) EXCEPT !.selected = version]
  IN  IF s.selected = version THEN s
      ELSE IF s.graphics THEN StartGraph(StopGraph(t)) ELSE t

HandleAutoVersionSelection(s, version) ==
  LET t == [ClearNodeSelection(s, FALSE)
              EXCEPT !.userSelected = 0, !.selected = version]
  IN  IF s.selected = version THEN s
      ELSE IF s.graphics THEN StartGraph(StopGraph(t)) ELSE t

AutoSelectNetwork(s) == IF s.versions = {} THEN 0 ELSE Max(s.versions)

-----------------------------------------------------------------------------
(* The handlers of the messages.                                           *)
Displayed(s, v) == s.graph /\ s.selected = v

(* The newest version is shown unless the user has chosen one.             *)
AddVersion(s, v) ==
  LET added == [s EXCEPT !.versions = @ \union {v}]
  IN  IF v \in s.versions \/ s.userSelected # 0 THEN added
      ELSE HandleAutoVersionSelection(added, AutoSelectNetwork(added))

OnAddNode(s, v, n) ==
  LET t == AddVersion(s, v)
      set == [t EXCEPT !.nodes[v] = @ \union {n}]
  IN  IF n \in t.nodes[v] THEN t
      ELSE IF t.selected = v THEN DrawNodes(set, {n}) ELSE set

OnRemoveNode_KeepsVersion(s, v, n) ==
  LET erased == IF Displayed(s, v) THEN RemoveFromGraph(s, n) ELSE s
      t == [erased EXCEPT !.nodes[v] = @ \ {n}]
      gone == [t EXCEPT !.neighbors[v] = <<>>, !.connections[v] = {}]
  IN  IF n \notin s.nodes[v] THEN s
      ELSE IF t.nodes[v] # {} THEN t ELSE gone

OnRemoveNode(s, v, n) ==
  LET erased == IF Displayed(s, v) THEN RemoveFromGraph(s, n) ELSE s
      t == [erased EXCEPT !.nodes[v] = @ \ {n}]
      gone == [t EXCEPT !.neighbors[v] = <<>>, !.connections[v] = {},
                        !.versions = @ \ {v}]
  IN  IF n \notin s.nodes[v] THEN s
      ELSE IF t.nodes[v] # {} THEN t
      ELSE IF s.selected = v
           THEN HandleAutoVersionSelection(gone, AutoSelectNetwork(gone)) ELSE gone

NeighborsOf(neighbors, n) ==
  IF n \in DOMAIN neighbors THEN neighbors[n] ELSE NoNeighbors

OnConnectNodes(s, v, source, target) ==
  LET t == IF s.nodes[v] # {} THEN s ELSE OnAddNode(OnAddNode(s, v, source), v, target)
      drawn == IF Displayed(t, v) THEN AddLinks(t, {<<source, target>>}) ELSE t
      connected(nb) ==
        [n \in DOMAIN nb \union {source, target} |->
           CASE n = source -> [NeighborsOf(nb, n) EXCEPT !.out = @ \union {target}]
             [] n = target -> [NeighborsOf(nb, n) EXCEPT !.in = @ \union {source}]
             [] OTHER -> nb[n]]
  IN  IF ~({source, target} \subseteq t.nodes[v]) THEN t
      ELSE [drawn EXCEPT !.connections[v] = @ \union {<<source, target>>},
                         !.neighbors[v] = connected(@)]

(* A link that the graph does not have is not looked for in the data; a    *)
(* node that was never connected throws.                                   *)
OnDisconnectNodes(s, v, source, target) ==
  LET link == <<source, target>>
      erased == IF Displayed(s, v) THEN [s EXCEPT !.links = @ (-) SetToBag({link})] ELSE s
      t == [erased EXCEPT !.connections[v] = @ \ {link}]
      known == DOMAIN s.neighbors[v]
  IN  IF Displayed(s, v) /\ ~BagIn(link, s.links) THEN s
      ELSE IF source \notin known THEN t
      ELSE IF target \notin known THEN [t EXCEPT !.neighbors[v][source].out = @ \ {target}]
      ELSE [t EXCEPT !.neighbors[v][source].out = @ \ {target},
                     !.neighbors[v][target].in = @ \ {source}]

Handle(s, e) ==
  CASE e.type = "addNode"         -> OnAddNode(s, e.network, e.source)
    [] e.type = "removeNode"      -> OnRemoveNode(s, e.network, e.source)
    [] e.type = "connectNodes"    -> OnConnectNodes(s, e.network, e.source, e.target)
    [] e.type = "disconnectNodes" -> OnDisconnectNodes(s, e.network, e.source, e.target)

-----------------------------------------------------------------------------
PeeringInit ==
  /\ peering = InitialPeering /\ mounted = FALSE
  /\ peeringSocket = "none" /\ websocketUp = FALSE
  /\ map \in InitialMaps
  /\ pool = [v \in Version |-> <<>>] /\ events = 0
  /\ copying = {} /\ replay = {} /\ queued = [v \in Version |-> <<>>]
  /\ overtaken = {}

(* The server: the map changes and an event is triggered.  Nodes are added *)
(* before they are connected, and a clean-up disconnects them before it    *)
(* removes them.                                                           *)
Event(type, v, source, target) ==
  [type |-> type, network |-> v, source |-> source, target |-> target]

Trigger(e) ==
  /\ events < MaxEvents /\ events' = events + 1
  /\ pool' = [pool EXCEPT ![e.network] = Append(@, e)]
  /\ UNCHANGED <<peering, mounted, peeringSocket, websocketUp, copying, replay,
                 queued, overtaken>>

ServerAddNode(v, n) ==
  /\ n \notin map[v].nodes
  /\ map' = [map EXCEPT ![v].nodes = @ \union {n}]
  /\ Trigger(Event("addNode", v, n, n))

ServerConnectNodes(v, a, b) ==
  /\ a # b /\ {a, b} \subseteq map[v].nodes /\ <<a, b>> \notin map[v].links
  /\ map' = [map EXCEPT ![v].links = @ \union {<<a, b>>}]
  /\ Trigger(Event("connectNodes", v, a, b))

ServerDisconnectNodes(v, link) ==
  /\ map' = [map EXCEPT ![v].links = @ \ {link}]
  /\ Trigger(Event("disconnectNodes", v, link[1], link[2]))

ServerRemoveNode(v, n) ==
  /\ n \in map[v].nodes /\ \A l \in map[v].links : n \notin {l[1], l[2]}
  /\ map' = [map EXCEPT ![v].nodes = @ \ {n}]
  /\ Trigger(Event("removeNode", v, n, n))

(* The i-th event of a network not sent yet reaches the worker pool, and   *)
(* is broadcast to the clients that are registered.                        *)
SendEvent(v, i) ==
  /\ pool' = [pool EXCEPT ![v] = RemoveAt(@, i)]
  /\ queued' = IF peeringSocket = "open"
               THEN [queued EXCEPT ![v] = Append(@, pool[v][i])] ELSE queued
  /\ overtaken' = IF i = 1 THEN overtaken ELSE overtaken \union {v}
  /\ UNCHANGED <<peering, mounted, peeringSocket, websocketUp, copying, replay, serverVars>>

(* App is mounted and connects; websocketRoute registers the client first. *)
RegisterWSClient ==
  /\ peeringSocket = "none"
  /\ peeringSocket' = "open" /\ websocketUp' = TRUE
  /\ copying' = Version
  /\ UNCHANGED <<peering, mounted, pool, replay, queued, overtaken, serverVars>>

(* The map of a network is copied and sent.                                *)
ReplayAutopeeringEvents(v) ==
  /\ v \in copying /\ copying' = copying \ {v}
  /\ replay' = replay \union {Event("addNode", v, n, n) : n \in map[v].nodes}
               \union {Event("connectNodes", v, l[1], l[2]) : l \in map[v].links}
  /\ UNCHANGED <<peering, mounted, peeringSocket, websocketUp, pool, queued,
                 overtaken, serverVars>>

(* A network is replayed in some order, its nodes before its links.        *)
Replayed ==
  /\ \E e \in replay :
       /\ e.type = "connectNodes" =>
            \A f \in replay : f.network = e.network => f.type # "addNode"
       /\ replay' = replay \ {e}
       /\ peering' = Handle(peering, e)
  /\ UNCHANGED <<mounted, peeringSocket, websocketUp, pool, copying, queued,
                 overtaken, serverVars>>

Received(v) ==
  /\ copying = {} /\ replay = {} /\ queued[v] # <<>>
  /\ queued' = [queued EXCEPT ![v] = Tail(@)]
  /\ peering' = Handle(peering, Head(queued[v]))
  /\ UNCHANGED <<mounted, peeringSocket, websocketUp, pool, copying, replay,
                 overtaken, serverVars>>

(* reconnect() does nothing: the closed socket is still the one socket of  *)
(* services/WS, and connectWebSocket returns when there is one.            *)
CloseSocket ==
  /\ peeringSocket = "open"
  /\ peeringSocket' = "closed" /\ websocketUp' = FALSE
  /\ copying' = {} /\ replay' = {} /\ queued' = [v \in Version |-> <<>>]
  /\ UNCHANGED <<peering, mounted, pool, overtaken, serverVars>>

-----------------------------------------------------------------------------
(* The page and its user.                                                  *)
AtPage(s) == peering' = s /\ UNCHANGED <<wireVars, serverVars>>

Mount ==
  /\ ~mounted /\ mounted' = TRUE
  /\ AtPage(StartGraph(peering))

Unmount ==
  /\ mounted /\ mounted' = FALSE
  /\ AtPage(StopGraph(peering))

(* A click on a node of the graph, of the list or of the neighbors.        *)
ClickNode(n) ==
  /\ mounted /\ UNCHANGED mounted
  /\ LET sel == SelectedNeighbors(peering)
     IN  n \in DOMAIN peering.color \union peering.nodes[peering.selected]
                 \union sel.in \union sel.out
  /\ AtPage(HandleNodeSelection(peering, n))

SelectVersion(v) ==
  /\ mounted /\ UNCHANGED mounted
  /\ v \in peering.versions
  /\ AtPage(HandleVersionSelection(peering, v))

SwitchManaColoring(checked) ==
  /\ mounted /\ UNCHANGED mounted
  /\ AtPage(HandleManaColoringChange(peering, checked))

(* The timer of start, and a message of the node that has the mana with    *)
(* the consensus mana of some nodes (updateActiveRichest of ManaStore).    *)
ColorTimer ==
  /\ peering.graph /\ UNCHANGED mounted
  /\ AtPage(UpdateNodeColoring(peering))

UpdateActiveRichest(nodes) ==
  /\ UNCHANGED mounted
  /\ AtPage([peering EXCEPT !.nodeManaColors = @ \union nodes])

PeeringNext ==
  \/ \E v \in Version : \/ \E n \in Peer : ServerAddNode(v, n) \/ ServerRemoveNode(v, n)
                        \/ \E a, b \in Peer : ServerConnectNodes(v, a, b)
                        \/ \E link \in map[v].links : ServerDisconnectNodes(v, link)
                        \/ \E i \in DOMAIN pool[v] : SendEvent(v, i)
                        \/ ReplayAutopeeringEvents(v) \/ Received(v)
  \/ RegisterWSClient \/ Replayed \/ CloseSocket
  \/ Mount \/ Unmount
  \/ \E n \in Peer : ClickNode(n)
  \/ \E v \in Version : SelectVersion(v)
  \/ \E checked \in BOOLEAN : SwitchManaColoring(checked)
  \/ ColorTimer
  \/ \E nodes \in ManaLists : UpdateActiveRichest(nodes)

PeeringSpec == PeeringInit /\ [][PeeringNext]_peeringVars

-----------------------------------------------------------------------------
(* The replay and the events queued around it have been handled.           *)
Settled ==
  /\ peeringSocket = "open" /\ copying = {} /\ replay = {}
  /\ \A v \in Version : pool[v] = <<>> /\ queued[v] = <<>>

(* Once settled the store has the networks of the server whose events were *)
(* sent in their order, whatever part of them it was told twice, late, or  *)
(* of nodes that had left by then.                                         *)
StoreMirrorsServer ==
  Settled =>
    \A v \in Version \ overtaken :
      /\ peering.nodes[v] = map[v].nodes
      /\ peering.connections[v] = map[v].links
      /\ Links(peering.neighbors[v]) = map[v].links
      /\ v \in peering.versions <=> map[v].nodes # {}

(* The graph always has every node of the network the user looks at and no *)
(* link without its nodes, whatever the order of events.  Once settled it  *)
(* has all connections of that network, if its events were sent in order,  *)
(* through every switch of networks and pages (and a link more where one   *)
(* was announced twice and then ended).                                    *)
GraphShowsNetwork ==
  peering.graph =>
    /\ peering.nodes[peering.selected] \subseteq DOMAIN peering.color
    /\ \A l \in BagToSet(peering.links) : {l[1], l[2]} \subseteq DOMAIN peering.color
    /\ Settled /\ peering.selected \notin overtaken =>
         peering.connections[peering.selected] \subseteq BagToSet(peering.links)

(* The choice of the user stands as long as the network exists; without    *)
(* one the network shown is the last in the order of the versions.         *)
ChosenNetworkShown ==
  /\ peering.userSelected # 0 => /\ peering.selected = peering.userSelected
                                 /\ peering.selected \in peering.versions
  /\ peering.userSelected = 0 => peering.selected = AutoSelectNetwork(peering)

(* Once the colouring by mana is off no node keeps the colour of its mana, *)
(* whatever was selected and drawn before, in between and after.           *)
ColoringOffLeavesNoColor ==
  ~peering.manaColoringActive =>
    \A n \in DOMAIN peering.color : peering.color[n] # "mana"
===============================================================================
