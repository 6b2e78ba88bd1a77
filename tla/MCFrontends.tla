------------------------------ MODULE MCFrontends ------------------------------
(***************************************************************************)
(* The three browser applications for TLC: the node dashboard, the         *)
(* analysis dashboard and the DAGs visualizer.  Their parts share no state *)
(* a user could tell, so a behaviour drives one of them: focus says which, *)
(* and bounds what is done in it.                                          *)
(***************************************************************************)
EXTENDS Explorer, Visualizer, NodeFeeds, Autopeering, DagsVisualizer, TLC

CONSTANTS x, y, z, v1, v2, v3, s1, s2, s3,    \* the node dashboard
          p1, p2,                             \* the analysis dashboard
          b1, b2, b3, x1, x2, x3, t1, t2,    \* the DAGs visualizer
          c1, c2, c3

VARIABLE focus

-----------------------------------------------------------------------------
(* The node dashboard.  A search runs besides at most one other request.   *)
BoundedExplorer ==
  (\E r \in BagToSet(requests') : r.field = "search") => BagCardinality(requests') <= 2

(* The block v1 is the parent of v2 and v3.                                *)
MCParents == v1 :> {} @@ v2 :> {v1} @@ v3 :> {v1}

(* Of v2 and v3, which are alike, v2 is attached first.  Blocks are        *)
(* accepted after their parents, only the first one is lost, while the     *)
(* page is loaded, and the user selects v1 unless tips change.             *)
BoundedVisualizer ==
  /\ v3 \in Range(blkHistory') => v2 \in Range(blkHistory')
  /\ viz'.selected # NoVertex => tipChanges' = 0
  /\ viz'.selected \in {NoVertex, v1}
  /\ \A v \in blkFinalized' : Parents[v] \subseteq blkFinalized'
  /\ viz' = viz /\ <<blkHistory, blkFinalized>>' # <<blkHistory, blkFinalized>> =>
       blkHistory = <<>>

(* The types of messages in the order of the constants MsgType... of the   *)
(* node and of WSMsgType; both go by the names of the latter.              *)
CommonNames ==
  <<"Status", "BPSMetrics", "Block", "NeighborStats", "ComponentCounterMetrics",
    "TipsMetrics", "Vertex", "TipInfo", "Mana", "ManaMapOverall", "ManaMapOnline">>
NodeNames == CommonNames \o
  <<"BlkManaDashboardAddress", "Chat", "RateSetter", "ConflictSet", "Conflict">>
WSNames == CommonNames \o
  <<"ManaAllowedPledge", "ManaPledge", "ManaInitPledge", "ManaRevoke", "ManaInitRevoke",
    "ManaInitDone", "BlkManaDashboardAddress", "Chat", "RateSetter", "ConflictSet",
    "Conflict">>
Numbered(names) == [n \in Range(names) |-> (CHOOSE i \in DOMAIN names : names[i] = n) - 1]
MCNodeType == Numbered(NodeNames)
MCWSMsgType == Numbered(WSNames)

MCSentTogether == {{"Conflict"}, {"BPSMetrics"}, {"Block", "Chat"},
                   {"ComponentCounterMetrics", "RateSetter"}}

(* The conflict x is in two conflict sets, of which one stays at a node    *)
(* that stores one.                                                        *)
MCConflictSetsOf == x :> {s1, s2} @@ y :> {s3}

-----------------------------------------------------------------------------
(* The analysis dashboard.                                                 *)
NoNetwork == [nodes |-> {}, links |-> {}]
MCInitialMaps == {[v \in Version |-> NoNetwork],
  [v \in Version |-> IF v = 1 THEN [nodes |-> {p1, p2}, links |-> {<<p1, p2>>}]
                     ELSE NoNetwork]}

(* The wire carries three events if the user leaves the choice of the      *)
(* network alone, or closes early; at the page colours meet one event.     *)
BoundedPeering ==
  /\ focus = "wire" => /\ peering'.selectedNode = NoPeer
                       /\ ~peering'.manaColoringActive /\ peering'.nodeManaColors = {}
                       /\ events' = 3 => peering'.userSelected = 0
                       /\ peeringSocket' = "closed" => events' <= 1
  /\ focus = "page" => /\ events' <= 2 /\ peeringSocket' # "closed"
                       /\ \A v \in Version : Len(pool'[v]) <= 1
                       /\ events' = 2 => ~peering'.manaColoringActive

-----------------------------------------------------------------------------
(* The DAGs visualizer: b1 <- b2 <- b3, two attachments x1 and x3 of t1,   *)
(* t2, which spends it, in x2, and a conflict c2 that forks c1.            *)
MCBlocks == {b1, b2, b3, x1, x2, x3}
MCBlockParents == [blk \in MCBlocks |->
  IF blk = b2 THEN {b1} ELSE IF blk = b3 THEN {b1, b2} ELSE {}]
MCTxOf == [blk \in MCBlocks |->
  IF blk \in {x1, x3} THEN t1 ELSE IF blk = x2 THEN t2 ELSE NoTx]
MCConflictsOf == [blk \in MCBlocks |-> IF blk \in {b2, x1} THEN {c1} ELSE {}]
MCSpends == t1 :> {} @@ t2 :> {t1}
MCInitialParents == c1 :> {} @@ c2 :> {c1} @@ c3 :> {}

Result(blocks, txs, conflictIds) ==
  [blocks |-> blocks, txs |-> txs, conflicts |-> conflictIds]
TangleSearches == {Result({b1, b2}, <<>>, <<>>)}
UTXOSearches == {Result({x1, x2}, <<t2, t1>>, <<>>), Result({x1, x3}, <<t1, t1>>, <<>>)}
ConflictSearches == {Result({b3}, <<>>, <<c2, c3>>)}
MCSearches == TangleSearches \union UTXOSearches \union ConflictSearches

Announces(types, ids) ==
  \A i \in DOMAIN log' : log'[i].type \in types /\ log'[i].id \in ids
Finds(results) ==
  \A r \in globalSearch'.searchResult : \E q \in results : r.blocks = q.blocks

QuietTangle == /\ ~tangle'.paused /\ tangle'.selectedBlk = NoBlock
               /\ tangle'.maxTangleVertices = InitialTangleLimit
QuietUTXO == /\ ~utxo'.paused /\ utxo'.selectedTx = NoTx /\ utxo'.selectedTxs = {}
             /\ utxo'.maxUTXOVertices = InitialUTXOLimit
QuietConflicts == /\ ~conflictDAG'.paused /\ conflictDAG'.selectedNodes = {}
                  /\ conflictDAG'.selectedConflict = NoConflict
                  /\ conflictDAG'.maxConflictVertices = InitialConflictLimit

(* Of a pause, another limit, a break of the stream and a search, at most  *)
(* n at a time; in the tangle all but a break, and a pause and a break too *)
(* if b1 comes first.                                                      *)
AtMost(n, paused, limited) ==
  Cardinality({d \in {"pause", "limit", "break", "search"} :
                 CASE d = "pause" -> paused
                   [] d = "limit" -> limited
                   [] d = "break" -> jumps' > 0
                   [] d = "search" -> ~globalSearch'.isIdle}) <= n

(* After a break everything is sent again, or one message is skipped.      *)
BoundedBreak == jumps' = jumps \/ next' \in {1, next + 1}

BoundedTangle ==
  /\ BoundedBreak
  /\ QuietUTXO /\ QuietConflicts
  /\ Announces({"Block"}, {b1, b2, b3}) /\ Finds(TangleSearches)
  /\ \A i \in DOMAIN log' : log'[i].id = b3 => \E j \in 1..i : log'[j].id = b2
  /\ globalSearch'.asked => Len(log') = 3
  /\ tangle'.selectedBlk # NoBlock =>
       tangle'.selectedBlk = b1 /\ jumps' = 0
  /\ \/ jumps' = 0
     \/ AtMost(1, tangle'.paused, tangle'.maxTangleVertices # InitialTangleLimit)
     \/ /\ AtMost(2, tangle'.paused, FALSE)
        /\ \A i \in DOMAIN log' : log'[i].id = b1 <=> i = 1
        /\ tangle'.maxTangleVertices = InitialTangleLimit
        /\ globalSearch'.isIdle /\ tangle'.selectedBlk = NoBlock

BoundedUTXO ==
  /\ BoundedBreak
  /\ QuietTangle /\ QuietConflicts
  /\ utxo'.selectedTx = NoTx /\ utxo'.selectedTxs = {}
  /\ Announces({"Block", "Transaction"}, {x1, x2, x3, t1, t2}) /\ Finds(UTXOSearches)
  /\ AtMost(2, utxo'.paused, utxo'.maxUTXOVertices # InitialUTXOLimit)

BoundedConflicts ==
  /\ BoundedBreak
  /\ QuietTangle /\ QuietUTXO
  /\ conflictDAG'.selectedConflict = NoConflict /\ conflictDAG'.selectedNodes = {}
  /\ Announces({"Block", "Conflict", "ConflictParentsUpdate"}, {b3, c1, c2, c3})
  /\ Finds(ConflictSearches)
  /\ log' # <<>> => log'[1].id = b3
  /\ AtMost(2, conflictDAG'.paused,
            conflictDAG'.maxConflictVertices # InitialConflictLimit)

BoundedSync ==
  /\ ~tangle'.paused /\ ~utxo'.paused /\ ~conflictDAG'.paused
  /\ tangle'.maxTangleVertices = InitialTangleLimit
  /\ utxo'.maxUTXOVertices = InitialUTXOLimit
  /\ conflictDAG'.maxConflictVertices = InitialConflictLimit
  /\ \A i \in DOMAIN log' : log'[i].id \in {b2, x1, t1, c1}
  /\ jumps' = 0 /\ ~globalSearch'.asked

-----------------------------------------------------------------------------
Init ==
  /\ focus \in {"explorer", "visualizer", "feeds", "wire", "page",
                "tangle", "utxo", "conflicts", "sync"}
  /\ ExplorerInit /\ VisualizerInit /\ FeedsInit /\ PeeringInit /\ DagsInit
  /\ focus = "feeds" \/ sending = {"BPSMetrics"}
  /\ focus \in {"wire", "page"} \/ map = [v \in Version |-> NoNetwork]

dashboardVars == <<explorerVars, visualizerVars, feedsVars>>

Next ==
  \/ /\ focus = "explorer" /\ ExplorerNext /\ BoundedExplorer
     /\ UNCHANGED <<visualizerVars, feedsVars, peeringVars, dagsVars>>
  \/ /\ focus = "visualizer" /\ VisualizerNext /\ BoundedVisualizer
     /\ UNCHANGED <<explorerVars, feedsVars, peeringVars, dagsVars>>
  \/ /\ focus = "feeds" /\ FeedsNext
     /\ UNCHANGED <<explorerVars, visualizerVars, peeringVars, dagsVars>>
  \/ /\ focus \in {"wire", "page"} /\ PeeringNext /\ BoundedPeering
     /\ UNCHANGED <<dashboardVars, dagsVars>>
  \/ /\ focus \in {"tangle", "utxo", "conflicts", "sync"} /\ DagsNext
     /\ focus = "tangle" => BoundedTangle
     /\ focus = "utxo" => BoundedUTXO
     /\ focus = "conflicts" => BoundedConflicts
     /\ focus = "sync" => BoundedSync
     /\ UNCHANGED <<dashboardVars, peeringVars>>

Vars == <<dashboardVars, peeringVars, dagsVars, focus>>
Spec == Init /\ [][Next /\ UNCHANGED focus]_Vars
===============================================================================
