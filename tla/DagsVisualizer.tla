---------------------------- MODULE DagsVisualizer ----------------------------
(***************************************************************************)
(* The DAGs visualizer (plugins/dagsvisualizer): the stores of its three   *)
(* graphs, the GlobalStore that synchronizes selections between them and   *)
(* shows the results of a search in all three                              *)
(* (frontend/src/stores/GlobalStore.tsx, components/GlobalSettings.tsx),   *)
(* and the connection with the node (frontend/src/utils/WS.ts,             *)
(* components/Root.tsx).  The node (visualizer.go, ws.go) logs its events; *)
(* a client is sent the last of them, and then the ones since it was       *)
(* registered, so that it may get messages twice; and so again when it     *)
(* reconnects.                                                             *)
(***************************************************************************)
EXTENDS TangleView, UTXOView, ConflictView

CONSTANTS TxOf,              \* the transaction of a block, or NoTx
          ConflictsOf,       \* the conflicts a block is booked into
          InitialParents,    \* of a conflict
          Searches,          \* bound: the results of a search
          DagLimits,         \* bound: the limits the user types
          MaxLog, MaxJumps   \* bounds: events of the node, breaks of the stream

ASSUME DagsConstants ==
  /\ TxOf \in [Block -> Tx \union {NoTx}]
  /\ ConflictsOf \in [Block -> SUBSET Conflict]
  /\ InitialParents \in [Conflict -> SUBSET Conflict]
  /\ DagLimits \subseteq Nat /\ MaxLog \in Nat /\ MaxJumps \in Nat

VARIABLES
  tangle, utxo, conflictDAG,      \* the stores
  globalSearch,                   \* of GlobalStore and GlobalSettings
  log, nodeParents,               \* the node: its events, and the conflicts
  next, jumps,                    \* the next message, and breaks of the stream
  high, disturbed                 \* history: the first message not sent yet,
                                  \* and the stores that met an announcement
                                  \* again (that of tangle, while paused), or
                                  \* a transaction after one that spends it

eventVars == <<log, nodeParents>>
streamVars == <<next, jumps, high, disturbed>>
dagsVars == <<tangle, utxo, conflictDAG, globalSearch, eventVars, streamVars>>

InitialSearch ==
  [searchMode |-> FALSE, searchResult |-> {},    \* {}: undefined, else {the result}
   isIdle |-> TRUE, asked |-> FALSE]

DagsInit ==
  /\ tangle = InitialTangle /\ utxo = InitialUTXO /\ conflictDAG = InitialConflicts
  /\ globalSearch = InitialSearch
  /\ log = <<>> /\ nodeParents = InitialParents
  /\ next = 1 /\ jumps = 0 /\ high = 1 /\ disturbed = {}

(* An exception ends the handler and is logged.                            *)
Caught(s) == [s EXCEPT !.threw = FALSE]
OnlyTangle(s) == tangle' = Caught(s) /\ UNCHANGED <<utxo, conflictDAG>>
OnlyUTXO(s) == utxo' = Caught(s) /\ UNCHANGED <<tangle, conflictDAG>>
OnlyConflicts(s) == conflictDAG' = Caught(s) /\ UNCHANGED <<tangle, utxo>>

-----------------------------------------------------------------------------
(* The node.                                                               *)
Logged(type, id) == \E i \in DOMAIN log : log[i].type = type /\ log[i].id = id
Emit(messages) ==
  /\ Len(log) + Len(messages) <= MaxLog
  /\ log' = log \o messages
  /\ UNCHANGED <<tangle, utxo, conflictDAG, globalSearch, streamVars>>

Announcement(type, id, parents) == [type |-> type, id |-> id, parents |-> parents]

(* A block that carries a transaction announces both.                      *)
BlockAttached(b) ==
  /\ ~Logged("Block", b)
  /\ Emit(<<Announcement("Block", b, {})>> \o
          IF TxOf[b] = NoTx THEN <<>> ELSE <<Announcement("Transaction", TxOf[b], {})>>)
  /\ UNCHANGED nodeParents

BlockBooked(b) ==
  /\ Logged("Block", b) /\ ~Logged("BlockBooked", b)
  /\ Emit(<<Announcement("BlockBooked", b, {})>>)
  /\ UNCHANGED nodeParents

BlockAccepted(b) ==
  /\ Logged("BlockBooked", b) /\ ~Logged("BlockConfirmed", b)
  /\ Emit(<<Announcement("BlockConfirmed", b, {})>>)
  /\ UNCHANGED nodeParents

ConflictAnnounced(c) ==
  /\ ~Logged("Conflict", c)
  /\ \A p \in nodeParents[c] : Logged("Conflict", p)
  /\ Emit(<<Announcement("Conflict", c, nodeParents[c])>>)
  /\ UNCHANGED nodeParents

(* Conflicts are created and forked upwards: p is a younger conflict than  *)
(* c, which joins the past cone of c.                                      *)
RECURSIVE History(_)
History(c) == {c} \union UNION {History(p) : p \in nodeParents[c]}

ConflictParentsUpdated(c, p) ==
  /\ Logged("Conflict", c) /\ Logged("Conflict", p)
  /\ c \notin History(p) /\ p \notin nodeParents[c]
  /\ nodeParents' = [nodeParents EXCEPT ![c] = @ \union {p}]
  /\ Emit(<<Announcement("ConflictParentsUpdate", c, nodeParents'[c])>>)

-----------------------------------------------------------------------------
(* The stream.                                                             *)
DeliverEvent ==
  /\ next <= Len(log) /\ next' = next + 1
  /\ high' = IF next = high THEN high + 1 ELSE high
  /\ LET message == log[next]
         again == next < high \/ \E i \in 1..(next - 1) : log[i] = message
     IN  disturbed' = disturbed \union
           (IF again /\ message.type = "Block" /\ tangle.paused THEN {"tangle"} ELSE {})
             \union (IF message.type = "Transaction"
                        /\ (again \/ \E t \in Range(utxo.transactions) : message.id \in Spends[t])
                     THEN {"utxo"} ELSE {})
  /\ LET message == log[next]
     IN  CASE message.type = "Block"          -> OnlyTangle(AddBlock(tangle, message.id))
           [] message.type = "BlockBooked"    -> OnlyTangle(SetBlockConflict(tangle, message.id))
           [] message.type = "BlockConfirmed" -> OnlyTangle(SetBlockConfirmed(tangle, message.id))
           [] message.type = "Transaction"    -> OnlyUTXO(AddTransaction(utxo, message.id))
           [] message.type = "Conflict" ->
                OnlyConflicts(AddConflict(conflictDAG, message.id, message.parents))
           [] message.type = "ConflictParentsUpdate" ->
                OnlyConflicts(UpdateParents(conflictDAG, message.id, message.parents))
  /\ UNCHANGED <<globalSearch, eventVars, jumps>>

(* The initial data have been sent, or the client has reconnected: the     *)
(* stream goes on with a message that was sent before, or, when the buffer *)
(* of the node does not reach back far enough, with a later one.           *)
StreamBreak ==
  /\ jumps < MaxJumps /\ jumps' = jumps + 1
  /\ next' \in (1..(Len(log) + 1)) \ {next}
  /\ high' = Max({next', high}) /\ UNCHANGED disturbed
  /\ UNCHANGED <<tangle, utxo, conflictDAG, globalSearch, eventVars>>

-----------------------------------------------------------------------------
(* The user of a graph: pauses, limits, clicks on a node or beside the     *)
(* nodes, and the search box.                                              *)
AtGraph == UNCHANGED <<globalSearch, eventVars, streamVars>>

TangleDAG ==
  /\ \/ OnlyTangle(TanglePauseResume(tangle))
     \/ \E num \in DagLimits : OnlyTangle(TangleVerticesLimit(tangle, num))
     \/ \E b \in Block : OnlyTangle(SelectBlk(tangle, b))
     \/ tangle.selectedBlk # NoBlock /\ OnlyTangle(ClearSelectedBlk(tangle))
  /\ AtGraph

UTXODAG ==
  /\ \/ OnlyUTXO(UTXOPauseResume(utxo))
     \/ \E num \in DagLimits : OnlyUTXO(UTXOVerticesLimit(utxo, num))
     \/ \E t \in utxo.nodes : OnlyUTXO(ClickTx(utxo, t))
     \/ OnlyUTXO(ClickBesideTx(utxo))
     \/ \E t \in Tx : OnlyUTXO(SelectTx(utxo, t))
  /\ AtGraph

ConflictsDAG ==
  /\ \/ OnlyConflicts(ConflictPauseResume(conflictDAG))
     \/ \E num \in DagLimits : OnlyConflicts(ConflictVerticesLimit(conflictDAG, num))
     \/ \E c \in conflictDAG.nodes : OnlyConflicts(ClickConflict(conflictDAG, c))
     \/ \E c \in Conflict : OnlyConflicts(SelectConflict(conflictDAG, c))
  /\ AtGraph

(* The answer to a fetch of drawConflict; it fails when the node is not    *)
(* there.  The rendering of a search ends with its last conflict.          *)
ConflictsFetched ==
  /\ \E w \in conflictDAG.waiting :
       LET history == [c \in History(w.parent) |-> nodeParents[c]]
           t == Fetched(conflictDAG, w, history)
           rendered == RenderConflicts(t, w.found)
       IN  IF ~w.render \/ t.threw \/ Suspends(t, w.rest)
           THEN OnlyConflicts(t) /\ UNCHANGED globalSearch
           ELSE /\ OnlyConflicts(rendered.store)
                /\ globalSearch' = [globalSearch EXCEPT !.searchResult =
                                IF rendered.done THEN {} ELSE @]
  /\ UNCHANGED <<eventVars, streamVars>>

FetchFailed ==
  /\ \E w \in conflictDAG.waiting :
       OnlyConflicts([conflictDAG EXCEPT !.waiting = @ \ {w}])
  /\ AtGraph

-----------------------------------------------------------------------------
(* GlobalStore: selections.                                                *)
SyncWithBlk ==
  /\ tangle.selectedBlk # NoBlock
  /\ LET b == tangle.selectedBlk
         cleared == ClearHighlightedConflicts(ClearSelectedConflict(conflictDAG, TRUE))
         conflictIDs == IF tangle.selectedBooked THEN {ConflictsOf[b]} ELSE {}
         none == ClearSelectedTx(utxo, TRUE)
     IN  IF cleared.threw
         THEN conflictDAG' = Caught(cleared) /\ utxo' = none
         ELSE /\ utxo' = IF TxOf[b] = NoTx THEN none ELSE SelectTx(none, TxOf[b])
              /\ conflictDAG' = Caught(HighlightConflicts(cleared, conflictIDs))
  /\ UNCHANGED tangle /\ AtGraph

(* The conflict of a transaction is never found: the node sends            *)
(* conflictIDs (type.go), the store reads conflictID.                      *)
SyncWithTx ==
  /\ utxo.selectedTx # NoTx
  /\ \E b \in {x \in Block : TxOf[x] = utxo.selectedTx} :
       LET cleared == ClearHighlightedBlks(ClearSelectedBlk(tangle))
       IN  tangle' = IF b \in DOMAIN tangle.blocks \union tangle.foundBlks
                     THEN Caught(SelectBlk(cleared, b)) ELSE cleared
  /\ conflictDAG' = ClearSelectedConflict(conflictDAG, TRUE)
  /\ UNCHANGED utxo /\ AtGraph

(* It throws at a block that is not booked; found blocks never are.        *)
SyncWithConflict ==
  /\ conflictDAG.selectedConflict # NoConflict
  /\ IF globalSearch.searchMode THEN tangle.foundBlks = {}
     ELSE \A b \in DOMAIN tangle.blocks : tangle.blocks[b].booked
  /\ LET blks == IF globalSearch.searchMode THEN {}
                 ELSE {b \in DOMAIN tangle.blocks :
                         conflictDAG.selectedConflict \in ConflictsOf[b]}
     IN  tangle' = HighlightBlks(ClearSelectedBlk(tangle), blks)
  /\ utxo' = ClearSelectedTx(utxo, TRUE)
  /\ UNCHANGED conflictDAG /\ AtGraph

ClearSync ==
  /\ tangle' = ClearHighlightedBlks(ClearSelectedBlk(tangle))
  /\ utxo' = ClearSelectedTx(utxo, TRUE)
  /\ conflictDAG' = ClearSelectedConflict(conflictDAG, TRUE)
  /\ AtGraph

-----------------------------------------------------------------------------
(* GlobalStore: searches.                                                  *)
Search ==
  /\ globalSearch' = [globalSearch EXCEPT !.asked = TRUE, !.isIdle = FALSE]
  /\ UNCHANGED <<tangle, utxo, conflictDAG, eventVars, streamVars>>

SearchResults(result) ==
  /\ globalSearch.asked
  /\ \A b \in result.blocks : Logged("Block", b)
  /\ \A i \in DOMAIN result.txs : Logged("Transaction", result.txs[i])
  /\ \A i \in DOMAIN result.conflicts : Logged("Conflict", result.conflicts[i])
  /\ LET answer == [result EXCEPT !.conflicts =
                      [i \in DOMAIN @ |-> <<@[i], nodeParents[@[i]]>>]]
     IN  globalSearch' = [globalSearch EXCEPT !.asked = FALSE,
                      !.searchResult = IF result.blocks = {} THEN @ ELSE {answer}]
  /\ UNCHANGED <<tangle, utxo, conflictDAG, eventVars, streamVars>>

(* Two attachments of a transaction, and the conflicts are not rendered.   *)
RenderSearchResults ==
  /\ globalSearch.searchResult # {}
  /\ LET result == CHOOSE r \in globalSearch.searchResult : TRUE
         foundTxs == FoldLeft(LAMBDA u, t : UnlessThrew(u, AddFoundTx(u, t)),
                              ClearUTXO([utxo EXCEPT !.draw = FALSE]), result.txs)
         cleared == ClearConflicts([conflictDAG EXCEPT !.draw = FALSE])
         found == RenderConflicts(cleared, result.conflicts)
     IN  /\ tangle' = FoldSet(LAMBDA b, t : AddFoundBlk(t, b),
                              ClearTangle([tangle EXCEPT !.draw = FALSE]), result.blocks)
         /\ utxo' = Caught(foundTxs)
         /\ conflictDAG' = IF foundTxs.threw THEN cleared ELSE found.store
         /\ globalSearch' = [globalSearch EXCEPT !.searchMode = TRUE,
                         !.searchResult = IF foundTxs.threw \/ ~found.done THEN @ ELSE {}]
  /\ UNCHANGED <<eventVars, streamVars>>

(* Clear and Resume, for all three graphs in this order.                   *)
ClearSearchAndResume ==
  /\ ~globalSearch.isIdle
  /\ globalSearch' = [globalSearch EXCEPT !.isIdle = TRUE, !.searchMode = FALSE]
  /\ LET blks == DrawExistedBlks(ClearSelectedBlk(
                   ClearTangle([tangle EXCEPT !.foundBlks = {}])))
         txs == DrawExistedTxs(ClearSelectedTx(ClearUTXO(ClearFoundTxs(utxo)), FALSE))
         conflicts == ClearSelectedConflict(
                        ClearConflicts([conflictDAG EXCEPT !.foundConflicts = {}]), FALSE)
         before == DOMAIN CHOOSE f \in conflicts.conflictsBeforeSearching : TRUE
     IN  IF txs.threw
         THEN /\ tangle' = blks /\ utxo' = Caught(txs) /\ conflictDAG' = conflicts
         ELSE /\ tangle' = [blks EXCEPT !.draw = TRUE]
              /\ utxo' = [txs EXCEPT !.draw = TRUE]
              /\ \E order \in SetToSeqs(before) :
                   conflictDAG' = [DrawExistedConflicts(conflicts, order) EXCEPT !.draw = TRUE]
  /\ UNCHANGED <<eventVars, streamVars>>

(* The two panels of GlobalSettings.                                       *)
SyncOfGraphs == SyncWithBlk \/ SyncWithTx \/ SyncWithConflict \/ ClearSync

SearchOfLedger ==
  \/ Search \/ (\E result \in Searches : SearchResults(result))
  \/ RenderSearchResults \/ ClearSearchAndResume

DagsNext ==
  \/ \E b \in Block : BlockAttached(b) \/ BlockBooked(b) \/ BlockAccepted(b)
  \/ \E c \in Conflict : \/ ConflictAnnounced(c)
                         \/ \E p \in Conflict : ConflictParentsUpdated(c, p)
  \/ DeliverEvent \/ StreamBreak
  \/ TangleDAG \/ UTXODAG \/ ConflictsDAG
  \/ ConflictsFetched \/ FetchFailed
  \/ SyncOfGraphs \/ SearchOfLedger

-----------------------------------------------------------------------------
LastOf(order, b) == CHOOSE i \in DOMAIN order :
  order[i] = b /\ \A j \in DOMAIN order : order[j] = b => j <= i

(* Unless it is paused or a search is shown, the graph has exactly the     *)
(* blocks of the store, each linked with the parents stored before it, and *)
(* a block announced after its parents leaves none of them a tip: through  *)
(* announcements, repeated ones too, evictions, other limits, pauses and   *)
(* searches - unless a block was announced again during a pause.           *)
TangleGraphMirrorsBlocks ==
  tangle.draw /\ ~tangle.paused /\ "tangle" \notin disturbed =>
    /\ DOMAIN tangle.nodes = DOMAIN tangle.blocks
    /\ \A i, j \in DOMAIN tangle.blkKeys :
         LET p == tangle.blkKeys[i]
             c == tangle.blkKeys[j]
         IN  p \in BlockParents[c] =>
               /\ i < j => <<p, c>> \in tangle.links
               /\ LastOf(tangle.blkOrder, p) < LastOf(tangle.blkOrder, c) => ~tangle.blocks[p].isTip

(* Unless it is paused or a search is shown, the graph shows exactly the   *)
(* transactions of the store, wholly, each linked with the ones it spends  *)
(* that were announced before it: what was evicted or forgotten during a   *)
(* pause or a search is gone, what came then is there.  It says nothing of *)
(* a history in which a transaction was announced twice, or after one that *)
(* spends it, nor of one that stays paused as resuming it throws.          *)
UTXOGraphMirrorsTransactions ==
  utxo.draw /\ ~utxo.paused /\ "utxo" \notin disturbed =>
    /\ utxo.nodes = Range(utxo.transactions) /\ utxo.outputNodes = utxo.nodes
    /\ \A i, j \in DOMAIN utxo.transactions :
         i < j /\ utxo.transactions[i] \in Spends[utxo.transactions[j]] =>
           <<utxo.transactions[i], utxo.transactions[j]>> \in utxo.edges

(* The graph and the map of the conflicts never part, though drawings are  *)
(* suspended while conflicts are evicted, replaced by those of a search or *)
(* by those before it: every node is a conflict the handlers can find.     *)
ConflictGraphMirrorsMap ==
  /\ conflictDAG.nodes = DOMAIN conflictDAG.conflicts /\ Master \in conflictDAG.nodes
  /\ \A e \in conflictDAG.edges : {e[1], e[2]} \subseteq conflictDAG.nodes
===============================================================================
