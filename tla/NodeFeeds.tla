------------------------------- MODULE NodeFeeds -------------------------------
(***************************************************************************)
(* The messages on the websocket of the node dashboard                     *)
(* (plugins/dashboard: ws.go, livefeed.go, chat_livefeed.go,               *)
(* conflicts_livefeed.go) and what the browser shows of them (in           *)
(* frontend/src/app: misc/WS.ts, stores/NodeStore.ts, ConflictsStore.tsx,  *)
(* ChatStore.tsx and the live feed of ExplorerStore.tsx).                  *)
(*                                                                         *)
(* What the node has to tell goes through a worker pool for each feed and  *)
(* the queue of the client, and is dropped where there is no room; the     *)
(* conflicts are sent anew to all clients when one connects.  The node     *)
(* keeps the conflicts of the conflict sets that arrived last.             *)
(*                                                                         *)
(* A message carries the number of its type; the browser looks up the      *)
(* handler registered under that number.  The two enumerations, NodeType   *)
(* of the node and WSMsgType of the browser, are written down separately.  *)
(***************************************************************************)
EXTENDS Integers, FiniteSets, SequencesExt

CONSTANTS FeedConflict, FeedConflictSet,
          ConflictSetsOf,      \* the conflict sets of each conflict
          FeedBlock,           \* blocks of the live feed and of the chat
          Neighbor,
          NodeType, WSMsgType,  \* the numbers of the types of messages
          MaxCount,        \* Parameters.Conflicts.MaxCount
          PoolSize,        \* tasks a worker pool takes
          ChannelSize,     \* messages the node queues for a client
          LiveFeedSize,    \* blocks of a live feed
          MaxMetricsDataPoints,
          SentTogether,    \* bound: the sets of types of messages sent by a node
          MaxMetrics,      \* bound: metrics the node sends
          MaxCloses        \* bound: sockets that are closed

StatusTypes == {"BPSMetrics", "Status", "NeighborStats", "TipsMetrics"}
Metrics == StatusTypes \union {"ComponentCounterMetrics", "RateSetter"}
Types == Metrics \union {"Block", "Chat", "ConflictSet", "Conflict"}
Pools == {"wsSend", "liveFeed", "chatLiveFeed", "conflictsLiveFeed"}

ASSUME NodeFeedsConstants ==
  /\ Types \subseteq DOMAIN NodeType \intersect DOMAIN WSMsgType
  /\ IsInjective(NodeType) /\ IsInjective(WSMsgType)
  /\ SentTogether \subseteq SUBSET Types
  /\ \A c \in FeedConflict : ConflictSetsOf[c] \subseteq FeedConflictSet
  /\ {MaxCount, PoolSize, ChannelSize, LiveFeedSize, MaxMetricsDataPoints, MaxMetrics,
      MaxCloses} \subseteq Nat

VARIABLES
  socket, channel,     \* the socket, and the messages on their way to it
  websocketConnected, reconnecting, closes,
  collecting,          \* the handlers of NodeStore are registered
  series, neighbor_metrics,          \* NodeStore
  conflictSets, conflicts,           \* ConflictsStore
  feed, chat,                        \* latest_blocks, latest_blks
  pools,                             \* the tasks of the worker pools
  stored,                            \* boundedConflictMap
  created,                           \* the conflicts that were created
  metric, attached, chatted,         \* the last metric, the blocks in order
  sending,                           \* the types of messages the node sends
  lost                 \* history: blocks and conflicts dropped on their way

socketVars == <<socket, channel, websocketConnected, reconnecting, closes>>
browserVars == <<collecting, series, neighbor_metrics, conflictSets, conflicts,
                 feed, chat>>
nodeVars == <<pools, stored, created, metric, attached, chatted, sending>>
feedsVars == <<socketVars, browserVars, nodeVars, lost>>

(* The collected metrics; updateStatus writes two of them.                 *)
Series(type) ==
  CASE type = "Status" -> {"mem", "scheduler"}
    [] type = "NeighborStats" -> {}
    [] OTHER -> {type}
AllSeries == UNION {Series(type) : type \in Metrics}

FeedsInit ==
  /\ socket = "connecting" /\ channel = <<>>    \* Root is mounted
  /\ websocketConnected = FALSE /\ reconnecting = FALSE /\ closes = 0
  /\ collecting = TRUE
  /\ series = [s \in AllSeries |-> <<>>]
  /\ neighbor_metrics = <<>>
  /\ conflictSets = <<>> /\ conflicts = <<>>
  /\ feed = <<>> /\ chat = <<>>
  /\ pools = [p \in Pools |-> <<>>]
  /\ stored = [sets |-> <<>>, resolved |-> {}, conflicts |-> <<>>]
  /\ created = {}
  /\ metric = 0 /\ attached = <<>> /\ chatted = {}
  /\ sending \in SentTogether
  /\ lost = {}

-----------------------------------------------------------------------------
(* The node.                                                               *)
Message(type, data) == [type |-> NodeType[type], data |-> data]

FirstOf(messages, n) == SubSeq(messages, 1, IF n < Len(messages) THEN n ELSE Len(messages))
AfterFirst(messages, n) ==
  Range(SubSeq(messages, n + 1, Len(messages)))

(* What the history keeps of the messages that were dropped.               *)
Dropped(messages) ==
  {msg \in messages : \E type \in {"Block", "Conflict", "ConflictSet"} :
                        msg.type = NodeType[type]}

(* TrySubmit                                                               *)
Submit(p, tasks) ==
  LET room == PoolSize - Len(pools[p])
  IN  /\ pools' = [pools EXCEPT ![p] = @ \o FirstOf(tasks, room)]
      /\ lost' = lost \union Dropped(AfterFirst(tasks, room))

(* What the queue of the client takes of a sequence of messages.           *)
Broadcast(messages) ==
  LET room == IF socket = "open" THEN ChannelSize - Len(channel) ELSE 0
  IN  /\ channel' = channel \o FirstOf(messages, room)
      /\ lost' = lost \union Dropped(AfterFirst(messages, room))

UnchangedSocket == UNCHANGED <<socket, websocketConnected, reconnecting, closes>>

(* The worker of a pool broadcasts its next task; the one of the metrics   *)
(* takes the status, the neighbors and the tips as they are by then.  The  *)
(* slice of no neighbors is nil, and null in the message.                  *)
Worker(p) ==
  /\ pools[p] # <<>>
  /\ pools' = [pools EXCEPT ![p] = Tail(@)]
  /\ LET task == Head(pools[p])
     IN  IF task.type # NodeType["BPSMetrics"] THEN Broadcast(<<task>>)
         ELSE \E neighbors \in SUBSET Neighbor :
                Broadcast(<<task,
                            Message("Status", [value |-> metric]),
                            Message("NeighborStats", [value |-> metric, ids |-> neighbors]),
                            Message("TipsMetrics", [value |-> metric])>>)
  /\ UnchangedSocket
  /\ UNCHANGED <<browserVars, stored, created, metric, attached, chatted, sending>>

(* The conflicts.                                                          *)
ConflictUpdate(c, all) == Message("Conflict", [id |-> c, state |-> all[c].state])
SetUpdate(s, resolved) == Message("ConflictSet", [id |-> s, resolved |-> resolved])

(* At the limit the conflict set that arrived first goes, and the          *)
(* conflicts that are left without one.                                    *)
EvictFirstSet(m) ==
  LET s == Head(m.sets)
      left == [c \in DOMAIN m.conflicts |-> [m.conflicts[c] EXCEPT !.sets = @ \ {s}]]
      gone == {c \in DOMAIN left : left[c].sets = {}}
  IN  [sets |-> Tail(m.sets), resolved |-> m.resolved \ {s},
       conflicts |-> Restrict(left, DOMAIN left \ gone)]

(* A conflict set of a new conflict is added, if it is new, and to the     *)
(* conflicts of it that are there.                                         *)
WithSet(m, s) ==
  LET isNew == s \notin Range(m.sets)
      room == IF isNew /\ Len(m.sets) >= MaxCount THEN EvictFirstSet(m) ELSE m
      members == {c \in DOMAIN room.conflicts : s \in ConflictSetsOf[c]}
  IN  [m |-> [room EXCEPT !.sets = IF isNew THEN Append(@, s) ELSE @,
                          !.conflicts = [c \in DOMAIN @ |->
                             IF c \in members THEN [@[c] EXCEPT !.sets = @ \union {s}]
                             ELSE @[c]]],
       updates |-> (IF isNew THEN <<SetUpdate(s, FALSE)>> ELSE <<>>)
                     \o SetToSeq({ConflictUpdate(c, room.conflicts) : c \in members})]

WithSets(m, sets) ==
  FoldLeft(LAMBDA acc, s : LET next == WithSet(acc.m, s)
                           IN  [m |-> next.m, updates |-> acc.updates \o next.updates],
           [m |-> m, updates |-> <<>>], sets)

UnchangedBesidesConflicts ==
  UNCHANGED <<socketVars, browserVars, metric, attached, chatted, sending>>

OnConflictCreated(c) ==
  /\ "Conflict" \in sending /\ c \notin created
  /\ created' = created \union {c}
  /\ \E order \in SetToSeqs(ConflictSetsOf[c]) :
       LET added == WithSets(stored, order)
           all == (c :> [state |-> "Undefined", sets |-> ConflictSetsOf[c]])
                    @@ added.m.conflicts
       IN  /\ stored' = [added.m EXCEPT !.conflicts = all]
           /\ Submit("conflictsLiveFeed", Append(added.updates, ConflictUpdate(c, all)))
  /\ UnchangedBesidesConflicts

(* The ledger accepts one conflict of a set at most.  An acceptance that   *)
(* is handled before the creation has no effect: it is logged.             *)
OnConflictAccepted(c) ==
  /\ c \in DOMAIN stored.conflicts /\ stored.conflicts[c].state = "Undefined"
  /\ \A d \in DOMAIN stored.conflicts :
       ConflictSetsOf[c] \intersect ConflictSetsOf[d] # {} =>
         stored.conflicts[d].state # "Accepted"
  /\ LET all == [stored.conflicts EXCEPT ![c].state = "Accepted"]
         open == (stored.conflicts[c].sets \intersect Range(stored.sets)) \ stored.resolved
     IN  /\ stored' = [stored EXCEPT !.conflicts = all, !.resolved = @ \union open]
         /\ Submit("conflictsLiveFeed",
                   <<ConflictUpdate(c, all)>> \o SetToSeq({SetUpdate(s, TRUE) : s \in open}))
  /\ UNCHANGED created /\ UnchangedBesidesConflicts

OnConflictRejected(c) ==
  /\ c \in DOMAIN stored.conflicts /\ stored.conflicts[c].state = "Undefined"
  /\ LET all == [stored.conflicts EXCEPT ![c].state = "Rejected"]
     IN  /\ stored' = [stored EXCEPT !.conflicts = all]
         /\ Submit("conflictsLiveFeed", <<ConflictUpdate(c, all)>>)
  /\ UNCHANGED created /\ UnchangedBesidesConflicts

(* sendAllConflicts                                                        *)
AllConflicts ==
  SetToSeq({SetUpdate(s, s \in stored.resolved) : s \in Range(stored.sets)})
    \o SetToSeq({ConflictUpdate(c, stored.conflicts) : c \in DOMAIN stored.conflicts})

(* The blocks of the tangle and of the chat.                               *)
BlockMessage(b) == Message("Block", [id |-> b])

NotifyNewBlk(b) ==
  /\ "Block" \in sending /\ b \notin Range(attached)
  /\ attached' = Append(attached, b)
  /\ Submit("liveFeed", <<BlockMessage(b)>>)
  /\ UNCHANGED <<socketVars, browserVars, stored, created, metric, chatted, sending>>

NotifyNewBlocks(b) ==
  /\ "Chat" \in sending /\ b \notin chatted
  /\ chatted' = chatted \union {b}
  /\ Submit("chatLiveFeed", <<Message("Chat", [id |-> b])>>)
  /\ UNCHANGED <<socketVars, browserVars, stored, created, metric, attached, sending>>

MetricUpdated(type) ==
  /\ type \in {"BPSMetrics", "ComponentCounterMetrics", "RateSetter"} \intersect sending
  /\ metric < MaxMetrics
  /\ metric' = metric + 1
  /\ Submit("wsSend", <<Message(type, [value |-> metric + 1])>>)
  /\ UNCHANGED <<socketVars, browserVars, stored, created, attached, chatted, sending>>

-----------------------------------------------------------------------------
(* connectWebSocket and the callbacks connect() gives it.                  *)
OnOpen ==
  /\ socket = "connecting"
  /\ socket' = "open"
  /\ websocketConnected' = TRUE
  /\ Submit("conflictsLiveFeed", AllConflicts)
  /\ UNCHANGED <<channel, reconnecting, closes, browserVars, stored, created, metric,
                 attached, chatted, sending>>

(* An open socket is closed, or one that cannot be opened fails.           *)
OnClose ==
  /\ socket \in {"open", "connecting"}
  /\ closes < MaxCloses /\ closes' = closes + 1
  /\ socket' = "closed"
  /\ channel' = <<>> /\ lost' = lost \union Dropped(Range(channel))
  /\ websocketConnected' = FALSE
  /\ reconnecting' = TRUE
  /\ UNCHANGED <<browserVars, nodeVars>>

(* The timer of reconnect.                                                 *)
Reconnect ==
  /\ reconnecting
  /\ reconnecting' = FALSE
  /\ socket' = "connecting"
  /\ UNCHANGED <<channel, websocketConnected, closes, browserVars, nodeVars, lost>>

(* The metrics of NodeStore: one point goes before a point is added to a   *)
(* series that is longer than the limit.                                   *)
Collect(points, point) ==
  Append(IF Len(points) > MaxMetricsDataPoints THEN Tail(points) ELSE points, point)

AddMetric_BeforeCollecting(metrics, value) ==
  LET collected == LET all == Append(metrics.collected, value)
                   IN  IF Len(all) > MaxMetricsDataPoints THEN Tail(all) ELSE all
      n == Len(metrics.collected)
  IN  [collected |-> collected,
       network_io |-> IF n < 2 THEN metrics.network_io
                      ELSE Collect(metrics.network_io,
                                   metrics.collected[n] - metrics.collected[n - 1])]

AddMetric(metrics, value) ==
  LET collected == LET all == Append(metrics.collected, value)
                   IN  IF Len(all) > MaxMetricsDataPoints THEN Tail(all) ELSE all
      n == Len(collected)
  IN  [collected |-> collected,
       network_io |-> IF n < 2 THEN metrics.network_io
                      ELSE Collect(metrics.network_io,
                                   collected[n] - collected[n - 1])]

(* Neighbors the node does not mention any more are forgotten, but when it *)
(* mentions none.                                                          *)
UpdateNeighborMetrics(data) ==
  neighbor_metrics' =
    IF data.ids = {} THEN neighbor_metrics
    ELSE [k \in data.ids |->
            AddMetric(IF k \in DOMAIN neighbor_metrics THEN neighbor_metrics[k]
                      ELSE [collected |-> <<>>, network_io |-> <<>>], data.value)]

UpdateMetric(type, data) ==
  /\ IF ~collecting THEN UNCHANGED <<series, neighbor_metrics>>
     ELSE IF type = "NeighborStats"
     THEN UpdateNeighborMetrics(data) /\ UNCHANGED series
     ELSE /\ series' = [s \in AllSeries |->
               IF s \in Series(type) THEN Collect(series[s], data.value) ELSE series[s]]
          /\ UNCHANGED neighbor_metrics
  /\ UNCHANGED <<collecting, conflictSets, conflicts, feed, chat>>

UpdateConflictSets(data) ==
  /\ conflictSets' = (data.id :> data.resolved) @@ conflictSets
  /\ UNCHANGED <<collecting, series, neighbor_metrics, conflicts, feed, chat>>

UpdateConflicts(data) ==
  /\ conflicts' = (data.id :> data.state) @@ conflicts
  /\ UNCHANGED <<collecting, series, neighbor_metrics, conflictSets, feed, chat>>

(* A feed takes a block it does not have and drops the oldest if full.     *)
AddToFeed_DropsLast(blocks, b) ==
  IF b \in Range(blocks) THEN blocks
  ELSE Append(IF Len(blocks) >= LiveFeedSize THEN Front(blocks) ELSE blocks, b)

AddToFeed(blocks, b) ==
  IF b \in Range(blocks) THEN blocks
  ELSE Append(IF Len(blocks) >= LiveFeedSize THEN Tail(blocks) ELSE blocks, b)

AddLiveFeedBlock(data) ==
  /\ feed' = AddToFeed(feed, data.id)
  /\ UNCHANGED <<collecting, series, neighbor_metrics, conflictSets, conflicts, chat>>

AddLiveFeed(data) ==
  /\ chat' = AddToFeed(chat, data.id)
  /\ UNCHANGED <<collecting, series, neighbor_metrics, conflictSets, conflicts, feed>>

(* The handlers; those of mana ignore messages without the fields they     *)
(* know.                                                                   *)
HandleMessage(type, data) ==
  CASE type \in Metrics       -> UpdateMetric(type, data)
    [] type = "ConflictSet"   -> UpdateConflictSets(data)
    [] type = "Conflict"      -> UpdateConflicts(data)
    [] type = "Block"         -> AddLiveFeedBlock(data)
    [] type = "Chat"          -> AddLiveFeed(data)
    [] OTHER                  -> UNCHANGED browserVars

(* ws.onmessage                                                            *)
OnMessage ==
  /\ socket = "open" /\ channel # <<>>
  /\ channel' = Tail(channel)
  /\ LET msg == Head(channel)
     IN  HandleMessage(CHOOSE type \in DOMAIN WSMsgType : WSMsgType[type] = msg.type, msg.data)
  /\ UnchangedSocket /\ UNCHANGED <<nodeVars, lost>>

(* registerHandlers and unregisterHandlers, from the page of the           *)
(* visualizer.                                                             *)
ToggleBackgroundDataCollection ==
  /\ collecting' = ~collecting
  /\ UNCHANGED <<series, neighbor_metrics, conflictSets, conflicts, feed, chat,
                 socketVars, nodeVars, lost>>

FeedsNext ==
  \/ \E c \in FeedConflict :
       OnConflictCreated(c) \/ OnConflictAccepted(c) \/ OnConflictRejected(c)
  \/ \E b \in FeedBlock : NotifyNewBlk(b) \/ NotifyNewBlocks(b)
  \/ \E type \in Metrics : MetricUpdated(type)
  \/ \E p \in Pools : Worker(p)
  \/ OnOpen \/ OnClose \/ Reconnect
  \/ OnMessage
  \/ ToggleBackgroundDataCollection

FeedsSpec == FeedsInit /\ [][FeedsNext]_feedsVars

-----------------------------------------------------------------------------
(* The live feed shows the blocks it was notified of last, in the order of *)
(* its tasks, but for those that were dropped, by a full pool, by a full   *)
(* queue or with a socket, and those that are still on their way.          *)
FeedShowsLatestBlocks ==
  LET onTheWay == Range(channel) \union Range(pools["liveFeed"])
      arrived == SelectSeq(attached, LAMBDA b : BlockMessage(b) \notin lost \union onTheWay)
  IN  feed = SubSeq(arrived, IF Len(arrived) > LiveFeedSize
                             THEN Len(arrived) - LiveFeedSize + 1 ELSE 1, Len(arrived))

(* The traffic of a neighbor is the difference between its consecutive     *)
(* metrics, through gaps, neighbors that come back and metrics that are    *)
(* shifted out: one traffic for each pair of metrics that is kept.         *)
TrafficMatchesMetrics ==
  \A k \in DOMAIN neighbor_metrics :
    LET c == neighbor_metrics[k].collected
        io == neighbor_metrics[k].network_io
    IN  /\ Len(io) >= Len(c) - 1 /\ Len(io) <= MaxMetricsDataPoints + 1
        /\ \A i \in 1..(Len(c) - 1) :
             io[Len(io) + 1 - i] = c[Len(c) + 1 - i] - c[Len(c) - i]
===============================================================================
