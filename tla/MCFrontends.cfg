CONSTANTS
  x = x
  y = y
  z = z
  s1 = s1
  s2 = s2
  s3 = s3
  v1 = v1
  v2 = v2
  v3 = v3
  p1 = p1
  p2 = p2
  b1 = b1
  b2 = b2
  b3 = b3
  x1 = x1
  x2 = x2
  x3 = x3
  t1 = t1
  t2 = t2
  c1 = c1
  c2 = c2
  c3 = c3
  Id = {x, y, z}
  NoId = NoId
  Garbage = Garbage
  Malformed = {y}
  TransactionBlocks = {x, z}
  Kinds = {"block", "address", "transaction", "output", "conflict"}
  MaxRequests = 4
  MaxVisits = 2
  Vertex = {v1, v2, v3}
  NoVertex = NoVertex
  Parents <- MCParents
  Limits = {1}
  InitialLimit = 2
  TipBlock = {v1}
  MaxTipChanges = 1
  FeedConflict = {x, y}
  FeedConflictSet = {s1, s2, s3}
  ConflictSetsOf <- MCConflictSetsOf
  FeedBlock = {x, y, z}
  Neighbor = {x, y}
  NodeType <- MCNodeType
  WSMsgType <- MCWSMsgType
  SentTogether <- MCSentTogether
  MaxCount = 1
  PoolSize = 2
  ChannelSize = 4
  LiveFeedSize = 2
  MaxMetricsDataPoints = 2
  MaxMetrics = 3
  MaxCloses = 1
  Version = {1, 2}
  Peer = {p1, p2}
  NoPeer = NoPeer
  MaxEvents = 3
  InitialMaps <- MCInitialMaps
  ManaLists = {{p1, p2}}
  Block <- MCBlocks
  NoBlock = NoBlock
  BlockParents <- MCBlockParents
  InitialTangleLimit = 2
  Tx = {t1, t2}
  NoTx = NoTx
  Spends <- MCSpends
  InitialUTXOLimit = 2
  Conflict = {c1, c2, c3}
  NoConflict = NoConflict
  Master = Master
  InitialConflictLimit = 2
  TxOf <- MCTxOf
  ConflictsOf <- MCConflictsOf
  InitialParents <- MCInitialParents
  Searches <- MCSearches
  DagLimits = {1}
  MaxLog = 4
  MaxJumps = 1
CHECK_DEADLOCK FALSE
SPECIFICATION Spec
INVARIANTS
  PatientUserSeesHerPage
  LoadingHasARequest
  VerticesAccountedFor
  GraphMirrorsVertices
  FeedShowsLatestBlocks
  TrafficMatchesMetrics
  StoreMirrorsServer
  GraphShowsNetwork
  ChosenNetworkShown
  ColoringOffLeavesNoColor
  TangleGraphMirrorsBlocks
  UTXOGraphMirrorsTransactions
  ConflictGraphMirrorsMap
