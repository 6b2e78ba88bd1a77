---------------------------- MODULE DashboardProofs ----------------------------
(***************************************************************************)
(* Theorems about the node dashboard: the explorer pages, for any ids, any *)
(* pages visited and any number of requests in flight, answered in any     *)
(* order; and the metrics of the neighbors, for any messages, limits and   *)
(* sockets.                                                                *)
(*                                                                         *)
(* The argument for the pages.  A page asks for its fields when it is      *)
(* shown, and a user who waits leaves it when all answers have arrived.    *)
(* So whatever is in flight is about the page that is shown.  What the     *)
(* page before it left in the store was reset, or belongs to fields of     *)
(* which the page waits for a new answer or shows an error instead.  The   *)
(* component in the block page is there exactly while a block with a       *)
(* transaction is shown; the metadata it waits for are of the transaction  *)
(* it was mounted with, and that is the one of the page as long as it      *)
(* waits for them.                                                         *)
(*                                                                         *)
(* The argument for the metrics.  Metrics and traffics are kept in         *)
(* sequences of different length and shifted out at different times; they  *)
(* agree when they are counted from their ends, where a pair is added      *)
(* together.                                                               *)
(***************************************************************************)
EXTENDS Explorer, NodeFeeds, Integers, SequenceTheorems, TLAPS

(* The explorer pages.                                                     *)
InFlight == BagToSet(requests)

(* The pages that only show what is reset when they are left.              *)
PlainPages == {"transaction", "output", "conflict"}
PlainFields ==
  (Queries("transaction") \union Queries("output") \union Queries("conflict")) \ NotReset

(* The pages that leave the store as it is.                                *)
Lasting == {"address", "explorer", "404"}

TypeInv ==
  /\ IsABag(requests)
  /\ \A r \in InFlight :
       r \in [field : Fields \union {"search", "inputs"}, id : Id \union {NoId}]
  /\ page \in [kind : PlainPages \union Lasting \union {"block", "tips"}, id : Id \union {NoId}]
  /\ page.kind \in PlainPages \union {"block", "address"} => page.id \in Id
  /\ entity \in [Fields -> Id \union {NoId, Garbage}]
  /\ entity["blk"] \in {NoId, entity["payload"]}
  /\ search \in Id \union {NoId}
  /\ query_err \in BOOLEAN /\ query_loading \in BOOLEAN /\ patient \in BOOLEAN
  /\ nested \in Id \union {NoId} /\ blanked \in BOOLEAN
  /\ (nested # NoId) <=> Mounts(page, entity, query_err)

(* What a request is about.                                                *)
OfPage(r) ==
  /\ r.id = page.id
  /\ \/ r.field \in Queries(page.kind)
     \/ page.kind = "transaction" /\ r.field = "inputs"
     \/ page.kind = "block" /\ r.field = "txMetadata"

(* The answer without which the page is empty is on its way.               *)
Pending(kind) ==
  \E r \in InFlight : r.field = Main(kind) \/ (kind = "transaction" /\ r.field = "inputs")

(* The fields that only one answer fills.                                  *)
Filled(kind) == IF kind = "block" THEN {"blk", "payload"} ELSE {"addr"}

(* The component in the block page waits for its answer.                   *)
MetadataAsked == \E r \in InFlight : r.field = "txMetadata"

NestedInv ==
  IF page.kind = "block"
  THEN /\ MetadataAsked => nested \in {NoId, page.id}
       /\ nested # NoId /\ ~MetadataAsked => entity["txMetadata"] \in {nested, NoId, Garbage}
  ELSE entity["blk"] = NoId

PageInv ==
  /\ \A r \in InFlight : r.field = "search" \/ OfPage(r)
  /\ page.kind \in PlainPages =>
       /\ query_err \/ Pending(page.kind) \/ entity[Main(page.kind)] # NoId
       /\ \A f \in Queries(page.kind) \ NotReset : entity[f] \in {page.id, NoId, Garbage}
  /\ page.kind \in {"block", "address"} =>
       \/ query_err \/ Pending(page.kind)
       \/ \A f \in Filled(page.kind) : entity[f] \in {page.id, Garbage}
       \/ page.kind = "block" /\ blanked /\ entity["blk"] = NoId
  /\ page.kind \in Lasting => \A f \in PlainFields : entity[f] = NoId
  /\ NestedInv

ExplorerInv == TypeInv /\ LoadingHasARequest /\ (patient => PageInv)


-----------------------------------------------------------------------------
(* The fields of the pages.                                                *)
LEMMA PageFields ==
  /\ Main("block") = "blk" /\ Main("address") = "addr" /\ Main("transaction") = "tx"
  /\ Main("output") = "output" /\ Main("conflict") = "conflict"
  /\ Queries("block") = {"blk"} /\ Queries("address") = {"addr"}
  /\ Queries("transaction") = {"tx", "txMetadata", "txAttachments"}
  /\ Queries("output") = {"output", "outputMetadata", "outputConsumers", "pendingMana"}
  /\ Queries("conflict") =
       {"conflict", "conflictChildren", "conflictConflicts", "conflictVoters"}
  /\ Queries("tips") = {"tips"} /\ Queries("explorer") = {} /\ Queries("404") = {}
  BY DEF Main, Queries

LEMMA FieldFacts ==
  /\ \A kind \in PlainPages \union {"block", "address", "tips"} : Queries(kind) \subseteq Fields
  /\ \A kind \in Lasting \ {"address"} : Queries(kind) = {}
  /\ PlainFields \subseteq Fields /\ {"blk", "payload", "addr", "tx", "tips"} \subseteq Fields
  /\ \A kind \in PlainPages : /\ Queries(kind) \ NotReset \subseteq PlainFields
                              /\ Main(kind) \in Queries(kind) \ NotReset
  /\ {"search", "inputs"} \intersect Fields = {}
  <1>1. Fields = Queries("block") \union Queries("address") \union Queries("transaction")
                   \union Queries("output") \union Queries("conflict") \union Queries("tips")
                   \union {"payload"}
    <2> DEFINE K == {"block", "address", "transaction", "output", "conflict", "tips"}
    <2>1. Fields = {"payload"} \union UNION {Queries(kind) : kind \in K}
      BY DEF Fields
    <2> HIDE DEF K
    <2>2. \A f : f \in UNION {Queries(kind) : kind \in K} <=> \E kind \in K : f \in Queries(kind)
      OBVIOUS
    <2> QED
      BY <2>1, <2>2 DEF K
  <1> QED
    BY <1>1, PageFields DEF PlainPages, Lasting, PlainFields, NotReset

(* The bag of the requests.                                                *)
LEMMA Removed ==
  ASSUME IsABag(requests), NEW r \in InFlight
  PROVE  /\ IsABag(Others(r))
         /\ BagToSet(Others(r)) \subseteq InFlight
         /\ InFlight \ {r} \subseteq BagToSet(Others(r))
  <1> DEFINE B == [e \in DOMAIN requests |-> IF e \in {r} THEN requests[e] - 1 ELSE requests[e]]
  <1>1. Others(r) = [e \in {d \in DOMAIN requests : B[d] > 0} |-> B[e]]
    BY DEF Others, (-), SetToBag
  <1>2. \A e \in DOMAIN requests : requests[e] \in Nat /\ requests[e] > 0
    BY DEF IsABag
  <1>3. \A e \in DOMAIN requests : B[e] \in Int /\ (e # r => B[e] = requests[e])
    BY <1>2
  <1> HIDE DEF B
  <1> QED
    BY <1>1, <1>2, <1>3 DEF IsABag, InFlight, BagToSet

LEMMA Added ==
  ASSUME NEW B, IsABag(B), NEW S
  PROVE  /\ IsABag(B (+) SetToBag(S))
         /\ BagToSet(B (+) SetToBag(S)) = BagToSet(B) \union S
  <1>1. \A e \in DOMAIN B : B[e] \in Nat /\ B[e] > 0
    BY DEF IsABag
  <1>2. B (+) SetToBag(S) = [e \in DOMAIN B \union S |-> (IF e \in DOMAIN B THEN B[e] ELSE 0)
                                                       + (IF e \in S THEN 1 ELSE 0)]
    BY DEF (+), SetToBag
  <1> QED
    BY <1>1, <1>2 DEF IsABag, BagToSet

LEMMA NothingInFlight ==
  /\ IsABag(EmptyBag) /\ BagToSet(EmptyBag) = {}
  BY DEF EmptyBag, SetToBag, IsABag, BagToSet

-----------------------------------------------------------------------------
LEMMA InitExplorerInv == ExplorerInit => ExplorerInv
  <1> SUFFICES ASSUME ExplorerInit PROVE ExplorerInv
    OBVIOUS
  <1>1. IsABag(requests) /\ InFlight = {}
    BY NothingInFlight DEF ExplorerInit, InFlight
  <1>2. entity \in [Fields -> Id \union {NoId, Garbage}] /\ \A f \in PlainFields : entity[f] = NoId
    BY FieldFacts DEF ExplorerInit
  <1>3. page = [kind |-> "explorer", id |-> NoId]
    BY DEF ExplorerInit
  <1>4. TypeInv
    <2>1. /\ page \in [kind : PlainPages \union Lasting \union {"block", "tips"}, id : Id \union {NoId}]
          /\ page.kind \notin PlainPages \union {"block", "address"}
      BY <1>3 DEF Lasting, PlainPages
    <2>2. entity["blk"] = NoId /\ nested = NoId /\ ~Mounts(page, entity, query_err)
      BY <1>3, FieldFacts DEF ExplorerInit, Mounts
    <2> QED
      BY <1>1, <1>2, <2>1, <2>2 DEF ExplorerInit, TypeInv
  <1>5. page.kind \notin PlainPages \union {"block", "address"}
    BY <1>3 DEF PlainPages
  <1>6. PageInv
    <2>1. page.kind # "block" /\ entity["blk"] = NoId
      BY <1>5, FieldFacts DEF ExplorerInit
    <2> QED
      BY <1>1, <1>2, <1>5, <2>1 DEF PageInv, NestedInv
  <1> QED
    BY <1>4, <1>6 DEF ExplorerInv, LoadingHasARequest, ExplorerInit


-----------------------------------------------------------------------------
(* The component in the block page is mounted, unmounted or stays.         *)
LEMMA ClearedFields ==
  ASSUME NEW e \in [Fields -> Id \union {NoId, Garbage}]
  PROVE  /\ Cleared(e) \in [Fields -> Id \union {NoId, Garbage}]
         /\ \A f \in Fields \ NotReset : Cleared(e)[f] = NoId
         /\ Cleared(e)["blk"] = NoId
  BY FieldFacts DEF Cleared, NotReset

(* What is rendered is of the right types, ...                             *)
Renderable(p, e, err, B) ==
  /\ e \in [Fields -> Id \union {NoId, Garbage}] /\ e["blk"] \in {NoId, e["payload"]}
  /\ err \in BOOLEAN /\ IsABag(B)
  /\ \A r \in BagToSet(B) :
       r \in [field : Fields \union {"search", "inputs"}, id : Id \union {NoId}]
  /\ p \in [kind : PlainPages \union Lasting \union {"block", "tips"}, id : Id \union {NoId}]
  /\ p.kind \in PlainPages \union {"block", "address"} => p.id \in Id
  /\ search' \in Id \union {NoId} /\ query_loading' \in BOOLEAN /\ patient' \in BOOLEAN
  /\ page' = p

(* ... and then it is as follows.                                          *)
Rendering(p, e, err, B) ==
  /\ BagToSet(B) \subseteq InFlight'
  /\ IF Mounts(p, e, err) /\ (nested = NoId \/ p.kind # page.kind)
     THEN /\ InFlight' = BagToSet(B) \union {Request("txMetadata", e["payload"])}
          /\ e["payload"] = e["blk"] /\ nested' = e["payload"]
     ELSE InFlight' = BagToSet(B) /\ nested' = IF Mounts(p, e, err) THEN nested ELSE NoId
  /\ IF ~Mounts(p, e, err) /\ nested # NoId /\ p.kind = page.kind
     THEN entity' = Cleared(e) /\ query_err' = FALSE /\ blanked' = TRUE
     ELSE entity' = e /\ query_err' = err /\ blanked' = (blanked /\ p = page)

LEMMA Rendered ==
  ASSUME TypeInv, NEW p, NEW e, NEW err, NEW B, Renderable(p, e, err, B), Render(p, e, err, B)
  PROVE  TypeInv' /\ Rendering(p, e, err, B)
  <1> DEFINE mounts == Mounts(p, e, err)
             there == nested # NoId /\ p.kind = page.kind
             new == mounts /\ ~there
             q == Request("txMetadata", e["payload"])
  <1>1. /\ nested' = IF ~mounts THEN NoId ELSE IF there THEN nested ELSE e["payload"]
        /\ requests' = IF new THEN B (+) SetToBag({q}) ELSE B
        /\ entity' = IF there /\ ~mounts THEN Cleared(e) ELSE e
        /\ query_err' = (err /\ ~(there /\ ~mounts))
        /\ blanked' = ((there /\ ~mounts) \/ (blanked /\ p = page))
    BY Zenon DEF Render
  <1>2. mounts => e["blk"] \in Id /\ e["payload"] = e["blk"] /\ p.kind = "block" /\ ~err
    BY ExplorerConstants DEF Mounts, Renderable
  <1>3. IsABag(requests') /\ InFlight' = BagToSet(B) \union (IF new THEN {q} ELSE {})
    BY <1>1, Added DEF InFlight, Renderable
  <1>4. new => q \in [field : Fields \union {"search", "inputs"}, id : Id \union {NoId}]
    <2>1. "txMetadata" \in Fields
      BY FieldFacts, PageFields DEF PlainPages
    <2> QED
      BY <1>2, <2>1 DEF Request
  <1>5. /\ entity' \in [Fields -> Id \union {NoId, Garbage}]
        /\ entity'["blk"] \in {NoId, entity'["payload"]}
    BY <1>1, ClearedFields DEF Renderable
  <1>6. nested' \in Id \union {NoId} /\ (nested' # NoId <=> mounts)
    BY <1>1, <1>2, ExplorerConstants DEF TypeInv
  <1>7. Mounts(p, entity', query_err') <=> mounts
    <2>1. CASE there /\ ~mounts
      <3>1. entity'["blk"] \notin TransactionBlocks
        BY <1>1, <2>1, ClearedFields, ExplorerConstants DEF Renderable
      <3> QED
        BY <2>1, <3>1 DEF Mounts
    <2>2. CASE ~(there /\ ~mounts)
      BY <1>1, <2>2 DEF Mounts
    <2> QED
      BY <2>1, <2>2
  <1>8. Mounts(page', entity', query_err') <=> mounts
    BY <1>7 DEF Renderable
  <1>9. query_err' \in BOOLEAN /\ blanked' \in BOOLEAN
    BY <1>1 DEF TypeInv, Renderable
  <1>10. (nested # NoId)' <=> Mounts(page, entity, query_err)'
    BY <1>6, <1>8
  <1> HIDE DEF mounts, q, there
  <1>11. TypeInv'
    BY <1>3, <1>4, <1>5, <1>6, <1>9, <1>10 DEF TypeInv, Renderable
  <1>12. IF new THEN /\ InFlight' = BagToSet(B) \union {q}
                     /\ e["payload"] = e["blk"] /\ nested' = e["payload"]
         ELSE InFlight' = BagToSet(B) /\ nested' = IF mounts THEN nested ELSE NoId
    BY <1>1, <1>2, <1>3
  <1>13. IF there /\ ~mounts
         THEN entity' = Cleared(e) /\ query_err' = FALSE /\ blanked' = TRUE
         ELSE entity' = e /\ query_err' = err /\ blanked' = (blanked /\ p = page)
    <2>1. CASE there /\ ~mounts
      BY <1>1, <2>1
    <2>2. CASE ~(there /\ ~mounts)
      <3>1. entity' = e
        BY <1>1, <2>2
      <3>2. query_err' = err
        BY <1>1, <2>2 DEF Renderable
      <3>3. blanked' = (blanked /\ p = page)
        BY <1>1, <2>2
      <3> QED
        BY <2>2, <3>1, <3>2, <3>3
    <2> QED
      BY <2>1, <2>2
  <1> QED
    BY <1>3, <1>11, <1>12, <1>13, Zenon DEF mounts, q, there, Rendering

(* The router shows a page, when an answer to a search is removed from     *)
(* what is in flight, or nothing.                                          *)
LEMMA ShowStep ==
  ASSUME ExplorerInv, NEW B, IsABag(B), BagToSet(B) \subseteq InFlight,
         \A r \in InFlight \ BagToSet(B) : r.field = "search",
         NEW p \in [kind : PlainPages \union Lasting \union {"block", "tips"},
                    id : Id \union {NoId}],
         p.kind \in PlainPages \union {"block", "address"} => p.id \in Id,
         p.kind = page.kind => p = page \/ p.kind \notin PlainPages \union {"tips"},
         Show(p, B), search' \in Id \union {NoId}
  PROVE  ExplorerInv'
  <1> DEFINE asked == {Request(f, p.id) : f \in Queries(p.kind)}
             resets == p.kind # page.kind /\ page.kind \in Resetting
             e == IF resets THEN Cleared(entity) ELSE entity
             err == query_err /\ ~resets
             Q == IF p # page THEN B (+) SetToBag(asked) ELSE B
  <1>1. /\ page' = p /\ Render(p, e, err, Q)
        /\ query_loading' = (query_loading \/ (p # page /\ p.kind \in Searchable))
        /\ patient' = (patient /\ (p # page => B = EmptyBag))
    BY Zenon DEF Show, Asked
  <1>2. \A r \in asked : /\ r.id = p.id /\ r.field \in Queries(p.kind)
                         /\ r \in [field : Fields \union {"search", "inputs"}, id : Id \union {NoId}]
    <2>1. Queries(p.kind) \subseteq Fields
      BY FieldFacts
    <2> QED
      BY <2>1 DEF Request
  <1>3. ASSUME NEW f \in Queries(p.kind) PROVE \E r \in asked : r.field = f
    <2>1. Request(f, p.id) \in asked
      OBVIOUS
    <2>2. Request(f, p.id).field = f
      BY DEF Request
    <2> QED
      BY <2>1, <2>2
  <1> HIDE DEF asked
  <1>4. IsABag(Q) /\ BagToSet(Q) = BagToSet(B) \union (IF p # page THEN asked ELSE {})
    BY Added
  <1>5. \A r \in BagToSet(Q) :
          r \in [field : Fields \union {"search", "inputs"}, id : Id \union {NoId}]
    BY <1>2, <1>4 DEF ExplorerInv, TypeInv
  <1>6. /\ e \in [Fields -> Id \union {NoId, Garbage}] /\ e["blk"] \in {NoId, e["payload"]}
        /\ err \in BOOLEAN
    BY ClearedFields DEF ExplorerInv, TypeInv
  <1>7. query_loading' \in BOOLEAN /\ patient' \in BOOLEAN /\ TypeInv
    BY <1>1 DEF ExplorerInv, TypeInv
  <1> HIDE DEF e, err, Q
  <1>8. TypeInv' /\ Rendering(p, e, err, Q)
    <2>1. Renderable(p, e, err, Q)
      BY <1>1, <1>4, <1>5, <1>6, <1>7 DEF Renderable
    <2> QED
      BY <1>1, <1>7, <2>1, Rendered
  <1>9. LoadingHasARequest'
    <2> SUFFICES ASSUME query_loading' PROVE \E r \in InFlight' : r.field \in {"blk", "addr"}
      BY DEF LoadingHasARequest, InFlight
    <2>1. CASE query_loading
      <3>1. PICK r \in InFlight : r.field \in {"blk", "addr"}
        BY <2>1 DEF ExplorerInv, LoadingHasARequest, InFlight
      <3> QED
        BY <1>4, <1>8, <3>1 DEF Rendering
    <2>2. CASE p # page /\ p.kind \in Searchable
      <3>1. \E f \in Queries(p.kind) : f \in {"blk", "addr"}
        BY <2>2, PageFields DEF Searchable
      <3> QED
        BY <1>3, <1>4, <1>8, <2>2, <3>1 DEF Rendering
    <2> QED
      BY <1>1, <2>1, <2>2
  (* A page of the same kind goes on with the component as it was; none    *)
  (* is mounted in another.                                                *)
  <1>10. ASSUME p.kind = page.kind
         PROVE  /\ UNCHANGED <<entity, query_err, nested>> /\ blanked' = (blanked /\ p = page)
                /\ InFlight' = BagToSet(Q)
    <2>1. e = entity /\ err = query_err
      BY <1>10 DEF e, err, ExplorerInv, TypeInv
    <2>2. Mounts(p, e, err) <=> nested # NoId
      BY <1>10, <2>1 DEF ExplorerInv, TypeInv, Mounts
    <2> QED
      BY <1>8, <1>10, <2>1, <2>2 DEF Rendering
  <1>11. ASSUME p.kind # page.kind, patient
         PROVE  entity' = e /\ nested' = NoId /\ InFlight' = BagToSet(Q) /\ query_err' = err
                /\ (p.kind # "block" => entity'["blk"] = NoId)
    <2>1. e["blk"] = NoId
      <3>1. CASE resets
        BY <3>1, ClearedFields DEF e, ExplorerInv, TypeInv
      <3>2. CASE ~resets
        <4>1. page.kind # "block"
          BY <1>11, <3>2 DEF Resetting
        <4> QED
          BY <1>11, <3>2, <4>1 DEF e, ExplorerInv, PageInv, NestedInv
      <3> QED
        BY <3>1, <3>2
    <2>2. ~Mounts(p, e, err)
      BY <2>1, ExplorerConstants DEF Mounts
    <2> QED
      BY <1>8, <1>11, <2>1, <2>2 DEF Rendering
  <1>12. ASSUME patient', p = page PROVE PageInv'
    <2>1. /\ PageInv /\ UNCHANGED <<page, entity, query_err, nested, blanked>>
          /\ InFlight' \subseteq InFlight /\ \A r \in InFlight \ InFlight' : r.field = "search"
      BY <1>1, <1>4, <1>10, <1>12 DEF ExplorerInv, TypeInv
    <2>2. Main(page.kind) # "search" \/ page.kind \notin PlainPages \union {"block", "address"}
      BY FieldFacts, PageFields DEF PlainPages
    <2>3. page.kind \in PlainPages \union {"block", "address"} /\ Pending(page.kind) =>
            Pending(page.kind)'
      BY <2>1, <2>2 DEF Pending
    <2>4. \A r \in InFlight : OfPage(r)' <=> OfPage(r)
      BY <2>1 DEF OfPage
    <2>5. NestedInv' <=> NestedInv
      <3>1. MetadataAsked' <=> MetadataAsked
        BY <2>1 DEF MetadataAsked
      <3> QED
        BY <2>1, <3>1 DEF NestedInv
    <2> QED
      BY <2>1, <2>3, <2>4, <2>5 DEF PageInv
  <1>13. ASSUME patient', p # page PROVE PageInv'
    <2>1. PageInv /\ patient /\ InFlight' = asked /\ page' = p
      BY <1>1, <1>4, <1>10, <1>11, <1>13, NothingInFlight DEF ExplorerInv
    <2>2. \A r \in InFlight' : OfPage(r)'
      BY <1>2, <2>1 DEF OfPage
    <2>3. p.kind \in PlainPages \union {"block", "address"} => Pending(p.kind)'
      <3>1. p.kind \in PlainPages \union {"block", "address"} => Main(p.kind) \in Queries(p.kind)
        BY FieldFacts, PageFields
      <3> QED
        BY <1>3, <2>1, <3>1 DEF Pending
    <2>4. p.kind \in PlainPages \union Lasting => \A f \in PlainFields : entity'[f] = NoId
      <3>1. CASE p.kind # page.kind /\ page.kind \in Resetting
        <4>1. entity' = Cleared(entity) /\ entity \in [Fields -> Id \union {NoId, Garbage}]
          BY <1>11, <2>1, <3>1 DEF e, ExplorerInv, TypeInv
        <4>2. PlainFields \subseteq Fields \ NotReset
          BY FieldFacts DEF PlainFields
        <4> QED
          BY <4>1, <4>2, ClearedFields
      <3>2. CASE p.kind # page.kind /\ page.kind \notin Resetting
        <4>1. page.kind \in Lasting /\ entity' = entity
          BY <1>11, <2>1, <3>2 DEF e, ExplorerInv, TypeInv, PlainPages, Resetting
        <4> QED
          BY <2>1, <4>1 DEF PageInv
      <3>3. CASE p.kind = page.kind
        BY <1>10, <1>13, <2>1, <3>3 DEF PageInv
      <3> QED
        BY <3>1, <3>2, <3>3
    <2>5. \A kind \in PlainPages : Queries(kind) \ NotReset \subseteq PlainFields
      BY FieldFacts
    <2>6. NestedInv'
      <3>1. p.kind = "block" => ~MetadataAsked'
        BY <1>2, <2>1, PageFields DEF MetadataAsked
      <3>2. CASE p.kind # page.kind
        BY <1>11, <2>1, <3>1, <3>2 DEF NestedInv
      <3>3. CASE p.kind = page.kind
        <4>1. ~MetadataAsked
          <5>1. BagToSet(B) = {}
            BY <1>1, <1>13, NothingInFlight
          <5>2. \A r \in InFlight : r.field = "search"
            BY <5>1
          <5> QED
            BY <5>2 DEF MetadataAsked
        <4> QED
          BY <1>10, <2>1, <3>1, <3>3, <4>1 DEF NestedInv, PageInv
      <3> QED
        BY <3>2, <3>3
    <2> QED
      BY <2>1, <2>2, <2>3, <2>4, <2>5, <2>6 DEF PageInv
  <1> QED
    BY <1>8, <1>9, <1>12, <1>13 DEF ExplorerInv

LEMMA VisitStep ==
  ASSUME ExplorerInv, NEW p \in Pages, Visit(p)
  PROVE  ExplorerInv'
  <1>1. /\ IsABag(requests) /\ p # page /\ (p.kind = page.kind => p.kind \in Searchable)
        /\ Show(p, requests) /\ UNCHANGED search
    BY DEF Visit, ExplorerInv, TypeInv
  <1>2. /\ p \in [kind : PlainPages \union Lasting \union {"block", "tips"}, id : Id \union {NoId}]
        /\ p.kind \in PlainPages \union {"block", "address"} => p.id \in Id
    BY ExplorerConstants DEF Pages, PlainPages, Lasting
  <1>3. p.kind = page.kind => p = page \/ p.kind \notin PlainPages \union {"tips"}
    BY <1>1 DEF Searchable, PlainPages
  <1>4. /\ BagToSet(requests) \subseteq InFlight
        /\ \A r \in InFlight \ BagToSet(requests) : r.field = "search"
    BY DEF InFlight
  <1>5. search' \in Id \union {NoId}
    BY <1>1 DEF ExplorerInv, TypeInv
  <1> QED
    BY <1>1, <1>2, <1>3, <1>4, <1>5, ShowStep

LEMMA ShowSearchResult ==
  ASSUME ExplorerInv, NEW r \in InFlight, NEW result \in {"block", "address", "404"},
         r.field = "search", search' = NoId,
         Show(IF search = NoId THEN [kind |-> "explorer", id |-> NoId]
                               ELSE [kind |-> result, id |-> search], Others(r))
  PROVE  ExplorerInv'
  <1> DEFINE p == IF search = NoId THEN [kind |-> "explorer", id |-> NoId]
                                   ELSE [kind |-> result, id |-> search]
  <1>1. /\ IsABag(Others(r)) /\ BagToSet(Others(r)) \subseteq InFlight
        /\ \A q \in InFlight \ BagToSet(Others(r)) : q.field = "search"
    BY Removed DEF ExplorerInv, TypeInv
  <1>2. /\ p \in [kind : PlainPages \union Lasting \union {"block", "tips"}, id : Id \union {NoId}]
        /\ p.kind \in {"explorer", "block", "address", "404"}
        /\ p.kind \in PlainPages \union {"block", "address"} => p.id \in Id
    BY DEF ExplorerInv, TypeInv, PlainPages, Lasting
  <1>3. p.kind \notin PlainPages \union {"tips"}
    BY <1>2 DEF PlainPages
  <1>4. Show(p, Others(r))
    OBVIOUS
  <1> HIDE DEF p
  <1> QED
    BY <1>1, <1>2, <1>3, <1>4, ShowStep


-----------------------------------------------------------------------------
(* An answer about one field, which is written into the store, or an       *)
(* error.                                                                  *)
LEMMA PageOfRequest ==
  ASSUME ExplorerInv, patient, NEW r \in InFlight, r.field # "search"
  PROVE  /\ r.id = page.id
         /\ page.kind \in PlainPages \union {"block", "address", "tips"}
         /\ r.field = "blk" => page.kind = "block"
         /\ r.field = "addr" => page.kind = "address"
         /\ page.kind = "block" => r.field \in {"blk", "txMetadata"}
         /\ page.kind = "address" => r.field = "addr"
  <1>1. OfPage(r)
    BY DEF ExplorerInv, PageInv
  <1>2. page.kind \in PlainPages \union Lasting \union {"block", "tips"}
    BY DEF ExplorerInv, TypeInv
  <1> QED
    BY <1>1, <1>2, PageFields DEF OfPage, PlainPages, Lasting

(* What is in flight after an answer.                                      *)
LEMMA AfterAnswer ==
  ASSUME ExplorerInv, NEW r \in InFlight, requests' = Others(r), UNCHANGED <<page, patient>>
  PROVE  /\ IsABag(requests') /\ InFlight' \subseteq InFlight
         /\ \A q \in InFlight' :
              q \in [field : Fields \union {"search", "inputs"}, id : Id \union {NoId}]
         /\ patient => \A q \in InFlight' : q.field = "search" \/ OfPage(q)'
         /\ r.field \notin {"blk", "addr"} /\ query_loading =>
              \E q \in InFlight' : q.field \in {"blk", "addr"}
         /\ \A kind : /\ Pending(kind) /\ r.field # Main(kind)
                      /\ ~(kind = "transaction" /\ r.field = "inputs")
                      => Pending(kind)'
  <1>1. IsABag(requests') /\ InFlight' \subseteq InFlight /\ InFlight \ {r} \subseteq InFlight'
    BY Removed DEF ExplorerInv, TypeInv, InFlight
  <1>2. \A q : OfPage(q)' <=> OfPage(q)
    BY DEF OfPage
  <1> QED
    BY <1>1, <1>2 DEF ExplorerInv, TypeInv, PageInv, LoadingHasARequest, InFlight, Pending

LEMMA RemovedKeepsPending ==
  ASSUME ExplorerInv, NEW r \in InFlight, InFlight' \subseteq InFlight,
         BagToSet(Others(r)) \subseteq InFlight', UNCHANGED page
  PROVE  /\ patient => \A q \in InFlight' : q.field = "search" \/ OfPage(q)'
         /\ MetadataAsked' => MetadataAsked
         /\ r.field # "txMetadata" => (MetadataAsked' <=> MetadataAsked)
  <1>1. InFlight \ {r} \subseteq InFlight'
    BY Removed DEF ExplorerInv, TypeInv
  <1>2. \A q : OfPage(q)' <=> OfPage(q)
    BY DEF OfPage
  <1> QED
    BY <1>1, <1>2 DEF ExplorerInv, PageInv, MetadataAsked

(* updateQueryError: the component in the block page is unmounted, if it   *)
(* is there, and takes the error and the block with it.                    *)
LEMMA ErrorStep ==
  ASSUME ExplorerInv, NEW r \in InFlight, QueryError(Others(r))
  PROVE  ExplorerInv'
  <1>1. /\ Render(page, entity, TRUE, Others(r)) /\ UNCHANGED <<page, search, patient>>
        /\ query_loading' = FALSE
    BY DEF QueryError
  <1>2. /\ IsABag(Others(r)) /\ BagToSet(Others(r)) \subseteq InFlight
        /\ \A q \in BagToSet(Others(r)) :
             q \in [field : Fields \union {"search", "inputs"}, id : Id \union {NoId}]
    BY Removed DEF ExplorerInv, TypeInv
  <1>3. ~Mounts(page, entity, TRUE)
    BY DEF Mounts
  <1>4. /\ TypeInv' /\ InFlight' = BagToSet(Others(r)) /\ nested' = NoId
        /\ IF nested # NoId
           THEN entity' = Cleared(entity) /\ query_err' = FALSE /\ blanked' = TRUE
           ELSE entity' = entity /\ query_err' = TRUE /\ blanked' = blanked
    <2> DEFINE err == TRUE
    <2>1. err \in BOOLEAN /\ ~Mounts(page, entity, err) /\ Render(page, entity, err, Others(r))
      BY <1>1, <1>3
    <2>2. err = TRUE
      OBVIOUS
    <2> HIDE DEF err
    <2>3. /\ TypeInv /\ page' = page
          /\ entity \in [Fields -> Id \union {NoId, Garbage}]
          /\ entity["blk"] \in {NoId, entity["payload"]}
          /\ page \in [kind : PlainPages \union Lasting \union {"block", "tips"},
                       id : Id \union {NoId}]
          /\ page.kind \in PlainPages \union {"block", "address"} => page.id \in Id
          /\ search' \in Id \union {NoId} /\ query_loading' \in BOOLEAN /\ patient' \in BOOLEAN
      BY <1>1 DEF ExplorerInv, TypeInv
    <2>4. Renderable(page, entity, err, Others(r))
      BY <1>2, <2>1, <2>3 DEF Renderable
    <2>5. TypeInv' /\ Rendering(page, entity, err, Others(r))
      BY <2>1, <2>3, <2>4, Rendered
    <2>6. blanked \in BOOLEAN
      BY DEF ExplorerInv, TypeInv
    <2> QED
      BY <2>1, <2>2, <2>5, <2>6 DEF Rendering
  <1>5. ASSUME patient PROVE PageInv'
    <2>1. PageInv /\ \A q \in InFlight' : q.field = "search" \/ OfPage(q)'
      BY <1>1, <1>2, <1>4, <1>5, RemovedKeepsPending DEF ExplorerInv
    <2>2. CASE nested # NoId
      <3>1. page.kind = "block" /\ page.kind \notin PlainPages \union Lasting
        BY <2>2 DEF ExplorerInv, TypeInv, Mounts, PlainPages, Lasting
      <3>2. entity'["blk"] = NoId
        BY <1>4, <2>2, ClearedFields DEF ExplorerInv, TypeInv
      <3> QED
        BY <1>1, <1>4, <2>1, <2>2, <3>1, <3>2 DEF PageInv, NestedInv, MetadataAsked, OfPage
    <2>3. CASE nested = NoId
      BY <1>1, <1>4, <2>1, <2>3 DEF PageInv, NestedInv
    <2> QED
      BY <2>2, <2>3
  <1> QED
    BY <1>1, <1>4, <1>5 DEF ExplorerInv, LoadingHasARequest

LEMMA IgnoredStep ==
  ASSUME ExplorerInv, NEW r \in InFlight, Ignored(r),
         r.field \notin {"search", "inputs", "blk", "addr", "txMetadata"},
         \A kind \in PlainPages : r.field # Main(kind)
  PROVE  ExplorerInv'
  <1>1. /\ UNCHANGED <<page, entity, search, patient, query_err, query_loading, nested, blanked>>
        /\ requests' = Others(r)
    BY DEF Ignored
  <1>2. TypeInv'
    BY <1>1, AfterAnswer DEF ExplorerInv, TypeInv, Mounts
  <1>3. LoadingHasARequest'
    BY <1>1, AfterAnswer DEF ExplorerInv, LoadingHasARequest, InFlight
  <1>4. \A kind \in PlainPages \union {"block", "address"} : Pending(kind) => Pending(kind)'
    BY <1>1, AfterAnswer, PageFields
  <1>5. MetadataAsked' <=> MetadataAsked
    BY <1>1, AfterAnswer, RemovedKeepsPending DEF InFlight
  <1>6. ASSUME patient PROVE PageInv'
    <2>1. PageInv /\ \A q \in InFlight' : q.field = "search" \/ OfPage(q)'
      BY <1>1, <1>6, AfterAnswer DEF ExplorerInv
    <2>2. NestedInv' <=> NestedInv
      BY <1>1, <1>5 DEF NestedInv
    <2> QED
      BY <1>1, <1>4, <2>1, <2>2 DEF PageInv
  <1> QED
    BY <1>1, <1>2, <1>3, <1>6 DEF ExplorerInv

LEMMA UpdateStep ==
  ASSUME ExplorerInv, NEW r \in InFlight, requests' = Others(r),
         NEW f \in Fields \ {"blk", "payload"}, NEW value \in {r.id, Garbage},
         Update(f, value),
         r.field = f \/ (r.field = "inputs" /\ f = "tx"),
         r.field \notin {"search", "blk", "addr"}
  PROVE  ExplorerInv'
  <1>1. /\ UNCHANGED <<page, search, patient, query_err, query_loading, nested, blanked>>
        /\ entity' = [entity EXCEPT ![f] = value]
    BY DEF Update
  <1>2. r.id \in Id \union {NoId} /\ entity \in [Fields -> Id \union {NoId, Garbage}]
    BY DEF ExplorerInv, TypeInv
  <1>3. /\ entity' \in [Fields -> Id \union {NoId, Garbage}] /\ entity'[f] = value
        /\ \A g \in Fields \ {f} : entity'[g] = entity[g]
        /\ entity'["blk"] = entity["blk"] /\ entity'["payload"] = entity["payload"]
    BY <1>1, <1>2, FieldFacts
  <1>4. TypeInv'
    <2>1. Mounts(page, entity, query_err)' <=> Mounts(page, entity, query_err)
      BY <1>1, <1>3 DEF Mounts
    <2> QED
      BY <1>1, <1>3, <2>1, AfterAnswer DEF ExplorerInv, TypeInv
  <1>5. LoadingHasARequest'
    BY <1>1, AfterAnswer DEF ExplorerInv, LoadingHasARequest, InFlight
  <1>6. ASSUME patient PROVE PageInv'
    <2>1. /\ r.id = page.id /\ page.kind \in PlainPages \union {"tips", "block"}
          /\ page.kind = "block" => r.field = "txMetadata"
          /\ PageInv
      BY <1>6, PageOfRequest DEF ExplorerInv
    <2>2. page.kind \notin Lasting
      BY <2>1 DEF PlainPages, Lasting
    <2>3. \A q \in InFlight' : q.field = "search" \/ OfPage(q)'
      BY <1>1, <1>6, AfterAnswer
    <2>4. ASSUME page.kind \in PlainPages
          PROVE  /\ query_err \/ Pending(page.kind)' \/ entity'[Main(page.kind)] # NoId
                 /\ \A g \in Queries(page.kind) \ NotReset : entity'[g] \in {page.id, NoId, Garbage}
      <3>1. page.id \in Id /\ page.id # NoId /\ Garbage # NoId
        BY <2>4, ExplorerConstants DEF ExplorerInv, TypeInv
      <3>2. Queries(page.kind) \subseteq Fields /\ Main(page.kind) \in Fields
        BY <2>4, FieldFacts
      <3>3. CASE Main(page.kind) = f
        BY <1>3, <2>1, <2>4, <3>1, <3>2, <3>3 DEF PageInv
      <3>4. CASE Main(page.kind) # f
        <4>1. Pending(page.kind) => Pending(page.kind)'
          <5>1. r.field # Main(page.kind)
            BY <3>2, <3>4, FieldFacts
          <5>2. ~(page.kind = "transaction" /\ r.field = "inputs")
            BY <3>4, PageFields, FieldFacts
          <5> QED
            BY <1>1, <5>1, <5>2, AfterAnswer
        <4> QED
          BY <1>3, <2>1, <2>4, <3>1, <3>2, <3>4, <4>1 DEF PageInv
      <3> QED
        BY <3>3, <3>4
    <2>5. page.kind # "address"
      BY <2>2 DEF Lasting
    <2>6. InFlight' \subseteq InFlight
      BY <1>1, AfterAnswer
    <2>7. NestedInv'
      <3>1. CASE page.kind = "block"
        <4>1. f = "txMetadata" /\ MetadataAsked
          BY <2>1, <3>1 DEF MetadataAsked
        <4>2. nested \in {NoId, page.id}
          BY <2>1, <3>1, <4>1 DEF PageInv, NestedInv
        <4> QED
          BY <1>1, <1>3, <2>1, <3>1, <4>1, <4>2 DEF NestedInv
      <3>2. CASE page.kind # "block"
        BY <1>1, <1>3, <2>1, <3>2 DEF PageInv, NestedInv
      <3> QED
        BY <3>1, <3>2
    <2>8. ASSUME page.kind = "block"
          PROVE  \/ query_err \/ Pending(page.kind)'
                 \/ \A g \in Filled(page.kind) : entity'[g] \in {page.id, Garbage}
                 \/ blanked /\ entity'["blk"] = NoId
      <3>1. Pending(page.kind) => Pending(page.kind)'
        BY <1>1, <2>8, AfterAnswer, PageFields
      <3>2. \A g \in Filled(page.kind) : entity'[g] = entity[g]
        BY <1>3, <2>8 DEF Filled
      <3> QED
        BY <1>3, <2>1, <2>8, <3>1, <3>2 DEF PageInv
    <2> QED
      BY <1>1, <2>2, <2>3, <2>4, <2>5, <2>7, <2>8 DEF PageInv
  <1> QED
    BY <1>1, <1>4, <1>5, <1>6 DEF ExplorerInv


(* searchBlock and searchAddress.                                          *)
LEMMA BodyIsShown ==
  ASSUME ExplorerInv, NEW r \in InFlight
  PROVE  Body(r) \in {r.id, Garbage} /\ Body(r) \in Id \union {NoId, Garbage}
  BY DEF Body, ExplorerInv, TypeInv

LEMMA BlockStep ==
  ASSUME ExplorerInv, NEW r \in InFlight, NEW outcome, BlockAnswered(r, outcome)
  PROVE  ExplorerInv'
  <1>1. CASE outcome \in {"notFound", "failed"}
    BY <1>1, ErrorStep DEF BlockAnswered
  <1>2. CASE outcome \notin {"notFound", "failed"}
    <2> DEFINE e == [entity EXCEPT !["blk"] = Body(r), !["payload"] = Body(r)]
               err == FALSE
    <2>1. /\ r.field = "blk" /\ Render(page, e, err, Others(r))
          /\ query_loading' = FALSE /\ UNCHANGED <<page, search, patient>>
      BY <1>2 DEF BlockAnswered
    <2>2. /\ IsABag(Others(r)) /\ BagToSet(Others(r)) \subseteq InFlight
          /\ InFlight \ {r} \subseteq BagToSet(Others(r))
          /\ \A q \in BagToSet(Others(r)) :
               q \in [field : Fields \union {"search", "inputs"}, id : Id \union {NoId}]
      BY Removed DEF ExplorerInv, TypeInv
    <2>3. /\ e \in [Fields -> Id \union {NoId, Garbage}] /\ e["blk"] = Body(r)
          /\ e["payload"] = Body(r) /\ e["txMetadata"] = entity["txMetadata"]
      <3>1. /\ entity \in [Fields -> Id \union {NoId, Garbage}]
            /\ {"blk", "payload", "txMetadata"} \subseteq Fields
        BY FieldFacts, PageFields DEF ExplorerInv, TypeInv, PlainPages
      <3>2. /\ e \in [Fields -> Id \union {NoId, Garbage}]
            /\ \A f \in Fields : e[f] = IF f \in {"blk", "payload"} THEN Body(r) ELSE entity[f]
        BY <3>1, BodyIsShown
      <3> HIDE DEF e
      <3> QED
        BY <3>1, <3>2
    <2>4. err \in BOOLEAN /\ ~err
      OBVIOUS
    <2> HIDE DEF e, err
    <2>5. /\ TypeInv /\ page' = page /\ page \in [kind : PlainPages \union Lasting
                                                    \union {"block", "tips"}, id : Id \union {NoId}]
          /\ page.kind \in PlainPages \union {"block", "address"} => page.id \in Id
          /\ search' \in Id \union {NoId} /\ query_loading' \in BOOLEAN /\ patient' \in BOOLEAN
      BY <2>1 DEF ExplorerInv, TypeInv
    <2>6. /\ TypeInv' /\ BagToSet(Others(r)) \subseteq InFlight'
          /\ IF Mounts(page, e, err) /\ nested = NoId
             THEN /\ InFlight' = BagToSet(Others(r)) \union {Request("txMetadata", Body(r))}
                  /\ nested' = Body(r)
             ELSE /\ InFlight' = BagToSet(Others(r))
                  /\ nested' = IF Mounts(page, e, err) THEN nested ELSE NoId
          /\ IF ~Mounts(page, e, err) /\ nested # NoId
             THEN entity' = Cleared(e) /\ query_err' = FALSE /\ blanked' = TRUE
             ELSE /\ entity' = e /\ query_err' = FALSE
      <3>1. Renderable(page, e, err, Others(r))
        BY <2>2, <2>3, <2>4, <2>5 DEF Renderable
      <3>2. TypeInv' /\ Rendering(page, e, err, Others(r))
        BY <2>1, <2>5, <3>1, Rendered
      <3> QED
        BY <2>3, <2>4, <3>2 DEF Rendering
    <2>7. ASSUME patient PROVE PageInv'
      <3>1. PageInv /\ page.kind = "block" /\ r.id = page.id /\ Body(r) \in {page.id, Garbage}
        BY <2>1, <2>7, PageOfRequest, BodyIsShown DEF ExplorerInv
      <3>2. page.kind \notin PlainPages \union Lasting
        BY <3>1 DEF PlainPages, Lasting
      <3> DEFINE new == Mounts(page, e, err) /\ nested = NoId
      <3>3. new => Body(r) = page.id
        BY <2>3, <3>1, ExplorerConstants DEF Mounts
      <3>4. \A q \in InFlight' : q.field = "search" \/ OfPage(q)'
        <4>1. \A q \in BagToSet(Others(r)) : q.field = "search" \/ OfPage(q)
          BY <2>2, <3>1 DEF PageInv
        <4>2. \A q : OfPage(q)' <=> OfPage(q)
          BY <2>1 DEF OfPage
        <4>3. new => OfPage(Request("txMetadata", Body(r)))
          BY <3>1, <3>3 DEF OfPage, Request
        <4> QED
          BY <2>6, <4>1, <4>2, <4>3
      <3>5. \/ \A f \in Filled(page.kind) : entity'[f] \in {page.id, Garbage}
            \/ blanked' /\ entity'["blk"] = NoId
        BY <2>3, <2>6, <3>1, ClearedFields DEF Filled
      <3>6. NestedInv'
        <4>1. CASE new
          <5>1. Request("txMetadata", Body(r)).field = "txMetadata"
            BY DEF Request
          <5>2. MetadataAsked'
            BY <2>6, <4>1, <5>1 DEF MetadataAsked
          <5> QED
            BY <2>1, <2>6, <3>1, <3>3, <4>1, <5>2 DEF NestedInv
        <4>2. CASE Mounts(page, e, err) /\ nested # NoId
          <5>1. nested' = nested /\ entity'["txMetadata"] = entity["txMetadata"]
                /\ InFlight' = BagToSet(Others(r))
            BY <2>3, <2>6, <4>2
          <5>2. MetadataAsked' <=> MetadataAsked
            BY <2>1, <2>2, <5>1, RemovedKeepsPending
          <5> QED
            BY <2>1, <3>1, <5>1, <5>2 DEF NestedInv, PageInv
        <4>3. CASE ~Mounts(page, e, err)
          BY <2>1, <2>6, <3>1, <4>3 DEF NestedInv
        <4> QED
          BY <4>1, <4>2, <4>3
      <3> HIDE DEF new
      <3> QED
        BY <2>1, <2>6, <3>1, <3>2, <3>4, <3>5, <3>6 DEF PageInv
    <2> QED
      BY <2>1, <2>6, <2>7 DEF ExplorerInv, LoadingHasARequest
  <1> QED
    BY <1>1, <1>2

LEMMA AddressStep ==
  ASSUME ExplorerInv, NEW r \in InFlight, NEW outcome, AddressAnswered(r, outcome)
  PROVE  ExplorerInv'
  <1>1. CASE outcome \in {"notFound", "failed"}
    BY <1>1, ErrorStep DEF AddressAnswered
  <1>2. CASE outcome \notin {"notFound", "failed"}
    <2> DEFINE e == [entity EXCEPT !["addr"] = Body(r)]
               err == FALSE
    <2>1. /\ r.field = "addr" /\ Render(page, e, err, Others(r))
          /\ query_loading' = FALSE /\ UNCHANGED <<page, search, patient>>
      BY <1>2 DEF AddressAnswered
    <2>2. /\ IsABag(Others(r)) /\ BagToSet(Others(r)) \subseteq InFlight
          /\ \A q \in BagToSet(Others(r)) :
               q \in [field : Fields \union {"search", "inputs"}, id : Id \union {NoId}]
      BY Removed DEF ExplorerInv, TypeInv
    <2>3. /\ e \in [Fields -> Id \union {NoId, Garbage}] /\ e["addr"] = Body(r)
          /\ e["blk"] = entity["blk"] /\ e["payload"] = entity["payload"]
          /\ e["blk"] \in {NoId, e["payload"]}
      <3>1. entity \in [Fields -> Id \union {NoId, Garbage}] /\ "addr" \in Fields
        BY FieldFacts DEF ExplorerInv, TypeInv
      <3>2. entity["blk"] \in {NoId, entity["payload"]}
        BY DEF ExplorerInv, TypeInv
      <3>3. /\ e \in [Fields -> Id \union {NoId, Garbage}] /\ e["addr"] = Body(r)
            /\ \A f \in Fields : f # "addr" => e[f] = entity[f]
        BY <3>1, BodyIsShown
      <3> HIDE DEF e
      <3> QED
        BY <3>2, <3>3, FieldFacts
    <2>4. err \in BOOLEAN /\ ~err
      OBVIOUS
    <2> HIDE DEF e, err
    <2>5. /\ TypeInv /\ page' = page /\ page \in [kind : PlainPages \union Lasting
                                                    \union {"block", "tips"}, id : Id \union {NoId}]
          /\ page.kind \in PlainPages \union {"block", "address"} => page.id \in Id
          /\ search' \in Id \union {NoId} /\ query_loading' \in BOOLEAN /\ patient' \in BOOLEAN
      BY <2>1 DEF ExplorerInv, TypeInv
    <2>6. /\ TypeInv' /\ BagToSet(Others(r)) \subseteq InFlight'
          /\ page.kind # "block" => /\ InFlight' = BagToSet(Others(r)) /\ nested' = NoId
                                    /\ entity' = e /\ query_err' = FALSE
      <3>1. page.kind # "block" => nested = NoId /\ ~Mounts(page, e, err)
        BY DEF ExplorerInv, TypeInv, Mounts
      <3>2. Renderable(page, e, err, Others(r))
        BY <2>2, <2>3, <2>4, <2>5 DEF Renderable
      <3>3. TypeInv' /\ Rendering(page, e, err, Others(r))
        BY <2>1, <2>5, <3>2, Rendered
      <3> QED
        BY <2>4, <3>1, <3>3 DEF Rendering
    <2>7. ASSUME patient PROVE PageInv'
      <3>1. PageInv /\ page.kind = "address" /\ r.id = page.id /\ Body(r) \in {page.id, Garbage}
        BY <2>1, <2>7, PageOfRequest, BodyIsShown DEF ExplorerInv
      <3>2. page.kind \notin PlainPages
        BY <3>1 DEF PlainPages
      <3>3. \A q \in InFlight' : q.field = "search" \/ OfPage(q)'
        BY <2>1, <2>2, <2>6, <2>7, <3>1, RemovedKeepsPending
      <3>4. \A f \in Filled(page.kind) : entity'[f] \in {page.id, Garbage}
        BY <2>3, <2>6, <3>1 DEF Filled
      <3>5. \A f \in PlainFields : entity'[f] = entity[f]
        <4>1. "addr" \notin PlainFields /\ PlainFields \subseteq Fields
              /\ entity \in [Fields -> Id \union {NoId, Garbage}]
          BY FieldFacts DEF PlainFields, NotReset, ExplorerInv, TypeInv
        <4> QED
          BY <2>6, <3>1, <4>1 DEF e
      <3>6. NestedInv'
        BY <2>1, <2>3, <2>6, <3>1 DEF NestedInv, PageInv
      <3> QED
        BY <2>1, <2>6, <3>1, <3>2, <3>3, <3>4, <3>5, <3>6 DEF PageInv
    <2> QED
      BY <2>1, <2>6, <2>7 DEF ExplorerInv, LoadingHasARequest
  <1> QED
    BY <1>1, <1>2

(* getTransaction goes on with the inputs of the transaction.              *)
LEMMA InputsStep ==
  ASSUME ExplorerInv, NEW r \in InFlight, r.field = "tx",
         requests' = Others(r) (+) SetToBag({Request("inputs", r.id)}),
         UNCHANGED <<page, entity, nested, query_loading, query_err, search, patient, blanked>>
  PROVE  ExplorerInv'
  <1> DEFINE q == Request("inputs", r.id)
  <1>1. /\ IsABag(requests') /\ q \in InFlight' /\ InFlight' \subseteq InFlight \union {q}
        /\ InFlight \ {r} \subseteq InFlight'
    BY Removed, Added DEF ExplorerInv, TypeInv, InFlight
  <1>2. q.field = "inputs" /\ q.id = r.id /\ r.id \in Id \union {NoId}
        /\ q \in [field : Fields \union {"search", "inputs"}, id : Id \union {NoId}]
    BY DEF Request, ExplorerInv, TypeInv
  <1> HIDE DEF q
  <1>3. TypeInv'
    BY <1>1, <1>2 DEF ExplorerInv, TypeInv, Mounts
  <1>4. LoadingHasARequest'
    BY <1>1 DEF ExplorerInv, LoadingHasARequest, InFlight
  <1>5. ASSUME patient PROVE PageInv'
    <2>1. PageInv /\ r.id = page.id /\ page.kind = "transaction"
      <3>1. PageInv /\ OfPage(r) /\ page.kind \in PlainPages \union {"block", "address", "tips"}
        BY <1>5, PageOfRequest DEF ExplorerInv, PageInv
      <3> QED
        BY <3>1, PageFields DEF OfPage, PlainPages
    <2>2. OfPage(q)' /\ \A s : OfPage(s)' <=> OfPage(s)
      BY <1>2, <2>1 DEF OfPage
    <2>3. Pending(page.kind)'
      BY <1>1, <1>2, <2>1 DEF Pending
    <2> QED
      BY <1>1, <2>1, <2>2, <2>3 DEF PageInv, NestedInv, Lasting
  <1> QED
    BY <1>3, <1>4, <1>5 DEF ExplorerInv


LEMMA TransactionStep ==
  ASSUME ExplorerInv, NEW r \in InFlight, NEW outcome, TransactionAnswered(r, outcome)
  PROVE  ExplorerInv'
  <1>1. CASE r.field = "tx"
    <2>1. CASE outcome # "ok"
      BY <1>1, <2>1, ErrorStep DEF TransactionAnswered
    <2>2. CASE outcome = "ok"
      BY <1>1, <2>2, InputsStep DEF TransactionAnswered
    <2> QED
      BY <2>1, <2>2
  <1>2. CASE r.field = "inputs"
    <2>1. Update("tx", r.id) /\ requests' = Others(r)
      BY <1>2 DEF TransactionAnswered
    <2> QED
      BY <1>2, <2>1, UpdateStep, FieldFacts, PageFields
  <1>3. CASE r.field \notin {"tx", "inputs"}
    <2>1. /\ r.field \in {"txMetadata", "txAttachments"}
          /\ IF outcome \in {"notFound", "failed"} THEN QueryError(Others(r))
             ELSE Update(r.field, Body(r)) /\ requests' = Others(r)
      BY <1>3 DEF TransactionAnswered
    <2>2. r.field \in Fields /\ r.field \notin {"search", "blk", "addr", "payload"}
      BY <2>1, FieldFacts, PageFields DEF PlainPages
    <2>3. CASE outcome \in {"notFound", "failed"}
      BY <2>1, <2>3, ErrorStep
    <2>4. CASE outcome \notin {"notFound", "failed"}
      BY <2>1, <2>2, <2>4, BodyIsShown, UpdateStep
    <2> QED
      BY <2>3, <2>4
  <1> QED
    BY <1>1, <1>2, <1>3

LEMMA OutputStep ==
  ASSUME ExplorerInv, NEW r \in InFlight, NEW outcome, OutputAnswered(r, outcome)
  PROVE  ExplorerInv'
  <1>1. /\ r.field \in Queries("output")
        /\ IF outcome = "ok" THEN Update(r.field, r.id) /\ requests' = Others(r)
           ELSE IF r.field = "output" THEN QueryError(Others(r)) ELSE Ignored(r)
    BY DEF OutputAnswered
  <1>2. /\ r.field \in Fields
        /\ r.field \notin {"search", "inputs", "blk", "payload", "addr", "txMetadata"}
    BY <1>1, FieldFacts, PageFields DEF PlainPages
  <1>3. CASE outcome = "ok"
    BY <1>1, <1>2, <1>3, UpdateStep
  <1>4. CASE outcome # "ok" /\ r.field = "output"
    BY <1>1, <1>4, ErrorStep
  <1>5. CASE outcome # "ok" /\ r.field # "output"
    <2>1. \A kind \in PlainPages : r.field # Main(kind)
      BY <1>1, <1>5, PageFields DEF PlainPages
    <2> QED
      BY <1>1, <1>2, <1>5, <2>1, IgnoredStep
  <1> QED
    BY <1>3, <1>4, <1>5

LEMMA ConflictStep ==
  ASSUME ExplorerInv, NEW r \in InFlight, NEW outcome, ConflictAnswered(r, outcome)
  PROVE  ExplorerInv'
  <1>1. /\ r.field \in Queries("conflict")
        /\ IF outcome = "ok" THEN Update(r.field, r.id) /\ requests' = Others(r)
           ELSE IF r.field = "conflict" THEN QueryError(Others(r))
           ELSE IF outcome = "badRequest" THEN Update(r.field, Garbage) /\ requests' = Others(r)
           ELSE Ignored(r)
    BY DEF ConflictAnswered
  <1>2. /\ r.field \in Fields
        /\ r.field \notin {"search", "inputs", "blk", "payload", "addr", "txMetadata"}
    BY <1>1, FieldFacts, PageFields DEF PlainPages
  <1>3. CASE outcome = "ok"
    BY <1>1, <1>2, <1>3, UpdateStep
  <1>4. CASE outcome # "ok" /\ r.field = "conflict"
    BY <1>1, <1>4, ErrorStep
  <1>5. CASE outcome = "badRequest" /\ r.field # "conflict"
    BY <1>1, <1>2, <1>5, UpdateStep
  <1>6. CASE outcome \notin {"ok", "badRequest"} /\ r.field # "conflict"
    <2>1. \A kind \in PlainPages : r.field # Main(kind)
      BY <1>1, <1>6, PageFields DEF PlainPages
    <2> QED
      BY <1>1, <1>2, <1>6, <2>1, IgnoredStep
  <1> QED
    BY <1>3, <1>4, <1>5, <1>6

LEMMA TipsStep ==
  ASSUME ExplorerInv, NEW r \in InFlight, NEW outcome, TipsAnswered(r, outcome)
  PROVE  ExplorerInv'
  <1>1. /\ r.field = "tips"
        /\ IF outcome \in {"notFound", "failed"} THEN Ignored(r)
           ELSE Update("tips", Body(r)) /\ requests' = Others(r)
    BY DEF TipsAnswered
  <1>2. r.field \in Fields /\ \A kind \in PlainPages : r.field # Main(kind)
    BY <1>1, FieldFacts, PageFields DEF PlainPages
  <1>3. CASE outcome \in {"notFound", "failed"}
    BY <1>1, <1>2, <1>3, IgnoredStep
  <1>4. CASE outcome \notin {"notFound", "failed"}
    BY <1>1, <1>2, <1>4, BodyIsShown, UpdateStep
  <1> QED
    BY <1>3, <1>4

LEMMA SearchStep ==
  ASSUME ExplorerInv, NEW r \in InFlight, NEW result \in {"block", "address", "404", "failed"},
         SearchAnswered(r, result)
  PROVE  ExplorerInv'
  <1>1. CASE result = "failed" \/ r.id = NoId
    BY <1>1, ErrorStep DEF SearchAnswered
  <1>2. CASE result # "failed" /\ r.id # NoId
    <2>1. /\ r.field = "search" /\ search' = NoId
          /\ Show(IF search = NoId THEN [kind |-> "explorer", id |-> NoId]
                                   ELSE [kind |-> result, id |-> search], Others(r))
      BY <1>2 DEF SearchAnswered
    <2>2. result \in {"block", "address", "404"}
      BY <1>2
    <2> QED
      BY <2>1, <2>2, ShowSearchResult
  <1> QED
    BY <1>1, <1>2

(* The search bar.                                                         *)
LEMMA SearchBarStep ==
  ASSUME ExplorerInv,
         (\E text \in Id \union {NoId} : UpdateSearch(text)) \/ SearchAny \/ UNCHANGED explorerVars
  PROVE  ExplorerInv'
  <1>1. /\ UNCHANGED <<page, entity, nested, query_loading, query_err, patient, blanked>>
        /\ search' \in Id \union {NoId}
        /\ IsABag(requests') /\ InFlight \subseteq InFlight'
        /\ \A q \in InFlight' \ InFlight : q = Request("search", search)
    <2>1. CASE (\E text \in Id \union {NoId} : UpdateSearch(text)) \/ UNCHANGED explorerVars
      BY <2>1 DEF UpdateSearch, explorerVars, ExplorerInv, TypeInv, InFlight
    <2>2. CASE SearchAny
      <3>1. /\ requests' = requests (+) SetToBag({Request("search", search)})
            /\ UNCHANGED <<page, entity, nested, query_loading, query_err, search, patient,
                           blanked>>
        BY <2>2 DEF SearchAny
      <3>2. IsABag(requests) /\ search \in Id \union {NoId}
        BY DEF ExplorerInv, TypeInv
      <3> QED
        BY <3>1, <3>2, Added DEF InFlight
    <2> QED
      BY <2>1, <2>2
  <1>2. /\ Request("search", search).field = "search"
        /\ Request("search", search) \in
             [field : Fields \union {"search", "inputs"}, id : Id \union {NoId}]
    BY DEF Request, ExplorerInv, TypeInv
  <1>3. TypeInv'
    BY <1>1, <1>2 DEF ExplorerInv, TypeInv, Mounts
  <1>4. LoadingHasARequest'
    BY <1>1 DEF ExplorerInv, LoadingHasARequest, InFlight
  <1>5. ASSUME patient PROVE PageInv'
    <2>1. \A kind : Pending(kind) => Pending(kind)'
      BY <1>1 DEF Pending
    <2>2. \A q : OfPage(q)' <=> OfPage(q)
      BY <1>1 DEF OfPage
    <2>3. MetadataAsked' <=> MetadataAsked
      BY <1>1, <1>2 DEF MetadataAsked
    <2>4. NestedInv' <=> NestedInv
      BY <1>1, <2>3 DEF NestedInv
    <2> QED
      BY <1>1, <1>2, <1>5, <2>1, <2>2, <2>4 DEF ExplorerInv, PageInv
  <1> QED
    BY <1>1, <1>3, <1>4, <1>5 DEF ExplorerInv

LEMMA ExplorerInductive == ExplorerInv /\ [ExplorerNext]_explorerVars => ExplorerInv'
  <1> SUFFICES ASSUME ExplorerInv, [ExplorerNext]_explorerVars PROVE ExplorerInv'
    OBVIOUS
  <1>1. ASSUME NEW p \in Pages, Visit(p) PROVE ExplorerInv'
    BY <1>1, VisitStep
  <1>2. ASSUME NEW r \in BagToSet(requests), Answered(r) PROVE ExplorerInv'
    <2>1. r \in InFlight
      BY DEF InFlight
    <2>2. ASSUME NEW result \in {"block", "address", "404", "failed"}, SearchAnswered(r, result)
          PROVE  ExplorerInv'
      BY <2>1, <2>2, SearchStep
    <2>3. ASSUME NEW outcome \in Outcomes(r.id),
                 \/ BlockAnswered(r, outcome) \/ AddressAnswered(r, outcome)
                 \/ TransactionAnswered(r, outcome) \/ OutputAnswered(r, outcome)
                 \/ ConflictAnswered(r, outcome) \/ TipsAnswered(r, outcome)
          PROVE  ExplorerInv'
      BY <2>1, <2>3, BlockStep, AddressStep, TransactionStep, OutputStep, ConflictStep, TipsStep
    <2> QED
      BY <1>2, <2>2, <2>3 DEF Answered
  <1>3. CASE (\E text \in Id \union {NoId} : UpdateSearch(text)) \/ SearchAny
               \/ UNCHANGED explorerVars
    BY <1>3, SearchBarStep
  <1> QED
    BY <1>1, <1>2, <1>3 DEF ExplorerNext

LEMMA Invariant == ExplorerSpec => []ExplorerInv
  BY InitExplorerInv, ExplorerInductive, PTL DEF ExplorerSpec

-----------------------------------------------------------------------------
(* The page a patient user sees is about the id in its route, whatever was *)
(* shown, searched and answered before: no field of another entity is left *)
(* over, and the page is not empty without saying why, but for a block     *)
(* page that its own component cleared.  The metadata in a block page are  *)
(* of the transaction that component was mounted with.                     *)
THEOREM PagesShowTheirEntity == ExplorerSpec => []PatientUserSeesHerPage
  <1>1. ExplorerInv => PatientUserSeesHerPage
    <2> SUFFICES ASSUME ExplorerInv, patient, requests = EmptyBag, page.kind \in Kinds
                 PROVE  /\ query_err \/ entity[Main(page.kind)] # NoId \/ blanked
                        /\ \A f \in Shown \ {"conflictVoters"} :
                             entity[f] \in {NoId, Garbage, IF page.kind = "block"
                                                             /\ f = "txMetadata"
                                                           THEN nested ELSE page.id}
      BY DEF PatientUserSeesHerPage
    <2>1. PageInv /\ ~Pending(page.kind) /\ ~MetadataAsked
      BY NothingInFlight DEF ExplorerInv, Pending, MetadataAsked, InFlight
    <2>2. CASE page.kind \in PlainPages
      <3>1. Shown \ {"conflictVoters"} \subseteq Queries(page.kind) \ NotReset
        BY <2>2, PageFields
        DEF Shown, PlainPages, TransactionPage, OutputPage, ConflictPage, NotReset
      <3>2. page.kind # "block"
        BY <2>2 DEF PlainPages
      <3> QED
        BY <2>1, <2>2, <3>1, <3>2 DEF PageInv
    <2>3. CASE page.kind \in {"block", "address"}
      <3>1. page.id \in Id /\ page.id # NoId /\ Garbage # NoId
        BY <2>3, ExplorerConstants DEF ExplorerInv, TypeInv
      <3>2. Main(page.kind) \in Filled(page.kind)
        BY <2>3, PageFields DEF Filled
      <3>3. query_err => Shown = {}
        BY <2>3 DEF Shown, BlockPage, AddressPage
      <3>4. /\ Shown \ {"txMetadata"} \subseteq Filled(page.kind)
            /\ "txMetadata" \in Shown => page.kind = "block" /\ nested # NoId
            /\ page.kind = "block" /\ entity["blk"] = NoId => Shown = {}
        BY <2>3 DEF Shown, BlockPage, AddressPage, Filled
      <3>5. /\ query_err \/ entity[Main(page.kind)] # NoId \/ blanked
            /\ \A f \in Shown \ {"txMetadata"} : entity[f] \in {page.id, Garbage}
        BY <2>1, <2>3, <3>1, <3>2, <3>3, <3>4 DEF PageInv
      <3>6. "txMetadata" \in Shown => entity["txMetadata"] \in {nested, NoId, Garbage}
        BY <2>1, <3>4 DEF PageInv, NestedInv
      <3> QED
        BY <3>4, <3>5, <3>6
    <2> QED
      BY <2>2, <2>3, ExplorerConstants DEF PlainPages
  <1> QED
    BY <1>1, Invariant, PTL

(* The spinner of the pages of blocks and addresses is shown for as long   *)
(* as one of their requests is in flight at most: every answer to them     *)
(* ends the loading, errors included.                                      *)
THEOREM LoadingEnds == ExplorerSpec => []LoadingHasARequest
  <1>1. ExplorerInv => LoadingHasARequest
    BY DEF ExplorerInv
  <1> QED
    BY <1>1, Invariant, PTL

-----------------------------------------------------------------------------
(* The metrics of the neighbors.                                           *)
(* The elements counted from the end: the newest is the first.             *)
Newest(s, i) == s[Len(s) + 1 - i]

(* r is s with x added at its end.                                         *)
Longer(r, s, x) ==
  /\ Len(s) \in Nat /\ Len(r) = Len(s) + 1 /\ Newest(r, 1) = x
  /\ \A i \in 1..Len(s) : Newest(r, i + 1) = Newest(s, i)

(* One traffic for each two consecutive metrics, the newest first.         *)
Matched(c, io) ==
  /\ Len(io) >= Len(c) - 1 /\ Len(io) <= MaxMetricsDataPoints + 1
  /\ \A i \in 1..(Len(c) - 1) : Newest(io, i) = Newest(c, i) - Newest(c, i + 1)

(* Whatever the messages carry, metrics and traffics are sequences.        *)
Kept(metrics) ==
  /\ \E S : metrics.collected \in Seq(S)
  /\ \E S : metrics.network_io \in Seq(S)
  /\ Len(metrics.collected) <= MaxMetricsDataPoints
  /\ Matched(metrics.collected, metrics.network_io)

MetricsInv == \A k \in DOMAIN neighbor_metrics : Kept(neighbor_metrics[k])

-----------------------------------------------------------------------------
LEMMA Limits == MaxMetricsDataPoints \in Nat
  BY NodeFeedsConstants

(* What Append and Tail do, seen from the end.                             *)
LEMMA AppendNewest ==
  ASSUME NEW S, NEW s \in Seq(S), NEW x
  PROVE  Append(s, x) \in Seq(S \union {x}) /\ Longer(Append(s, x), s, x)
  <1>1. s \in Seq(S \union {x}) /\ Len(s) \in Nat
    <2>1. Len(s) \in Nat /\ s \in [1..Len(s) -> S]
      BY LenProperties
    <2>2. s \in [1..Len(s) -> S \union {x}]
      BY <2>1
    <2> QED
      BY <2>1, <2>2, SeqDef
  <1>2. /\ Append(s, x) \in Seq(S \union {x}) /\ Len(Append(s, x)) = Len(s) + 1
        /\ \A i \in 1..Len(s) : Append(s, x)[i] = s[i]
        /\ Append(s, x)[Len(s) + 1] = x
    BY <1>1, AppendProperties
  <1> DEFINE n == Len(s)
  <1>3. \A i \in 1..n : n + 1 - i \in 1..n /\ (n + 1) + 1 - (i + 1) = n + 1 - i
    BY <1>1
  <1>4. (n + 1) + 1 - 1 = n + 1
    BY <1>1
  <1> QED
    BY <1>1, <1>2, <1>3, <1>4 DEF Newest, Longer

LEMMA TailNewest ==
  ASSUME NEW S, NEW s \in Seq(S), s # <<>>
  PROVE  /\ Tail(s) \in Seq(S) /\ Len(Tail(s)) = Len(s) - 1 /\ Len(s) \in Nat \ {0}
         /\ \A i \in 1..(Len(s) - 1) : Newest(Tail(s), i) = Newest(s, i)
  <1>1. /\ Len(s) \in Nat /\ Len(s) # 0
    BY LenProperties, EmptySeq
  <1>2. /\ Tail(s) \in Seq(S) /\ Len(Tail(s)) = Len(s) - 1
        /\ \A i \in 1..Len(Tail(s)) : Tail(s)[i] = s[i + 1]
    BY HeadTailProperties
  <1> DEFINE n == Len(s)
  <1>3. \A i \in 1..(n - 1) :
          (n - 1) + 1 - i \in 1..(n - 1) /\ ((n - 1) + 1 - i) + 1 = n + 1 - i
    BY <1>1
  <1> QED
    BY <1>1, <1>2, <1>3 DEF Newest

(* A series with its oldest element shifted out when it is longer than the *)
(* limit, before or after something is added.                              *)
LEMMA CollectNewest ==
  ASSUME NEW S, NEW s \in Seq(S), NEW x, Len(s) <= MaxMetricsDataPoints + 1
  PROVE  /\ \E T : Collect(s, x) \in Seq(T)
         /\ Len(Collect(s, x)) = IF Len(s) > MaxMetricsDataPoints THEN Len(s) ELSE Len(s) + 1
         /\ Newest(Collect(s, x), 1) = x
         /\ \A i \in 1..(Len(Collect(s, x)) - 1) : Newest(Collect(s, x), i + 1) = Newest(s, i)
  <1> DEFINE t == IF Len(s) > MaxMetricsDataPoints THEN Tail(s) ELSE s
  <1>1. Collect(s, x) = Append(t, x)
    BY DEF Collect
  <1>2. /\ t \in Seq(S)
        /\ Len(t) + 1 = IF Len(s) > MaxMetricsDataPoints THEN Len(s) ELSE Len(s) + 1
        /\ \A i \in 1..Len(t) : Newest(t, i) = Newest(s, i)
    <2>1. CASE Len(s) > MaxMetricsDataPoints
      <3>1. s # <<>> /\ Len(s) \in Nat
        BY <2>1, Limits, LenProperties, EmptySeq
      <3>2. /\ Tail(s) \in Seq(S) /\ Len(Tail(s)) = Len(s) - 1
            /\ \A i \in 1..(Len(s) - 1) : Newest(Tail(s), i) = Newest(s, i)
        BY <3>1, TailNewest
      <3> QED
        BY <2>1, <3>1, <3>2
    <2>2. CASE ~(Len(s) > MaxMetricsDataPoints)
      BY <2>2
    <2> QED
      BY <2>1, <2>2
  <1> HIDE DEF t
  <1>3. Append(t, x) \in Seq(S \union {x}) /\ Longer(Append(t, x), t, x)
    BY <1>2, AppendNewest
  <1>4. Len(Append(t, x)) - 1 = Len(t) /\ Newest(Append(t, x), 1) = x
    BY <1>3 DEF Longer
  <1>5. Len(Append(t, x)) = IF Len(s) > MaxMetricsDataPoints THEN Len(s) ELSE Len(s) + 1
    BY <1>2, <1>3 DEF Longer
  <1>6. \A i \in 1..(Len(Append(t, x)) - 1) : Newest(Append(t, x), i + 1) = Newest(s, i)
    BY <1>2, <1>3, <1>4, Zenon DEF Longer
  <1> QED
    BY <1>1, <1>3, <1>4, <1>5, <1>6, Zenon

LEMMA AddMetricKeeps ==
  ASSUME NEW metrics, Kept(metrics), NEW value
  PROVE  Kept(AddMetric(metrics, value))
  <1> DEFINE c == metrics.collected
             io == metrics.network_io
             all == Append(c, value)
             collected == IF Len(all) > MaxMetricsDataPoints THEN Tail(all) ELSE all
             n == Len(collected)
             network_io == IF n < 2 THEN io ELSE Collect(io, collected[n] - collected[n - 1])
  <1>1. /\ AddMetric(metrics, value).collected = collected
        /\ AddMetric(metrics, value).network_io = network_io
    BY DEF AddMetric
  <1>2. PICK S : c \in Seq(S)
    BY DEF Kept
  <1>3. PICK T : io \in Seq(T)
    BY DEF Kept
  <1>4. /\ Len(c) \in Nat /\ Len(io) \in Nat /\ MaxMetricsDataPoints \in Nat
        /\ Len(c) <= MaxMetricsDataPoints /\ Len(io) >= Len(c) - 1
        /\ Len(io) <= MaxMetricsDataPoints + 1
        /\ \A i \in 1..(Len(c) - 1) : Newest(io, i) = Newest(c, i) - Newest(c, i + 1)
    BY <1>2, <1>3, Limits, LenProperties DEF Kept, Matched
  <1> HIDE DEF c, io
  <1>0. all \in Seq(S \union {value}) /\ Longer(all, c, value)
    BY <1>2, AppendNewest
  <1>5. /\ all \in Seq(S \union {value}) /\ Len(all) = Len(c) + 1
        /\ Newest(all, 1) = value /\ \A i \in 1..Len(c) : Newest(all, i + 1) = Newest(c, i)
    BY <1>0 DEF Longer
  <1> HIDE DEF all
  <1>6. /\ \E U : collected \in Seq(U)
        /\ n \in Nat /\ n <= MaxMetricsDataPoints
        /\ n = Len(c) + 1 \/ n = Len(c)
        /\ \A i \in 1..n : Newest(collected, i) = Newest(all, i)
    <2>1. CASE Len(all) > MaxMetricsDataPoints
      <3>1. all # <<>> /\ collected = Tail(all)
        BY <1>4, <1>5, <2>1, EmptySeq
      <3>2. /\ Tail(all) \in Seq(S \union {value}) /\ Len(Tail(all)) = Len(all) - 1
            /\ \A i \in 1..(Len(all) - 1) : Newest(Tail(all), i) = Newest(all, i)
        BY <1>5, <3>1, TailNewest
      <3> QED
        BY <1>4, <1>5, <3>1, <3>2
    <2>2. CASE ~(Len(all) > MaxMetricsDataPoints)
      BY <1>4, <1>5, <2>2
    <2> QED
      BY <2>1, <2>2
  <1>7. n >= 2 => /\ collected[n] = Newest(collected, 1)
                  /\ collected[n - 1] = Newest(collected, 2)
    <2>1. n + 1 - 1 = n /\ n + 1 - 2 = n - 1
      BY <1>6
    <2> QED
      BY <2>1 DEF Newest
  <1> HIDE DEF collected, n
  <1>8. CASE n < 2
    <2>1. /\ network_io = io /\ Len(io) >= n - 1 /\ 1..(n - 1) = {}
      BY <1>4, <1>6, <1>8
    <2> QED
      BY <1>1, <1>3, <1>4, <1>6, <2>1 DEF Kept, Matched, n
  <1>9. CASE ~(n < 2)
    <2> DEFINE traffic == collected[n] - collected[n - 1]
    <2>1. network_io = Collect(io, traffic)
      BY <1>9
    <2> HIDE DEF network_io
    <2>2. traffic = Newest(collected, 1) - Newest(collected, 2)
      BY <1>6, <1>7, <1>9
    <2> HIDE DEF traffic
    <2>3. /\ \E U : network_io \in Seq(U)
          /\ Len(network_io) = IF Len(io) > MaxMetricsDataPoints THEN Len(io) ELSE Len(io) + 1
          /\ Newest(network_io, 1) = traffic
          /\ \A i \in 1..(Len(network_io) - 1) : Newest(network_io, i + 1) = Newest(io, i)
      BY <1>3, <1>4, <2>1, CollectNewest
    <2>4. Len(network_io) >= n - 1 /\ Len(network_io) <= MaxMetricsDataPoints + 1
      BY <1>4, <1>6, <2>3
    <2>5. ASSUME NEW i \in 1..(n - 1)
          PROVE  Newest(network_io, i) = Newest(collected, i) - Newest(collected, i + 1)
      <3>1. CASE i = 1
        BY <2>2, <2>3, <3>1
      <3>2. CASE i # 1
        <4> DEFINE j == i - 1
        <4>1. /\ j \in 1..(Len(network_io) - 1) /\ j \in 1..(Len(c) - 1)
              /\ j \in 1..Len(c) /\ j + 1 \in 1..Len(c)
              /\ i \in 1..n /\ i + 1 \in 1..n /\ i = j + 1 /\ i + 1 = (j + 1) + 1
          BY <1>4, <1>6, <2>3, <2>4, <3>2
        <4> HIDE DEF j
        <4>2. Newest(network_io, i) = Newest(io, j)
          BY <2>3, <4>1
        <4>3. Newest(collected, i) = Newest(c, j) /\ Newest(collected, i + 1) = Newest(c, j + 1)
          BY <1>5, <1>6, <4>1
        <4> QED
          BY <1>4, <4>1, <4>2, <4>3
      <3> QED
        BY <3>1, <3>2
    <2> QED
      BY <1>1, <1>6, <2>3, <2>4, <2>5 DEF Kept, Matched, n
  <1> QED
    BY <1>8, <1>9

(* A neighbor that was not there before.                                   *)
LEMMA NewNeighbor == Kept([collected |-> <<>>, network_io |-> <<>>])
  <1>1. <<>> \in Seq({}) /\ Len(<<>>) = 0
    BY EmptySeq
  <1>2. 1..(0 - 1) = {}
    OBVIOUS
  <1> QED
    BY <1>1, <1>2, Limits DEF Kept, Matched

-----------------------------------------------------------------------------
LEMMA MetricsInductive == MetricsInv /\ [FeedsNext]_feedsVars => MetricsInv'
  <1> SUFFICES ASSUME MetricsInv, [FeedsNext]_feedsVars PROVE MetricsInv'
    OBVIOUS
  <1>1. CASE OnMessage
    <2>1. PICK type, data : HandleMessage(type, data)
      BY <1>1 DEF OnMessage
    <2>2. CASE UpdateNeighborMetrics(data) /\ data.ids # {}
      <3> SUFFICES ASSUME NEW k \in DOMAIN neighbor_metrics' PROVE Kept(neighbor_metrics'[k])
        BY DEF MetricsInv, Kept, Matched, Newest
      <3> DEFINE old == IF k \in DOMAIN neighbor_metrics THEN neighbor_metrics[k]
                        ELSE [collected |-> <<>>, network_io |-> <<>>]
      <3>1. neighbor_metrics'[k] = AddMetric(old, data.value)
        BY <2>2 DEF UpdateNeighborMetrics
      <3>2. Kept(old)
        BY NewNeighbor DEF MetricsInv
      <3> HIDE DEF old
      <3> QED
        BY <3>1, <3>2, AddMetricKeeps
    <2>3. CASE UNCHANGED neighbor_metrics
      BY <2>3 DEF MetricsInv, Kept, Matched, Newest
    <2>4. UpdateNeighborMetrics(data) \/ UNCHANGED neighbor_metrics
      BY <2>1 DEF HandleMessage, UpdateMetric, UpdateConflictSets, UpdateConflicts,
                  AddLiveFeedBlock, AddLiveFeed, browserVars
    <2>5. UpdateNeighborMetrics(data) /\ data.ids = {} => UNCHANGED neighbor_metrics
      BY DEF UpdateNeighborMetrics
    <2> QED
      BY <2>2, <2>3, <2>4, <2>5
  <1>2. CASE ~OnMessage
    <2>1. UNCHANGED neighbor_metrics
      BY <1>2 DEF FeedsNext, feedsVars, browserVars, OnConflictCreated, OnConflictAccepted,
                  OnConflictRejected, UnchangedBesidesConflicts, NotifyNewBlk,
                  NotifyNewBlocks, MetricUpdated, Worker, OnOpen, OnClose, Reconnect,
                  ToggleBackgroundDataCollection
    <2> QED
      BY <2>1 DEF MetricsInv, Kept, Matched, Newest
  <1> QED
    BY <1>1, <1>2

(* The traffic of a neighbor stays aligned with the metrics it is computed *)
(* of, for every limit of the series, every sequence of messages, and      *)
(* neighbors that go and come back; the series of the traffic never grows  *)
(* beyond its limit by more than one.                                      *)
THEOREM TrafficIsAligned == FeedsSpec => []TrafficMatchesMetrics
  <1>1. FeedsInit => MetricsInv
    <2>1. DOMAIN <<>> = {}
      OBVIOUS
    <2> QED
      BY <2>1 DEF FeedsInit, MetricsInv
  <1>2. MetricsInv => TrafficMatchesMetrics
    <2> SUFFICES ASSUME MetricsInv, NEW k \in DOMAIN neighbor_metrics
                 PROVE  LET c == neighbor_metrics[k].collected
                            io == neighbor_metrics[k].network_io
                        IN  /\ Len(io) >= Len(c) - 1 /\ Len(io) <= MaxMetricsDataPoints + 1
                            /\ \A i \in 1..(Len(c) - 1) :
                                 io[Len(io) + 1 - i] = c[Len(c) + 1 - i] - c[Len(c) - i]
      BY DEF TrafficMatchesMetrics
    <2> DEFINE c == neighbor_metrics[k].collected
               io == neighbor_metrics[k].network_io
    <2>1. Matched(c, io) /\ \E S : c \in Seq(S)
      BY DEF MetricsInv, Kept
    <2>2. Len(c) \in Nat
      BY <2>1, LenProperties
    <2> HIDE DEF c, io
    <2>3. \A i \in 1..(Len(c) - 1) : Len(c) + 1 - (i + 1) = Len(c) - i
      BY <2>2
    <2>4. /\ Len(io) >= Len(c) - 1 /\ Len(io) <= MaxMetricsDataPoints + 1
          /\ \A i \in 1..(Len(c) - 1) : io[Len(io) + 1 - i] = c[Len(c) + 1 - i] - c[Len(c) - i]
      BY <2>1, <2>3 DEF Matched, Newest
    <2> QED
      BY <2>4 DEF c, io
  <1> QED
    BY <1>1, <1>2, MetricsInductive, PTL DEF FeedsSpec
================================================================================
