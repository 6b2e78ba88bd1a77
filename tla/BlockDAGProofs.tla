--------------------------- MODULE BlockDAGProofs ---------------------------
(***************************************************************************)
(* Theorems about the BlockDAG, for any tangle, any order of arrival and   *)
(* any evictions: blocks become solid after their parents, none waits for  *)
(* parents that are solid, none stays behind in an evicted epoch, and      *)
(* invalidity reaches the future cone.                                     *)
(*                                                                         *)
(* The argument.  The BlockDAG drives its CausalOrder as one of the users  *)
(* that CausalOrderProofs allows for: it queues a block once, and it may   *)
(* refuse any block at any time.  So the invariant of the CausalOrder is   *)
(* one of the BlockDAG.  A block that is being attached, or was, is of an  *)
(* epoch that is not evicted, or of the one whose eviction still waits for *)
(* the evictionMutex.                                                      *)
(* A parent with which a block is registered knows it until it is solid or *)
(* evicted, so the walk of SetInvalid finds the block; a block that        *)
(* registers after the walk has passed is yet to be checked by the         *)
(* solidifier, which refuses it.  And what is marked does not become       *)
(* solid, because its verdict is final, or it has never been queued, or    *)
(* has a parent that does not become solid either.                         *)
(***************************************************************************)
EXTENDS BlockDAG, TLAPS

CausalOrder == INSTANCE CausalOrderProofs WITH
  Entity <- BlockID, Roots <- Genesis, Failing <- NotMonotonic, QueueLimit <- 1,
  ordered <- solid, rejected <- invalid, known <- Known

-----------------------------------------------------------------------------
(* The memStorage, Attach and the eviction state.                          *)
MemoryOK ==
  /\ stored \subseteq BlockID /\ missing \subseteq BlockID /\ stored \intersect missing = {}
  /\ children \in [BlockID -> SUBSET BlockID]
  /\ attaching \in [BlockID -> [at : {"idle", "store", "children", "queue"}, next : Nat]]
  /\ invalidating \subseteq invalid
  /\ rootBlocks \subseteq BlockID /\ lastEvictedEpoch \in 0..LastIndex
  /\ evictionStep \in {"idle", "solidifier", "storage"}

(* The eviction reaches the solidifier first, then the memStorage.         *)
EvictionInv ==
  IF evictionStep = "solidifier" THEN lastEvictedEpoch = lastEvictedIndex + 1
  ELSE lastEvictedIndex = lastEvictedEpoch

Evicted(b) ==
  Index[b] < lastEvictedEpoch \/ (evictionStep = "idle" /\ Index[b] = lastEvictedEpoch)

AttachInv ==
  \A b \in BlockID :
    /\ b \in stored \/ attaching[b].at \in {"store", "children"} => ~Evicted(b)
    /\ attaching[b].at \in {"store", "children"} => attaching[b].next # 0
    /\ b \in stored => attaching[b].at \in {"children", "queue"} \/ queued[b] # 0

IInv == CausalOrder!IInv /\ MemoryOK /\ EvictionInv /\ AttachInv

-----------------------------------------------------------------------------
LEMMA SameParents ==
  ASSUME NEW b
  PROVE  /\ CausalOrder!ParentIDs(b) = ToSet(Parents[b])
         /\ Solidifier!ParentIDs(b) = ToSet(Parents[b])
  BY DEF CausalOrder!ParentIDs, Solidifier!ParentIDs, CausalOrder!ToSet, Solidifier!ToSet, ToSet

(* What the CausalOrder assumes of its constants holds of the tangle.      *)
LEMMA CausalOrderAssumptions ==
  /\ Parents \in [BlockID -> Seq(BlockID)]
  /\ \A b \in BlockID : b \notin CausalOrder!ParentIDs(b) /\ Len(Parents[b]) < 256
  /\ Index \in [BlockID -> Nat]
  /\ Genesis \subseteq BlockID /\ NotMonotonic \subseteq BlockID
  /\ 1 \in Nat /\ LastIndex \in Nat
  <1>1. 1 \in Nat
    OBVIOUS
  <1> QED
    BY <1>1, BlockDAGConstants, SameParents, Zenon

(* The theorems about the CausalOrder speak of the solidifier.             *)
LEMMA SameSteps ==
  ASSUME NEW b \in BlockID
  PROVE  /\ Solidifier!Queue(b) => CausalOrder!Queue(b)
         /\ Solidifier!CheckParent(b) => CausalOrder!CheckParent(b)
         /\ Solidifier!RegisterUnorderedChild(b) => CausalOrder!RegisterUnorderedChild(b)
         /\ Solidifier!SetUnorderedParentsCounter(b) => CausalOrder!SetUnorderedParentsCounter(b)
         /\ Solidifier!AllParentsOrdered(b) => CausalOrder!AllParentsOrdered(b)
         /\ Solidifier!TriggerOrderedCallback(b) => CausalOrder!TriggerOrderedCallback(b)
         /\ Solidifier!PropagateOrderToChildren(b) => CausalOrder!PropagateOrderToChildren(b)
         /\ Solidifier!TriggerChildIfReady(b) => CausalOrder!TriggerChildIfReady(b)
         /\ Solidifier!EvictionCallback(b) => CausalOrder!EvictionCallback(b)
  <1> USE DEF Solidifier!Running, CausalOrder!Running, Solidifier!Release, CausalOrder!Release,
          Solidifier!NotRunning, CausalOrder!NotRunning, Solidifier!storage, CausalOrder!storage,
          Solidifier!eviction, CausalOrder!eviction, Solidifier!WriteLocked,
          CausalOrder!WriteLocked, Solidifier!CheckedAll, CausalOrder!CheckedAll
  <1>0. Solidifier!ReadLocked(b) <=> CausalOrder!ReadLocked(b)
    BY SameParents DEF Solidifier!ReadLocked, CausalOrder!ReadLocked
  <1>1. Solidifier!Queue(b) => CausalOrder!Queue(b)
    <2>1. Solidifier!LocksFree(b) => CausalOrder!LocksFree(b)
      BY <1>0, SameParents DEF Solidifier!LocksFree, CausalOrder!LocksFree
    <2> QED
      BY <2>1
      DEF Solidifier!Queue, CausalOrder!Queue, Solidifier!TooOld, CausalOrder!TooOld
  <1>2. Solidifier!CheckParent(b) => CausalOrder!CheckParent(b)
    BY DEF Solidifier!CheckParent, CausalOrder!CheckParent
  <1>3. Solidifier!RegisterUnorderedChild(b) => CausalOrder!RegisterUnorderedChild(b)
    BY DEF Solidifier!RegisterUnorderedChild, CausalOrder!RegisterUnorderedChild
  <1>4. Solidifier!SetUnorderedParentsCounter(b) => CausalOrder!SetUnorderedParentsCounter(b)
    BY DEF Solidifier!SetUnorderedParentsCounter, CausalOrder!SetUnorderedParentsCounter
  <1>5. Solidifier!AllParentsOrdered(b) => CausalOrder!AllParentsOrdered(b)
    BY DEF Solidifier!AllParentsOrdered, CausalOrder!AllParentsOrdered
  <1>6. Solidifier!TriggerOrderedCallback(b) => CausalOrder!TriggerOrderedCallback(b)
    BY DEF Solidifier!TriggerOrderedCallback, CausalOrder!TriggerOrderedCallback
  <1>7. Solidifier!PropagateOrderToChildren(b) => CausalOrder!PropagateOrderToChildren(b)
    BY DEF Solidifier!PropagateOrderToChildren, CausalOrder!PropagateOrderToChildren
  <1>8. Solidifier!TriggerChildIfReady(b) => CausalOrder!TriggerChildIfReady(b)
    BY <1>0 DEF Solidifier!TriggerChildIfReady, CausalOrder!TriggerChildIfReady,
                Solidifier!Decreased, CausalOrder!Decreased
  <1>9. Solidifier!EvictionCallback(b) => CausalOrder!EvictionCallback(b)
    BY DEF Solidifier!EvictionCallback, CausalOrder!EvictionCallback
  <1> QED
    BY <1>1, <1>2, <1>3, <1>4, <1>5, <1>6, <1>7, <1>8, <1>9

LEMMA SameEviction ==
  ASSUME NEW index \in 1..LastIndex, Solidifier!EvictUntil(index)
  PROVE  CausalOrder!EvictUntil(index)
  BY DEF Solidifier!EvictUntil, CausalOrder!EvictUntil, Solidifier!WriteLocked,
         CausalOrder!WriteLocked, Solidifier!Running, CausalOrder!Running

-----------------------------------------------------------------------------
(* The steps of the BlockDAG are steps of the CausalOrder, or of a user    *)
(* that leaves it alone but for the entities it refuses.                   *)
LEMMA KnownAreBlocks ==
  ASSUME stored \subseteq BlockID, missing \subseteq BlockID
  PROVE  Known \subseteq BlockID
  BY DEF Known

(* Attach, the walk of SetInvalid and the eviction state are nothing but   *)
(* the environment of the solidifier.                                      *)
LEMMA EnvironmentOf ==
  ASSUME CausalOrder!IInv, UNCHANGED solidifier, invalid \subseteq invalid', invalid' \subseteq BlockID,
         Known' \subseteq BlockID, crashed' \in BOOLEAN
  PROVE  CausalOrder!IInv'
  <1>1. CausalOrder!Environment
    BY DEF CausalOrder!Environment, CausalOrder!storage, solidifier
  <1> QED
    BY <1>1, CausalOrder!EnvironmentStep, CausalOrderAssumptions

LEMMA CausalOrderFacts ==
  ASSUME CausalOrder!IInv
  PROVE  /\ solid \subseteq BlockID /\ invalid \subseteq BlockID /\ Genesis \subseteq solid
         /\ crashed \in BOOLEAN /\ lastEvictedIndex \in Nat
         /\ queued \in [BlockID -> 0..1]
  BY DEF CausalOrder!IInv, CausalOrder!TypeOK, CausalOrder!VerdictInv

(* The steps of the solidifier.                                            *)
LEMMA SolidifierStep ==
  ASSUME CausalOrder!IInv, ~crashed, CausalOrder!Next
  PROVE  CausalOrder!IInv'
  <1>1. CausalOrder!QueuedOnce
    BY DEF CausalOrder!QueuedOnce
  <1> QED
    BY <1>1, CausalOrder!Inductive, CausalOrderAssumptions

LEMMA SolidifierKeeps ==
  ASSUME CausalOrder!IInv, MemoryOK, NEW b \in BlockID, ~crashed,
         \/ CausalOrder!Queue(b) \/ CausalOrder!CheckParent(b)
         \/ CausalOrder!RegisterUnorderedChild(b) \/ CausalOrder!SetUnorderedParentsCounter(b)
         \/ CausalOrder!AllParentsOrdered(b) \/ CausalOrder!TriggerOrderedCallback(b)
         \/ CausalOrder!PropagateOrderToChildren(b) \/ CausalOrder!TriggerChildIfReady(b)
         \/ CausalOrder!EvictionCallback(b)
  PROVE  /\ CausalOrder!IInv' /\ invalid \subseteq invalid'
         /\ lastEvictedIndex' = lastEvictedIndex
         /\ \A x \in BlockID : queued[x] # 0 => queued'[x] # 0
         /\ CausalOrder!Queue(b) => queued'[b] # 0
  <1>1. CausalOrder!Next
    BY DEF CausalOrder!Next, CausalOrder!Proceed, CausalOrder!Evict
  <1>2. CausalOrder!IInv'
    BY <1>1, SolidifierStep
  <1>3. invalid \subseteq invalid' /\ lastEvictedIndex' = lastEvictedIndex
    BY DEF CausalOrder!Queue, CausalOrder!CheckParent, CausalOrder!RegisterUnorderedChild,
           CausalOrder!SetUnorderedParentsCounter, CausalOrder!AllParentsOrdered,
           CausalOrder!TriggerOrderedCallback, CausalOrder!PropagateOrderToChildren,
           CausalOrder!TriggerChildIfReady, CausalOrder!EvictionCallback, CausalOrder!eviction
  <1>4. CASE CausalOrder!Queue(b)
    <2>1. /\ queued \in [BlockID -> 0..1] /\ queued' = [queued EXCEPT ![b] = @ + 1]
      BY <1>4, CausalOrderFacts DEF CausalOrder!Queue
    <2> QED
      BY <1>2, <1>3, <2>1
  <1>5. CASE ~CausalOrder!Queue(b)
    <2>1. queued' = queued
      BY <1>5 DEF CausalOrder!CheckParent, CausalOrder!RegisterUnorderedChild,
           CausalOrder!SetUnorderedParentsCounter, CausalOrder!AllParentsOrdered,
           CausalOrder!TriggerOrderedCallback, CausalOrder!PropagateOrderToChildren,
           CausalOrder!TriggerChildIfReady, CausalOrder!EvictionCallback
    <2> QED
      BY <1>2, <1>3, <1>5, <2>1
  <1> QED
    BY <1>4, <1>5

(* A step that leaves the memStorage, Attach and the eviction state alone, *)
(* and spreads the invalid flag.                                           *)
LEMMA Undisturbed ==
  ASSUME MemoryOK, EvictionInv, AttachInv,
         UNCHANGED <<memStorage, attaching, evictionState, lastEvictedIndex>>,
         invalid \subseteq invalid', invalidating' \subseteq invalidating \union (invalid' \ invalid),
         \A x \in BlockID : queued[x] # 0 => queued'[x] # 0
  PROVE  MemoryOK' /\ EvictionInv' /\ AttachInv'
  <1> USE DEF memStorage, evictionState
  <1>1. MemoryOK'
    BY DEF MemoryOK
  <1>2. EvictionInv'
    BY DEF EvictionInv
  <1>3. AttachInv'
    BY DEF AttachInv, Evicted
  <1> QED
    BY <1>1, <1>2, <1>3

-----------------------------------------------------------------------------
LEMMA CanAttachStep ==
  ASSUME IInv, NEW b \in BlockID, CanAttach(b)
  PROVE  IInv'
  <1>1. /\ b \notin stored /\ ~InEvictedEpoch(b) /\ attaching[b].at = "idle"
        /\ UNCHANGED <<solidifier, crashed, memStorage, evictionState>>
    BY DEF CanAttach
  <1>2. \/ /\ UNCHANGED <<invalid, invalidating>>
           /\ attaching' = [attaching EXCEPT ![b] = [at |-> "store", next |-> 1]]
        \/ UNCHANGED attaching /\ SetInvalid({b})
    BY DEF CanAttach
  <1>3. /\ UNCHANGED <<stored, missing, children, rootBlocks, lastEvictedEpoch, evictionStep,
                       lastEvictedIndex, queued, Known>>
    BY <1>1 DEF memStorage, evictionState, solidifier, Known, IsRootBlock,
                DelayedBlockEvictionThreshold
  <1>4. CausalOrder!IInv'
    <2>1. invalid \subseteq invalid' /\ invalid' \subseteq BlockID /\ crashed' \in BOOLEAN
      BY <1>1, <1>2, CausalOrderFacts DEF SetInvalid, IInv
    <2>2. Known' \subseteq BlockID
      BY <1>3, KnownAreBlocks DEF IInv, MemoryOK
    <2> QED
      BY <1>1, <2>1, <2>2, EnvironmentOf DEF IInv
  <1>5. CASE UNCHANGED attaching /\ SetInvalid({b})
    <2>1. MemoryOK' /\ EvictionInv' /\ AttachInv'
      BY <1>1, <1>3, <1>5, Undisturbed DEF IInv, SetInvalid
    <2> QED
      BY <1>4, <2>1 DEF IInv
  <1>6. CASE /\ UNCHANGED <<invalid, invalidating>>
             /\ attaching' = [attaching EXCEPT ![b] = [at |-> "store", next |-> 1]]
    <2>1. MemoryOK'
      BY <1>3, <1>6 DEF IInv, MemoryOK
    <2>2. EvictionInv'
      BY <1>3 DEF IInv, EvictionInv
    <2>3. ~Evicted(b)'
      <3>1. Index[b] \in Nat /\ lastEvictedEpoch \in Nat
        BY BlockDAGConstants DEF IInv, MemoryOK
      <3> QED
        BY <1>1, <1>3, <3>1 DEF InEvictedEpoch, Evicted
    <2>4. /\ attaching'[b].at = "store" /\ attaching'[b].next = 1
          /\ \A x \in BlockID \ {b} : attaching'[x] = attaching[x]
      BY <1>6 DEF IInv, MemoryOK
    <2>5. AttachInv'
      BY <1>1, <1>3, <2>3, <2>4 DEF IInv, AttachInv, Evicted
    <2> QED
      BY <1>4, <2>1, <2>2, <2>5 DEF IInv
  <1> QED
    BY <1>2, <1>5, <1>6

LEMMA AttachingStep ==
  ASSUME IInv, NEW b \in BlockID, Store(b) \/ RegisterChild(b) \/ Attached(b)
  PROVE  IInv'
  <1>1. /\ attaching[b].at \in {"store", "children"}
        /\ UNCHANGED <<solidifier, invalid, crashed, invalidating, evictionState, queued>>
        /\ UNCHANGED <<rootBlocks, lastEvictedEpoch, evictionStep, lastEvictedIndex>>
    BY DEF Store, RegisterChild, Attached, solidifier, evictionState
  <1>2. /\ attaching \in [BlockID -> [at : {"idle", "store", "children", "queue"}, next : Nat]]
        /\ attaching[b].next \in Nat /\ attaching[b].next # 0 /\ ~Evicted(b)
    BY <1>1 DEF IInv, MemoryOK, AttachInv
  (* Where the attachment goes.                                             *)
  <1>3. ASSUME attaching' \in [BlockID -> [at : {"idle", "store", "children", "queue"}, next : Nat]],
               \A x \in BlockID \ {b} : attaching'[x] = attaching[x],
               attaching'[b].at \in {"children", "queue"}, attaching'[b].next # 0,
               stored' \subseteq BlockID, missing' \subseteq BlockID, stored' \intersect missing' = {},
               children' \in [BlockID -> SUBSET BlockID], stored' \subseteq stored \union {b}
        PROVE  IInv'
    <2>1. MemoryOK'
      BY <1>1, <1>3 DEF IInv, MemoryOK
    <2>2. EvictionInv'
      BY <1>1 DEF IInv, EvictionInv
    <2>3. AttachInv'
      BY <1>1, <1>2, <1>3 DEF IInv, AttachInv, Evicted
    <2>4. CausalOrder!IInv'
      <3>1. Known' \subseteq BlockID
        BY <1>3, <2>1 DEF Known
      <3> QED
        BY <1>1, <3>1, CausalOrderFacts, EnvironmentOf DEF IInv
    <2> QED
      BY <2>1, <2>2, <2>3, <2>4 DEF IInv
  <1>4. CASE Store(b)
    <2>1. /\ attaching' \in [BlockID -> [at : {"idle", "store", "children", "queue"}, next : Nat]]
          /\ \A x \in BlockID \ {b} : attaching'[x] = attaching[x]
          /\ attaching'[b].at = "children" /\ attaching'[b].next # 0
      BY <1>2, <1>4 DEF Store
    <2>2. /\ stored' \subseteq BlockID /\ missing' \subseteq BlockID /\ stored' \intersect missing' = {}
          /\ children' \in [BlockID -> SUBSET BlockID] /\ stored' \subseteq stored \union {b}
      BY <1>4 DEF Store, IInv, MemoryOK
    <2> QED
      BY <1>3, <2>1, <2>2
  <1>5. CASE RegisterChild(b)
    <2> DEFINE n == attaching[b].next
               p == Parents[b][n]
    <2>1. p \in BlockID
      <3>1. Parents[b] \in Seq(BlockID) /\ n \in Nat /\ n # 0 /\ n <= Len(Parents[b])
        BY <1>2, <1>5, BlockDAGConstants DEF RegisterChild
      <3> QED
        BY <3>1
    <2>2. /\ attaching' \in [BlockID -> [at : {"idle", "store", "children", "queue"}, next : Nat]]
          /\ \A x \in BlockID \ {b} : attaching'[x] = attaching[x]
          /\ attaching'[b].at = "children" /\ attaching'[b].next # 0
      <3>1. attaching' = [attaching EXCEPT ![b].next = @ + 1] /\ attaching[b].at = "children"
        BY <1>5 DEF RegisterChild
      <3> QED
        BY <1>2, <3>1
    <2>3. /\ stored' = stored
          /\ missing' = missing \/ (p \notin stored /\ missing' = missing \union {p})
          /\ children' = children \/ children' = [children EXCEPT ![p] = @ \union {b}]
      BY <1>5 DEF RegisterChild
    <2> HIDE DEF p
    <2>4. /\ stored' \subseteq BlockID /\ missing' \subseteq BlockID /\ stored' \intersect missing' = {}
          /\ children' \in [BlockID -> SUBSET BlockID] /\ stored' \subseteq stored \union {b}
      BY <2>1, <2>3 DEF IInv, MemoryOK
    <2> QED
      BY <1>3, <2>2, <2>4
  <1>6. CASE Attached(b)
    <2>1. /\ attaching' \in [BlockID -> [at : {"idle", "store", "children", "queue"}, next : Nat]]
          /\ \A x \in BlockID \ {b} : attaching'[x] = attaching[x]
          /\ attaching'[b].at = "queue" /\ attaching'[b].next # 0
      BY <1>2, <1>6 DEF Attached
    <2>2. /\ stored' \subseteq BlockID /\ missing' \subseteq BlockID /\ stored' \intersect missing' = {}
          /\ children' \in [BlockID -> SUBSET BlockID] /\ stored' \subseteq stored \union {b}
      BY <1>6 DEF Attached, memStorage, IInv, MemoryOK
    <2> QED
      BY <1>3, <2>1, <2>2
  <1> QED
    BY <1>4, <1>5, <1>6

LEMMA QueueStep ==
  ASSUME IInv, ~crashed, NEW b \in BlockID, Queue(b)
  PROVE  IInv'
  <1>1. /\ attaching[b].at = "queue" /\ attaching' = [attaching EXCEPT ![b] = NotAttaching]
        /\ invalidating' = invalidating \union (invalid' \ invalid)
        /\ UNCHANGED <<stored, missing, children, rootBlocks, lastEvictedEpoch, evictionStep>>
        /\ CausalOrder!Queue(b)
    BY SameSteps DEF Queue, memStorage, evictionState
  <1>2. /\ CausalOrder!IInv' /\ invalid \subseteq invalid'
        /\ lastEvictedIndex' = lastEvictedIndex /\ queued'[b] # 0
        /\ \A x \in BlockID : queued[x] # 0 => queued'[x] # 0
    BY <1>1, SolidifierKeeps DEF IInv
  <1>3. MemoryOK'
    <2>1. NotAttaching \in [at : {"idle", "store", "children", "queue"}, next : Nat]
      BY DEF NotAttaching
    <2>2. attaching' \in [BlockID -> [at : {"idle", "store", "children", "queue"}, next : Nat]]
      BY <1>1, <2>1 DEF IInv, MemoryOK
    <2> QED
      BY <1>1, <1>2, <2>2 DEF IInv, MemoryOK
  <1>4. EvictionInv'
    BY <1>1, <1>2 DEF IInv, EvictionInv
  <1>5. AttachInv'
    <2>1. /\ attaching'[b].at = "idle"
          /\ \A x \in BlockID \ {b} : attaching'[x] = attaching[x]
      BY <1>1 DEF IInv, MemoryOK, NotAttaching
    <2> QED
      BY <1>1, <1>2, <2>1 DEF IInv, AttachInv, Evicted
  <1> QED
    BY <1>2, <1>3, <1>4, <1>5 DEF IInv

LEMMA SolidifyStep ==
  ASSUME IInv, ~crashed, NEW b \in BlockID, Solidify(b) \/ MarkSolid(b)
  PROVE  IInv'
  <1>1. /\ UNCHANGED <<memStorage, evictionState, attaching>>
        /\ invalidating' = invalidating \union (invalid' \ invalid)
        /\ \/ CausalOrder!CheckParent(b) \/ CausalOrder!RegisterUnorderedChild(b)
           \/ CausalOrder!SetUnorderedParentsCounter(b) \/ CausalOrder!AllParentsOrdered(b)
           \/ CausalOrder!PropagateOrderToChildren(b) \/ CausalOrder!TriggerChildIfReady(b)
           \/ CausalOrder!TriggerOrderedCallback(b) \/ CausalOrder!EvictionCallback(b)
    BY SameSteps DEF Solidify, MarkSolid
  <1>2. /\ CausalOrder!IInv' /\ invalid \subseteq invalid'
        /\ lastEvictedIndex' = lastEvictedIndex
        /\ \A x \in BlockID : queued[x] # 0 => queued'[x] # 0
    BY <1>1, SolidifierKeeps DEF IInv
  <1>3. MemoryOK' /\ EvictionInv' /\ AttachInv'
    BY <1>1, <1>2, Undisturbed DEF IInv
  <1> QED
    BY <1>2, <1>3 DEF IInv

LEMMA WalkStep ==
  ASSUME IInv, NEW b \in BlockID, WalkFutureCone(b)
  PROVE  IInv'
  <1>1. /\ invalid' = invalid \union children[b]
        /\ invalidating' = (invalidating \ {b}) \union (children[b] \ invalid)
        /\ UNCHANGED <<solidifier, crashed, memStorage, attaching, evictionState>>
        /\ UNCHANGED <<stored, missing, lastEvictedIndex, queued, Known>>
    BY DEF WalkFutureCone, memStorage, evictionState, solidifier, Known, IsRootBlock,
           DelayedBlockEvictionThreshold
  <1>2. children[b] \subseteq BlockID /\ Known' \subseteq BlockID
    BY <1>1, KnownAreBlocks DEF IInv, MemoryOK
  <1>3. CausalOrder!IInv'
    BY <1>1, <1>2, CausalOrderFacts, EnvironmentOf DEF IInv
  <1>4. MemoryOK' /\ EvictionInv' /\ AttachInv'
    BY <1>1, Undisturbed DEF IInv
  <1> QED
    BY <1>3, <1>4 DEF IInv

LEMMA RootBlockStep ==
  ASSUME IInv, NEW b \in BlockID,
         ParentNotFound(b) \/ (\E p \in BlockID : AddRootBlock(b, p))
  PROVE  IInv'
  <1>1. /\ UNCHANGED <<solidifier, invalid, memStorage, attaching, invalidating,
                       lastEvictedEpoch, evictionStep>>
        /\ UNCHANGED <<stored, missing, children, lastEvictedIndex, queued>>
        /\ rootBlocks' \subseteq BlockID /\ crashed' \in BOOLEAN
    BY CausalOrderFacts
    DEF ParentNotFound, AddRootBlock, memStorage, evictionState, solidifier, IInv, MemoryOK
  <1>2. Known' \subseteq BlockID
    BY <1>1 DEF Known, IInv, MemoryOK
  <1>3. CausalOrder!IInv'
    BY <1>1, <1>2, CausalOrderFacts, EnvironmentOf DEF IInv
  <1>4. MemoryOK'
    BY <1>1 DEF IInv, MemoryOK
  <1>5. EvictionInv' /\ AttachInv'
    BY <1>1 DEF IInv, EvictionInv, AttachInv, Evicted
  <1> QED
    BY <1>3, <1>4, <1>5 DEF IInv

-----------------------------------------------------------------------------
LEMMA EvictionFacts ==
  ASSUME IInv
  PROVE  /\ lastEvictedEpoch \in Nat /\ lastEvictedIndex \in Nat /\ LastIndex \in Nat
         /\ lastEvictedEpoch <= LastIndex /\ \A b \in BlockID : Index[b] \in Nat
  BY BlockDAGConstants, CausalOrderFacts DEF IInv, MemoryOK

LEMMA EvictUntilStep ==
  ASSUME IInv, EvictUntil
  PROVE  IInv'
  <1>1. /\ evictionStep = "idle" /\ lastEvictedEpoch < LastIndex
        /\ lastEvictedEpoch' = lastEvictedEpoch + 1 /\ evictionStep' = "solidifier"
        /\ rootBlocks' \subseteq rootBlocks
        /\ UNCHANGED <<solidifier, invalid, crashed, attaching, invalidating>>
        /\ UNCHANGED <<stored, missing, children, lastEvictedIndex, queued>>
    BY DEF EvictUntil, memStorage, solidifier
  <1>2. Known' \subseteq BlockID
    BY <1>1 DEF Known, IInv, MemoryOK
  <1>3. CausalOrder!IInv'
    BY <1>1, <1>2, CausalOrderFacts, EnvironmentOf DEF IInv
  <1>4. MemoryOK'
    BY <1>1, EvictionFacts DEF IInv, MemoryOK
  <1>5. EvictionInv'
    BY <1>1 DEF IInv, EvictionInv
  <1>6. \A b \in BlockID : Evicted(b)' => Evicted(b)
    BY <1>1, EvictionFacts DEF Evicted
  <1>7. AttachInv'
    BY <1>1, <1>6 DEF IInv, AttachInv
  <1> QED
    BY <1>3, <1>4, <1>5, <1>7 DEF IInv

LEMMA EvictSolidifierStep ==
  ASSUME IInv, ~crashed, EvictSolidifier
  PROVE  IInv'
  <1>1. /\ evictionStep = "solidifier" /\ evictionStep' = "storage"
        /\ UNCHANGED <<stored, missing, children, attaching, rootBlocks, lastEvictedEpoch,
                       invalidating>>
        /\ Solidifier!EvictUntil(lastEvictedEpoch)
    BY DEF EvictSolidifier, memStorage
  <1>2. lastEvictedEpoch \in 1..LastIndex
    BY <1>1, EvictionFacts DEF IInv, EvictionInv
  <1>3. CausalOrder!EvictUntil(lastEvictedEpoch)
    BY <1>1, <1>2, SameEviction
  <1>4. CausalOrder!Next
    BY <1>2, <1>3 DEF CausalOrder!Next, CausalOrder!Evict
  <1>5. CausalOrder!IInv'
    BY <1>4, SolidifierStep DEF IInv
  <1>6. lastEvictedIndex' = lastEvictedEpoch /\ UNCHANGED <<invalid, queued>>
    BY <1>3 DEF CausalOrder!EvictUntil
  <1>7. MemoryOK'
    BY <1>1, <1>6 DEF IInv, MemoryOK
  <1>8. EvictionInv' /\ AttachInv'
    BY <1>1, <1>6 DEF IInv, EvictionInv, AttachInv, Evicted
  <1> QED
    BY <1>5, <1>7, <1>8 DEF IInv

LEMMA EvictStorageStep ==
  ASSUME IInv, EvictStorage
  PROVE  IInv'
  <1>1. /\ evictionStep = "storage" /\ evictionStep' = "idle"
        /\ \A b \in BlockID : attaching[b].at \notin {"store", "children"}
        /\ stored' = {b \in stored : Index[b] # lastEvictedEpoch}
        /\ missing' = {b \in missing : Index[b] # lastEvictedEpoch}
        /\ children' = [b \in BlockID |-> IF Index[b] = lastEvictedEpoch THEN {} ELSE children[b]]
        /\ UNCHANGED <<solidifier, invalid, crashed, attaching, invalidating, rootBlocks,
                       lastEvictedEpoch>>
        /\ UNCHANGED <<lastEvictedIndex, queued>>
    BY DEF EvictStorage, solidifier
  <1>2. MemoryOK'
    BY <1>1 DEF IInv, MemoryOK
  <1>3. CausalOrder!IInv'
    <2>1. Known' \subseteq BlockID
      BY <1>2 DEF Known, MemoryOK
    <2> QED
      BY <1>1, <2>1, CausalOrderFacts, EnvironmentOf DEF IInv
  <1>4. EvictionInv'
    BY <1>1 DEF IInv, EvictionInv
  <1>5. AttachInv'
    BY <1>1, EvictionFacts DEF IInv, AttachInv, Evicted, MemoryOK
  <1> QED
    BY <1>2, <1>3, <1>4, <1>5 DEF IInv

-----------------------------------------------------------------------------
LEMMA InitIInv == Init => IInv
  <1> SUFFICES ASSUME Init PROVE IInv
    OBVIOUS
  <1>1. Known \subseteq BlockID
    BY KnownAreBlocks DEF Init
  <1>2. CausalOrder!NothingHappened
    <2>1. Solidifier!NotRunning = CausalOrder!NotRunning
      BY DEF Solidifier!NotRunning, CausalOrder!NotRunning
    <2> QED
      BY <1>1, <2>1 DEF Init, CausalOrder!NothingHappened
  <1>3. CausalOrder!IInv
    BY <1>2, CausalOrder!StartIInv, CausalOrderAssumptions
  <1>4. MemoryOK
    <2>1. NotAttaching \in [at : {"idle", "store", "children", "queue"}, next : Nat]
      BY DEF NotAttaching
    <2>2. attaching \in [BlockID -> [at : {"idle", "store", "children", "queue"}, next : Nat]]
      BY <2>1 DEF Init
    <2> QED
      BY <2>2, BlockDAGConstants DEF Init, MemoryOK
  <1>5. EvictionInv /\ AttachInv
    BY DEF Init, EvictionInv, AttachInv, NotAttaching
  <1> QED
    BY <1>3, <1>4, <1>5 DEF IInv

LEMMA Inductive == IInv /\ [Next]_vars => IInv'
  <1> SUFFICES ASSUME IInv, [Next]_vars PROVE IInv'
    OBVIOUS
  <1>1. CASE Next
    BY <1>1, CanAttachStep, AttachingStep, QueueStep, SolidifyStep, WalkStep, RootBlockStep,
       EvictUntilStep, EvictSolidifierStep, EvictStorageStep
    DEF Next, Attach
  <1>2. CASE UNCHANGED vars
    <2>1. UNCHANGED <<solidifier, invalid, crashed, memStorage, attaching, invalidating, evictionState>>
      BY <1>2 DEF vars
    <2>2. UNCHANGED <<stored, missing, lastEvictedIndex, queued, Known>>
      BY <2>1 DEF memStorage, evictionState, solidifier, Known, IsRootBlock,
                  DelayedBlockEvictionThreshold
    <2>3. Known' \subseteq BlockID
      BY <2>2, KnownAreBlocks DEF IInv, MemoryOK
    <2>4. CausalOrder!IInv'
      BY <2>1, <2>3, CausalOrderFacts, EnvironmentOf DEF IInv
    <2>5. MemoryOK' /\ EvictionInv' /\ AttachInv'
      BY <2>1, <2>2, Undisturbed DEF IInv
    <2> QED
      BY <2>4, <2>5 DEF IInv
  <1> QED
    BY <1>1, <1>2

LEMMA Invariant == Spec => []IInv
  BY InitIInv, Inductive, PTL DEF Spec

-----------------------------------------------------------------------------
(* Every variable keeps its type: in particular a block is never stored    *)
(* and missing at once, and the walk of SetInvalid visits invalid blocks.  *)
THEOREM TypeCorrect == Spec => []TypeOK
  <1>1. IInv => TypeOK
    <2> SUFFICES ASSUME IInv PROVE TypeOK
      OBVIOUS
    <2>1. CausalOrder!TypeOK
      BY DEF IInv, CausalOrder!IInv
    <2>2. Solidifier!TypeOK
      BY <2>1 DEF CausalOrder!TypeOK, Solidifier!TypeOK, CausalOrder!Goroutine, Solidifier!Goroutine
    <2> QED
      BY <2>2 DEF IInv, MemoryOK, TypeOK
  <1> QED
    BY <1>1, Invariant, PTL

(* The memStorage of an evicted epoch is never filled again: Attach looks  *)
(* at the eviction state and stores the block with the read lock of the    *)
(* evictionMutex, for which evictEpoch waits.                              *)
THEOREM NothingStoredAfterEviction == Spec => []EvictedBlocksForgotten
  <1>1. IInv => EvictedBlocksForgotten
    <2> SUFFICES ASSUME IInv, evictionStep = "idle", NEW b \in stored
                 PROVE  ~InEvictedEpoch(b)
      BY DEF EvictedBlocksForgotten
    <2>1. b \in BlockID /\ ~Evicted(b)
      BY DEF IInv, MemoryOK, AttachInv
    <2> QED
      BY <2>1, EvictionFacts DEF Evicted, InEvictedEpoch
  <1> QED
    BY <1>1, Invariant, PTL

(* BlockSolid is triggered for a block after its parents, although blocks  *)
(* are marked invalid from outside of the solidifier while it runs.        *)
THEOREM SolidAfterParents == Spec => []Solidifier!ParentsOrderedFirst
  <1>1. IInv => Solidifier!ParentsOrderedFirst
    <2> SUFFICES ASSUME IInv PROVE Solidifier!ParentsOrderedFirst
      OBVIOUS
    <2>1. CausalOrder!ParentsOrderedFirst
      BY CausalOrder!InvParentsFirst, CausalOrderAssumptions DEF IInv
    <2> QED
      BY <2>1, SameParents DEF CausalOrder!ParentsOrderedFirst, Solidifier!ParentsOrderedFirst
  <1> QED
    BY <1>1, Invariant, PTL

(* Once nobody is at work no stored block waits for parents that are all   *)
(* solid: its counter, were it waiting, would be the number of parents     *)
(* that are not, and 0 is never stored; and as the block was not evicted   *)
(* neither was its counter.                                                *)
THEOREM NoBlockForgotten == Spec => []NobodyWaitsForSolidParents
  <1>1. IInv => NobodyWaitsForSolidParents
    <2> SUFFICES ASSUME IInv, Quiet, NEW b \in stored, ToSet(Parents[b]) \subseteq solid
                 PROVE  b \in solid \union invalid
      BY DEF NobodyWaitsForSolidParents
    <2>1. b \in BlockID /\ ~Evicted(b) /\ queued[b] # 0
      BY DEF IInv, MemoryOK, AttachInv, Quiet
    <2>2. \A x \in BlockID : CausalOrder!Running(x, "idle") /\ tasks[x] = 0
      BY DEF Quiet, CausalOrder!Running, Solidifier!Running
    <2>3. ~CausalOrder!TooOld(b)
      BY <2>1, EvictionFacts DEF CausalOrder!TooOld, Evicted, IInv, EvictionInv, Quiet
    <2>4. \A p \in CausalOrder!ParentIDs(b) : p \in solid /\ CausalOrder!Running(p, "idle")
      BY <2>2, SameParents, CausalOrderFacts DEF IInv
    <2> QED
      BY <2>1, <2>2, <2>3, <2>4, CausalOrder!NothingOwed, CausalOrderAssumptions DEF IInv
  <1> QED
    BY <1>1, Invariant, PTL

-----------------------------------------------------------------------------
(* Invalidity and the future cone.  Invalid is what the walk of SetInvalid *)
(* has marked.                                                             *)
PositionsIn(b) == 1..Len(Parents[b])

(* A block that is invalid is not solid, nor does it become solid.         *)
SolidBlocksAreValid == solid \intersect invalid = {}

(* A block that was refused, as a placeholder, because of a parent that is *)
(* too old, is not attached after all.                                     *)
NoRefusedBlockReturns ==
  \A b \in BlockID : attaching[b].at = "store" => b \notin invalid

(* The stages of Attach.                                                   *)
StageInv ==
  \A b \in BlockID :
    /\ attaching[b].at # "idle" => queued[b] = 0
    /\ attaching[b].at = "store" => b \notin stored /\ attaching[b].next = 1
    /\ \A p \in BlockID : b \in children[p] =>
         /\ p \in ToSet(Parents[b])
         /\ attaching[b].at \in {"children", "queue"} \/ queued[b] # 0

(* What returns to an evicted epoch of the memStorage, as a placeholder    *)
(* for a root block that has just grown too old, is solid.                 *)
MemoryInv ==
  /\ rootBlocks \subseteq solid
  /\ \A p \in missing : p \in solid \/ ~Evicted(p)
  /\ \A b \in BlockID : attaching[b].at \in {"store", "children"} =>
       \A p \in ToSet(Parents[b]) : p \in solid \/ ~Evicted(p)

(* The parents with which Attach has registered a block know it, until     *)
(* they are solid or evicted.                                              *)
HasRegistered(b, i) ==
  \/ attaching[b].at \in {"idle", "queue"}
  \/ attaching[b].at = "children" /\ i < attaching[b].next

RegisteredInv ==
  \A b \in stored : \A i \in PositionsIn(b) :
    HasRegistered(b, i) =>
      \/ Parents[b][i] \in solid \/ Evicted(Parents[b][i])
      \/ Parents[b][i] \in stored \union missing /\ b \in children[Parents[b][i]]

(* A block with an invalid parent is invalid, or the walk has still to     *)
(* visit that parent, or the solidifier has still to look at it.           *)
StillToCheck(b, i) ==
  \/ attaching[b].at # "idle"
  \/ running[b].at = "parents" /\ running[b].next <= i
  \/ running[b].at = "register" /\ running[b].next < i

ConeInv ==
  \A b \in stored : \A i \in PositionsIn(b) :
    Parents[b][i] \in (stored \union missing) \intersect invalid =>
      b \in invalid \/ Parents[b][i] \in invalidating \/ StillToCheck(b, i)

-----------------------------------------------------------------------------
LEMMA ParentsAtPositions ==
  ASSUME NEW b \in BlockID
  PROVE  /\ Len(Parents[b]) \in Nat
         /\ \A i \in PositionsIn(b) : Parents[b][i] \in ToSet(Parents[b]) /\ Parents[b][i] \in BlockID
         /\ \A p \in ToSet(Parents[b]) : /\ p \in BlockID /\ p # b
                                         /\ \E i \in PositionsIn(b) : p = Parents[b][i]
         /\ b \in Genesis => ToSet(Parents[b]) = {} /\ PositionsIn(b) = {}
  <1>1. Parents[b] \in Seq(BlockID) /\ b \notin ToSet(Parents[b])
    BY BlockDAGConstants, Zenon
  <1>2. Len(Parents[b]) \in Nat /\ DOMAIN Parents[b] = PositionsIn(b)
    BY <1>1 DEF PositionsIn
  <1>3. ToSet(Parents[b]) = {Parents[b][i] : i \in PositionsIn(b)}
    BY <1>2 DEF ToSet
  <1>4. \A i \in PositionsIn(b) : Parents[b][i] \in BlockID
    BY <1>1 DEF PositionsIn
  <1>5. b \in Genesis => PositionsIn(b) = {}
    BY GenesisHasNoParents DEF PositionsIn
  <1> QED
    BY <1>1, <1>2, <1>3, <1>4, <1>5

(* Where a step of Attach leaves it.                                       *)
AttachGoes(b, step, next) ==
  /\ attaching'[b].at = step /\ attaching'[b].next = next
  /\ \A x \in BlockID \ {b} : attaching'[x] = attaching[x]

LEMMA AttachMoves ==
  ASSUME IInv, NEW b \in BlockID
  PROVE  /\ attaching' = [attaching EXCEPT ![b] = [at |-> "store", next |-> 1]]
              => AttachGoes(b, "store", 1)
         /\ Store(b) => AttachGoes(b, "children", attaching[b].next)
         /\ RegisterChild(b) => AttachGoes(b, "children", attaching[b].next + 1)
         /\ Attached(b) => AttachGoes(b, "queue", attaching[b].next)
         /\ Queue(b) => AttachGoes(b, "idle", 0)
  <1>1. /\ attaching \in [BlockID -> [at : {"idle", "store", "children", "queue"}, next : Nat]]
        /\ attaching[b] \in [at : {"idle", "store", "children", "queue"}, next : Nat]
    BY DEF IInv, MemoryOK
  <1>2. attaching' = [attaching EXCEPT ![b] = [at |-> "store", next |-> 1]]
          => AttachGoes(b, "store", 1)
    BY <1>1 DEF AttachGoes
  <1>3. ASSUME Store(b) PROVE AttachGoes(b, "children", attaching[b].next)
    <2>1. attaching' = [attaching EXCEPT ![b].at = "children"]
      BY <1>3 DEF Store
    <2> QED
      BY <1>1, <2>1 DEF AttachGoes
  <1>4. ASSUME RegisterChild(b) PROVE AttachGoes(b, "children", attaching[b].next + 1)
    <2>1. attaching' = [attaching EXCEPT ![b].next = @ + 1] /\ attaching[b].at = "children"
      BY <1>4 DEF RegisterChild
    <2> QED
      BY <1>1, <2>1 DEF AttachGoes
  <1>5. ASSUME Attached(b) PROVE AttachGoes(b, "queue", attaching[b].next)
    <2>1. attaching' = [attaching EXCEPT ![b].at = "queue"]
      BY <1>5 DEF Attached
    <2> QED
      BY <1>1, <2>1 DEF AttachGoes
  <1>6. ASSUME Queue(b) PROVE AttachGoes(b, "idle", 0)
    <2>1. attaching' = [attaching EXCEPT ![b] = NotAttaching]
      BY <1>6 DEF Queue
    <2> QED
      BY <1>1, <2>1 DEF AttachGoes, NotAttaching
  <1> QED
    BY <1>2, <1>3, <1>4, <1>5, <1>6

(* What the steps of the solidifier leave alone.                           *)
LEMMA SolidifyFacts ==
  ASSUME IInv, NEW b \in BlockID, Solidify(b) \/ MarkSolid(b)
  PROVE  /\ UNCHANGED <<stored, missing, children, attaching, rootBlocks, lastEvictedEpoch,
                        evictionStep, lastEvictedIndex, queued>>
         /\ solid \subseteq solid' /\ invalid \subseteq invalid' /\ evicting' \subseteq evicting
         /\ invalidating' = invalidating \union (invalid' \ invalid)
  <1>1. /\ UNCHANGED <<memStorage, evictionState, attaching>>
        /\ invalidating' = invalidating \union (invalid' \ invalid)
        /\ \/ CausalOrder!CheckParent(b) \/ CausalOrder!RegisterUnorderedChild(b)
           \/ CausalOrder!SetUnorderedParentsCounter(b) \/ CausalOrder!AllParentsOrdered(b)
           \/ CausalOrder!PropagateOrderToChildren(b) \/ CausalOrder!TriggerChildIfReady(b)
           \/ CausalOrder!TriggerOrderedCallback(b) \/ CausalOrder!EvictionCallback(b)
    BY SameSteps DEF Solidify, MarkSolid
  <1>2. /\ UNCHANGED <<lastEvictedIndex, queued>>
        /\ solid \subseteq solid' /\ invalid \subseteq invalid' /\ evicting' \subseteq evicting
    BY <1>1
    DEF CausalOrder!CheckParent,
        CausalOrder!RegisterUnorderedChild, CausalOrder!SetUnorderedParentsCounter,
        CausalOrder!AllParentsOrdered, CausalOrder!PropagateOrderToChildren,
        CausalOrder!TriggerChildIfReady, CausalOrder!TriggerOrderedCallback,
        CausalOrder!EvictionCallback, CausalOrder!eviction
  <1> QED
    BY <1>1, <1>2 DEF memStorage, evictionState

LEMMA QueueFacts ==
  ASSUME IInv, NEW b \in BlockID, Queue(b)
  PROVE  /\ UNCHANGED <<stored, missing, children, rootBlocks, lastEvictedEpoch, evictionStep,
                        lastEvictedIndex, solid, evicting>>
         /\ attaching[b].at = "queue" /\ AttachGoes(b, "idle", 0)
         /\ queued'[b] # 0 /\ \A x \in BlockID \ {b} : queued'[x] = queued[x]
         /\ invalid \subseteq invalid' /\ invalidating' = invalidating \union (invalid' \ invalid)
         /\ CausalOrder!Queue(b)
  <1>1. /\ UNCHANGED <<memStorage, evictionState>> /\ attaching[b].at = "queue"
        /\ invalidating' = invalidating \union (invalid' \ invalid)
        /\ CausalOrder!Queue(b)
    BY SameSteps DEF Queue
  <1>2. /\ UNCHANGED <<lastEvictedIndex, solid, evicting>> /\ invalid \subseteq invalid'
        /\ queued' = [queued EXCEPT ![b] = @ + 1]
    BY <1>1 DEF CausalOrder!Queue, CausalOrder!eviction
  <1>3. queued \in [BlockID -> 0..1]
    BY CausalOrderFacts DEF IInv
  <1>4. queued'[b] # 0 /\ \A x \in BlockID \ {b} : queued'[x] = queued[x]
    BY <1>2, <1>3
  <1> QED
    BY <1>1, <1>2, <1>4, AttachMoves DEF memStorage, evictionState

(* The other steps.                                                        *)
LEMMA CanAttachFacts ==
  ASSUME IInv, NEW b \in BlockID, CanAttach(b)
  PROVE  /\ UNCHANGED <<stored, missing, children, rootBlocks, lastEvictedEpoch, evictionStep,
                        lastEvictedIndex, queued, solid, evicting, running>>
         /\ attaching[b].at = "idle" /\ queued[b] = 0 /\ b \notin stored /\ b \notin Genesis
         /\ \/ /\ AttachGoes(b, "store", 1) /\ TooOldParents(b) = {}
               /\ UNCHANGED <<invalid, invalidating>>
            \/ /\ UNCHANGED attaching /\ TooOldParents(b) # {}
               /\ invalid' = invalid \union {b}
               /\ invalidating' = invalidating \union ({b} \ invalid)
  <1>1. /\ attaching[b].at = "idle" /\ queued[b] = 0 /\ b \notin stored /\ b \notin Genesis
        /\ UNCHANGED <<solidifier, memStorage, evictionState>>
    BY DEF CanAttach
  <1>2. \/ /\ attaching' = [attaching EXCEPT ![b] = [at |-> "store", next |-> 1]]
           /\ TooOldParents(b) = {} /\ UNCHANGED <<invalid, invalidating>>
        \/ UNCHANGED attaching /\ TooOldParents(b) # {} /\ SetInvalid({b})
    BY DEF CanAttach
  <1> QED
    BY <1>1, <1>2, AttachMoves DEF SetInvalid, solidifier, memStorage, evictionState

LEMMA StorageFacts ==
  ASSUME IInv, EvictStorage
  PROVE  /\ stored' = {b \in stored : Index[b] # lastEvictedEpoch}
         /\ missing' = {b \in missing : Index[b] # lastEvictedEpoch}
         /\ \A b \in BlockID : children'[b] = IF Index[b] = lastEvictedEpoch THEN {} ELSE children[b]
         /\ \A b \in BlockID : attaching[b].at \notin {"store", "children"}
         /\ evictionStep = "storage" /\ evictionStep' = "idle" /\ evicting = {}
         /\ UNCHANGED <<attaching, rootBlocks, lastEvictedEpoch, lastEvictedIndex, queued, solid,
                        evicting, running, invalid, invalidating>>
  BY DEF EvictStorage, solidifier

LEMMA StageStep ==
  ASSUME IInv, StageInv, [Next]_vars
  PROVE  StageInv'
  (* A step that leaves Attach and the solidifier's queue alone.            *)
  <1>1. ASSUME UNCHANGED <<attaching, queued>>, stored' \subseteq stored,
               \A p \in BlockID : children'[p] \subseteq children[p]
        PROVE  StageInv'
    BY <1>1 DEF StageInv
  <1>2. ASSUME NEW b \in BlockID, CanAttach(b) PROVE StageInv'
    <2>1. CASE AttachGoes(b, "store", 1)
      BY <1>2, <2>1, CanAttachFacts DEF StageInv, AttachGoes
    <2>2. CASE UNCHANGED attaching
      BY <1>1, <1>2, <2>2, CanAttachFacts
    <2> QED
      BY <1>2, <2>1, <2>2, CanAttachFacts
  <1>3. ASSUME NEW b \in BlockID, Store(b) PROVE StageInv'
    <2>1. /\ AttachGoes(b, "children", attaching[b].next) /\ attaching[b].at = "store"
          /\ stored' = stored \union {b} /\ UNCHANGED <<children, queued>>
      BY <1>3, AttachMoves DEF Store, solidifier
    <2> QED
      BY <2>1 DEF StageInv, AttachGoes
  <1>4. ASSUME NEW b \in BlockID, RegisterChild(b) PROVE StageInv'
    <2> DEFINE p == Parents[b][attaching[b].next]
    <2>1. /\ AttachGoes(b, "children", attaching[b].next + 1) /\ attaching[b].at = "children"
          /\ attaching[b].next <= Len(Parents[b]) /\ UNCHANGED <<stored, queued>>
          /\ children' = children \/ children' = [children EXCEPT ![p] = @ \union {b}]
      BY <1>4, AttachMoves DEF RegisterChild, solidifier
    <2>2. p \in ToSet(Parents[b]) /\ p \in BlockID
      <3>1. attaching[b].next \in Nat /\ attaching[b].next # 0
        BY <2>1 DEF IInv, MemoryOK, AttachInv
      <3>2. attaching[b].next \in PositionsIn(b)
        BY <2>1, <3>1, ParentsAtPositions DEF PositionsIn
      <3> QED
        BY <3>2, ParentsAtPositions
    <2>3. \A q, x \in BlockID : x \in children'[q] => x \in children[q] \/ (x = b /\ q = p)
      <3>1. children \in [BlockID -> SUBSET BlockID]
        BY DEF IInv, MemoryOK
      <3> HIDE DEF p
      <3> QED
        BY <2>1, <2>2, <3>1
    <2> HIDE DEF p
    <2> QED
      BY <2>1, <2>2, <2>3 DEF StageInv, AttachGoes
  <1>5. ASSUME NEW b \in BlockID, Attached(b) PROVE StageInv'
    <2>1. /\ AttachGoes(b, "queue", attaching[b].next) /\ attaching[b].at = "children"
          /\ UNCHANGED <<stored, children, queued>>
      BY <1>5, AttachMoves DEF Attached, solidifier, memStorage
    <2> QED
      BY <2>1 DEF StageInv, AttachGoes
  <1>6. ASSUME NEW b \in BlockID, Queue(b) PROVE StageInv'
    BY <1>6, QueueFacts DEF StageInv, AttachGoes
  <1>7. ASSUME NEW b \in BlockID, Solidify(b) \/ MarkSolid(b) PROVE StageInv'
    BY <1>1, <1>7, SolidifyFacts
  <1>8. ASSUME NEW b \in BlockID,
               \/ WalkFutureCone(b) \/ ParentNotFound(b)
               \/ \E p \in BlockID : AddRootBlock(b, p)
        PROVE  StageInv'
    BY <1>1, <1>8 DEF WalkFutureCone, ParentNotFound, AddRootBlock, solidifier, memStorage
  <1>9. CASE EvictUntil \/ UNCHANGED vars
    BY <1>1, <1>9 DEF EvictUntil, vars, solidifier, memStorage
  <1>10. CASE EvictSolidifier
    <2>1. UNCHANGED <<attaching, stored, children>> /\ Solidifier!EvictUntil(lastEvictedEpoch)
      BY <1>10 DEF EvictSolidifier, memStorage
    <2>2. queued' = queued
      BY <2>1 DEF Solidifier!EvictUntil
    <2> QED
      BY <1>1, <2>1, <2>2
  <1>11. CASE EvictStorage
    BY <1>1, <1>11, StorageFacts
  <1> QED
    BY <1>2, <1>3, <1>4, <1>5, <1>6, <1>7, <1>8, <1>9, <1>10, <1>11 DEF Next, Attach

-----------------------------------------------------------------------------
(* Evicted blocks stay evicted, up to the storage that is to be cleared.   *)
LEMMA SolidParents ==
  ASSUME IInv, NEW b \in BlockID, b \in solid, NEW p \in ToSet(Parents[b])
  PROVE  p \in solid
  <1>1. b \notin Genesis
    BY ParentsAtPositions
  <1>2. CausalOrder!ParentsOrderedFirst
    BY CausalOrder!InvParentsFirst, CausalOrderAssumptions DEF IInv
  <1> QED
    BY <1>1, <1>2, SameParents DEF CausalOrder!ParentsOrderedFirst

LEMMA MemoryStep ==
  ASSUME IInv, MemoryInv, [Next]_vars
  PROVE  MemoryInv'
  <1> USE DEF Evicted
  (* A step that leaves Attach, the storage and the epochs alone.           *)
  <1>1. ASSUME UNCHANGED <<attaching, missing, lastEvictedEpoch, evictionStep>>,
               solid \subseteq solid', rootBlocks' \subseteq solid'
        PROVE  MemoryInv'
    BY <1>1 DEF MemoryInv
  <1>2. ASSUME NEW b \in BlockID, CanAttach(b) PROVE MemoryInv'
    <2>1. CASE AttachGoes(b, "store", 1) /\ TooOldParents(b) = {}
      <3>1. \A p \in ToSet(Parents[b]) : p \in solid \/ ~Evicted(p)
        <4> SUFFICES ASSUME NEW p \in ToSet(Parents[b]) PROVE p \in solid \/ ~Evicted(p)
          OBVIOUS
        <4>1. ~InEvictedEpoch(p) \/ IsRootBlock(p)
          BY <2>1 DEF TooOldParents
        <4>2. p \in BlockID /\ Index[p] \in Nat /\ lastEvictedEpoch \in Nat
          BY ParentsAtPositions, EvictionFacts
        <4>3. IsRootBlock(p) => p \in solid
          BY CausalOrderFacts DEF IsRootBlock, MemoryInv, IInv
        <4> QED
          BY <4>1, <4>2, <4>3 DEF InEvictedEpoch
      <3> QED
        BY <1>2, <2>1, <3>1, CanAttachFacts DEF MemoryInv, AttachGoes
    <2>2. CASE UNCHANGED attaching
      BY <1>1, <1>2, <2>2, CanAttachFacts DEF MemoryInv
    <2> QED
      BY <1>2, <2>1, <2>2, CanAttachFacts
  <1>3. ASSUME NEW b \in BlockID, Store(b) PROVE MemoryInv'
    <2>1. /\ AttachGoes(b, "children", attaching[b].next) /\ attaching[b].at = "store"
          /\ missing' \subseteq missing /\ UNCHANGED <<rootBlocks, solid, lastEvictedEpoch, evictionStep>>
      BY <1>3, AttachMoves DEF Store, solidifier, evictionState
    <2> QED
      BY <2>1 DEF MemoryInv, AttachGoes
  <1>4. ASSUME NEW b \in BlockID, RegisterChild(b) PROVE MemoryInv'
    <2> DEFINE p == Parents[b][attaching[b].next]
    <2>1. /\ AttachGoes(b, "children", attaching[b].next + 1) /\ attaching[b].at = "children"
          /\ attaching[b].next <= Len(Parents[b]) /\ missing' \subseteq missing \union {p}
          /\ UNCHANGED <<rootBlocks, solid, lastEvictedEpoch, evictionStep>>
      BY <1>4, AttachMoves DEF RegisterChild, solidifier, evictionState
    <2>2. p \in ToSet(Parents[b])
      <3>1. attaching[b].next \in Nat /\ attaching[b].next # 0
        BY <2>1 DEF IInv, MemoryOK, AttachInv
      <3>2. attaching[b].next \in PositionsIn(b)
        BY <2>1, <3>1, ParentsAtPositions DEF PositionsIn
      <3> QED
        BY <3>2, ParentsAtPositions
    <2>3. p \in solid \/ ~Evicted(p)
      BY <2>1, <2>2 DEF MemoryInv
    <2> HIDE DEF p
    <2> QED
      BY <2>1, <2>3 DEF MemoryInv, AttachGoes
  <1>5. ASSUME NEW b \in BlockID, Attached(b) \/ Queue(b) PROVE MemoryInv'
    <2>1. /\ \A x \in BlockID : attaching'[x].at \in {"store", "children"} => attaching'[x] = attaching[x]
          /\ UNCHANGED <<missing, rootBlocks, solid, lastEvictedEpoch, evictionStep>>
      BY <1>5, AttachMoves, QueueFacts DEF Attached, AttachGoes, solidifier, memStorage, evictionState
    <2> QED
      BY <2>1 DEF MemoryInv
  <1>6. ASSUME NEW b \in BlockID, Solidify(b) \/ MarkSolid(b) PROVE MemoryInv'
    BY <1>1, <1>6, SolidifyFacts DEF MemoryInv
  <1>7. ASSUME NEW b \in BlockID, NEW p \in BlockID, AddRootBlock(b, p) PROVE MemoryInv'
    <2>1. /\ b \in solid /\ p \in ToSet(Parents[b]) /\ rootBlocks' = rootBlocks \union {p}
          /\ UNCHANGED <<attaching, missing, solid, lastEvictedEpoch, evictionStep>>
      BY <1>7 DEF AddRootBlock, solidifier, memStorage
    <2>2. p \in solid
      BY <2>1, SolidParents
    <2> QED
      BY <1>1, <2>1, <2>2 DEF MemoryInv
  <1>8. ASSUME NEW b \in BlockID, WalkFutureCone(b) \/ ParentNotFound(b) PROVE MemoryInv'
    BY <1>1, <1>8 DEF WalkFutureCone, ParentNotFound, MemoryInv, solidifier, memStorage, evictionState
  <1>9. CASE EvictUntil
    <2>1. /\ evictionStep = "idle" /\ lastEvictedEpoch' = lastEvictedEpoch + 1
          /\ evictionStep' = "solidifier" /\ rootBlocks' \subseteq rootBlocks
          /\ UNCHANGED <<attaching, missing, solid>>
      BY <1>9 DEF EvictUntil, solidifier, memStorage
    <2>2. \A p \in BlockID : Evicted(p)' => Evicted(p)
      BY <2>1, EvictionFacts
    <2>3. missing \subseteq BlockID /\ \A b \in BlockID : ToSet(Parents[b]) \subseteq BlockID
      BY ParentsAtPositions DEF IInv, MemoryOK
    <2> HIDE DEF Evicted
    <2> QED
      BY <2>1, <2>2, <2>3 DEF MemoryInv
  <1>10. CASE EvictSolidifier
    <2>1. /\ evictionStep = "solidifier" /\ evictionStep' = "storage"
          /\ UNCHANGED <<attaching, missing, rootBlocks, lastEvictedEpoch>>
          /\ Solidifier!EvictUntil(lastEvictedEpoch)
      BY <1>10 DEF EvictSolidifier, memStorage
    <2>2. solid' = solid
      BY <2>1 DEF Solidifier!EvictUntil
    <2> QED
      BY <2>1, <2>2 DEF MemoryInv
  <1>11. CASE EvictStorage
    <2>1. \A p \in missing' : p \in solid \/ ~Evicted(p)'
      <3> SUFFICES ASSUME NEW p \in missing', p \notin solid PROVE ~Evicted(p)'
        OBVIOUS
      <3>1. p \in missing /\ Index[p] # lastEvictedEpoch /\ p \in BlockID
        BY <1>11, StorageFacts DEF IInv, MemoryOK
      <3>2. ~(Index[p] < lastEvictedEpoch)
        BY <3>1 DEF MemoryInv
      <3> QED
        BY <1>11, <3>1, <3>2, StorageFacts
    <2> QED
      BY <1>11, <2>1, StorageFacts DEF MemoryInv
  <1>12. CASE UNCHANGED vars
    BY <1>1, <1>12 DEF vars, solidifier, memStorage, evictionState, MemoryInv
  <1> QED
    BY <1>2, <1>3, <1>4, <1>5, <1>6, <1>7, <1>8, <1>9, <1>10, <1>11, <1>12 DEF Next, Attach

LEMMA RegisteredStep ==
  ASSUME IInv, StageInv, MemoryInv, RegisteredInv, [Next]_vars
  PROVE  RegisteredInv'
  <1>0. /\ stored \subseteq BlockID /\ missing \subseteq BlockID
        /\ \A b \in BlockID : \A i \in PositionsIn(b) : Parents[b][i] \in BlockID
    BY ParentsAtPositions DEF IInv, MemoryOK
  (* A step that registers nothing, and forgets nothing but what is evicted.*)
  <1>1. ASSUME stored' \subseteq stored, solid \subseteq solid',
               \A b \in BlockID : b \in stored' => \A i \in PositionsIn(b) :
                 HasRegistered(b, i)' => HasRegistered(b, i),
               \A p \in BlockID : Evicted(p) => Evicted(p)',
               \A p \in BlockID : \/ Evicted(p)'
                                  \/ /\ p \in stored \union missing => p \in stored' \union missing'
                                     /\ children[p] \subseteq children'[p]
        PROVE  RegisteredInv'
    <2> SUFFICES ASSUME NEW b \in stored', NEW i \in PositionsIn(b), HasRegistered(b, i)',
                        Parents[b][i] \notin solid', ~Evicted(Parents[b][i])'
                 PROVE  Parents[b][i] \in stored' \union missing' /\ b \in children'[Parents[b][i]]
      BY DEF RegisteredInv, PositionsIn
    <2>1. b \in BlockID /\ b \in stored /\ HasRegistered(b, i) /\ Parents[b][i] \in BlockID
      BY <1>0, <1>1
    <2>2. Parents[b][i] \in stored \union missing /\ b \in children[Parents[b][i]]
      BY <1>1, <2>1 DEF RegisteredInv
    <2> QED
      BY <1>1, <2>1, <2>2
  <1>2. ASSUME UNCHANGED <<stored, missing, children, lastEvictedEpoch, evictionStep>>,
               solid \subseteq solid',
               \A b \in stored : \A i \in PositionsIn(b) : HasRegistered(b, i)' => HasRegistered(b, i)
        PROVE  RegisteredInv'
    BY <1>1, <1>2 DEF Evicted
  <1>3. UNCHANGED attaching => \A b, i : HasRegistered(b, i)' => HasRegistered(b, i)
    BY DEF HasRegistered
  <1>4. ASSUME NEW b \in BlockID, CanAttach(b) PROVE RegisteredInv'
    <2>1. \A x \in stored : \A i \in PositionsIn(x) : HasRegistered(x, i)' => HasRegistered(x, i)
      BY <1>0, <1>3, <1>4, CanAttachFacts DEF HasRegistered, AttachGoes
    <2> QED
      BY <1>2, <1>4, <2>1, CanAttachFacts
  <1>5. ASSUME NEW b \in BlockID, Store(b) PROVE RegisteredInv'
    <2>1. /\ AttachGoes(b, "children", attaching[b].next) /\ attaching[b].at = "store"
          /\ stored' = stored \union {b} /\ missing' = missing \ {b}
          /\ UNCHANGED <<children, solid, lastEvictedEpoch, evictionStep>>
      BY <1>5, AttachMoves DEF Store, solidifier, evictionState
    <2> SUFFICES ASSUME NEW x \in stored', NEW i \in PositionsIn(x), HasRegistered(x, i)',
                        Parents[x][i] \notin solid, ~Evicted(Parents[x][i])
                 PROVE  Parents[x][i] \in stored' \union missing' /\ x \in children[Parents[x][i]]
      BY <2>1 DEF RegisteredInv, PositionsIn, Evicted
    <2>2. x # b
      <3> SUFFICES ASSUME x = b PROVE FALSE
        OBVIOUS
      <3>1. attaching'[b].at = "children" /\ attaching'[b].next = 1
        BY <2>1 DEF AttachGoes, StageInv
      <3> QED
        BY <3>1 DEF HasRegistered, PositionsIn
    <2>3. x \in stored /\ HasRegistered(x, i)
      BY <1>0, <2>1, <2>2 DEF HasRegistered, AttachGoes
    <2> QED
      BY <2>1, <2>3 DEF RegisteredInv
  <1>6. ASSUME NEW b \in BlockID, RegisterChild(b) PROVE RegisteredInv'
    <2> DEFINE n == attaching[b].next
               p == Parents[b][n]
    <2>1. /\ AttachGoes(b, "children", n + 1) /\ attaching[b].at = "children"
          /\ UNCHANGED <<stored, solid, lastEvictedEpoch, evictionStep>> /\ n \in Nat
          /\ n <= Len(Parents[b])
      BY <1>6, AttachMoves DEF RegisterChild, solidifier, evictionState, IInv, MemoryOK
    <2>2. p \in BlockID
      <3>1. n # 0
        BY <2>1 DEF IInv, MemoryOK, AttachInv
      <3>2. n \in PositionsIn(b)
        BY <2>1, <3>1, ParentsAtPositions DEF PositionsIn
      <3> QED
        BY <1>0, <3>2
    <2>3. \/ IsRootBlock(p) /\ UNCHANGED <<missing, children>>
          \/ /\ missing' = IF p \in stored THEN missing ELSE missing \union {p}
             /\ children' = [children EXCEPT ![p] = @ \union {b}]
      BY <1>6 DEF RegisterChild
    <2>4. /\ IsRootBlock(p) => p \in solid
          /\ children \in [BlockID -> SUBSET BlockID]
      BY CausalOrderFacts DEF IsRootBlock, MemoryInv, IInv, MemoryOK
    <2>5. /\ p \in solid \/ (p \in stored' \union missing' /\ b \in children'[p])
          /\ missing \subseteq missing' /\ \A q \in BlockID : children[q] \subseteq children'[q]
      <3> HIDE DEF p
      <3> QED
        BY <2>1, <2>2, <2>3, <2>4
    <2> SUFFICES ASSUME NEW x \in stored, NEW i \in PositionsIn(x), HasRegistered(x, i)',
                        Parents[x][i] \notin solid, ~Evicted(Parents[x][i])
                 PROVE  Parents[x][i] \in stored' \union missing' /\ x \in children'[Parents[x][i]]
      BY <2>1 DEF RegisteredInv, PositionsIn, Evicted
    <2>6. Parents[x][i] \in BlockID
      BY <1>0
    <2>7. CASE HasRegistered(x, i)
      BY <2>1, <2>5, <2>6, <2>7 DEF RegisteredInv
    <2>8. CASE ~HasRegistered(x, i)
      <3>1. x = b
        BY <1>0, <2>1, <2>8 DEF HasRegistered, AttachGoes
      <3>2. i < n + 1 /\ ~(i < n)
        BY <2>1, <2>8, <3>1 DEF HasRegistered, AttachGoes
      <3>3. i = n
        BY <2>1, <3>2 DEF PositionsIn
      <3> QED
        BY <2>5, <3>1, <3>3
    <2> QED
      BY <2>7, <2>8
  <1>7. ASSUME NEW b \in BlockID, Attached(b) PROVE RegisteredInv'
    <2>1. /\ AttachGoes(b, "queue", attaching[b].next) /\ attaching[b].at = "children"
          /\ attaching[b].next > Len(Parents[b]) /\ attaching[b].next \in Nat
          /\ UNCHANGED <<stored, missing, children, solid, lastEvictedEpoch, evictionStep>>
      BY <1>7, AttachMoves DEF Attached, solidifier, memStorage, evictionState, IInv, MemoryOK
    <2>2. \A i \in PositionsIn(b) : i < attaching[b].next
      BY <2>1, ParentsAtPositions DEF PositionsIn
    <2>3. \A x \in stored : \A i \in PositionsIn(x) : HasRegistered(x, i)' => HasRegistered(x, i)
      BY <1>0, <2>1, <2>2 DEF HasRegistered, AttachGoes
    <2> QED
      BY <1>2, <2>1, <2>3
  <1>8. ASSUME NEW b \in BlockID, Queue(b) PROVE RegisteredInv'
    <2>1. \A x \in stored : \A i \in PositionsIn(x) : HasRegistered(x, i)' => HasRegistered(x, i)
      BY <1>0, <1>8, QueueFacts DEF HasRegistered, AttachGoes
    <2> QED
      BY <1>2, <1>8, <2>1, QueueFacts
  <1>9. ASSUME NEW b \in BlockID, Solidify(b) \/ MarkSolid(b) PROVE RegisteredInv'
    BY <1>2, <1>3, <1>9, SolidifyFacts
  <1>10. ASSUME NEW b \in BlockID,
                \/ WalkFutureCone(b) \/ ParentNotFound(b)
                \/ \E p \in BlockID : AddRootBlock(b, p)
         PROVE  RegisteredInv'
    BY <1>2, <1>3, <1>10
    DEF WalkFutureCone, ParentNotFound, AddRootBlock, solidifier, memStorage, evictionState
  <1>11. CASE EvictUntil \/ EvictSolidifier
    <2>1. /\ UNCHANGED <<stored, missing, children, attaching>>
          /\ \/ /\ evictionStep = "idle" /\ lastEvictedEpoch' = lastEvictedEpoch + 1
             \/ evictionStep = "solidifier" /\ evictionStep' = "storage" /\ UNCHANGED lastEvictedEpoch
      BY <1>11 DEF EvictUntil, EvictSolidifier, memStorage
    <2>2. solid' = solid
      BY <1>11 DEF EvictUntil, EvictSolidifier, solidifier, Solidifier!EvictUntil
    <2>3. \A p \in BlockID : Evicted(p) => Evicted(p)'
      BY <2>1, EvictionFacts DEF Evicted
    <2> QED
      BY <1>1, <1>3, <2>1, <2>2, <2>3
  <1>12. CASE EvictStorage
    <2>1. \A p \in BlockID : Evicted(p) => Evicted(p)'
      BY <1>12, StorageFacts DEF Evicted
    <2>2. \A p \in BlockID : \/ Evicted(p)'
                             \/ /\ p \in stored \union missing => p \in stored' \union missing'
                                /\ children[p] \subseteq children'[p]
      BY <1>12, StorageFacts DEF Evicted
    <2>3. stored' \subseteq stored /\ UNCHANGED <<solid, attaching>>
      BY <1>12, StorageFacts
    <2> QED
      BY <1>1, <1>3, <2>1, <2>2, <2>3
  <1>13. CASE UNCHANGED vars
    BY <1>2, <1>3, <1>13 DEF vars, solidifier, memStorage, evictionState
  <1> QED
    BY <1>4, <1>5, <1>6, <1>7, <1>8, <1>9, <1>10, <1>11, <1>12, <1>13 DEF Next, Attach

(* What is registered with an invalid block is found by the walk.          *)
LEMMA WalkFinds ==
  ASSUME IInv, MemoryInv, RegisteredInv, SolidBlocksAreValid,
         NEW b \in stored, NEW i \in PositionsIn(b), HasRegistered(b, i),
         Parents[b][i] \in (stored \union missing) \intersect invalid
  PROVE  b \in children[Parents[b][i]]
  <1>1. Parents[b][i] \notin solid
    BY DEF SolidBlocksAreValid
  <1>2. Parents[b][i] \in BlockID
    BY DEF IInv, MemoryOK
  <1>3. ~Evicted(Parents[b][i])
    BY <1>1, <1>2 DEF MemoryInv, IInv, AttachInv
  <1> QED
    BY <1>1, <1>3 DEF RegisteredInv

-----------------------------------------------------------------------------
(* The solidifier passes over no invalid parent.                           *)
LEMMA Checking ==
  ASSUME IInv, NEW b \in BlockID, Solidify(b) \/ MarkSolid(b),
         NEW x \in BlockID, NEW i \in PositionsIn(x), StillToCheck(x, i),
         Parents[x][i] \in invalid, x \notin invalid'
  PROVE  StillToCheck(x, i)'
  <1>1. /\ UNCHANGED attaching
        /\ \/ CausalOrder!CheckParent(b) \/ CausalOrder!RegisterUnorderedChild(b)
           \/ CausalOrder!SetUnorderedParentsCounter(b) \/ CausalOrder!AllParentsOrdered(b)
           \/ CausalOrder!PropagateOrderToChildren(b) \/ CausalOrder!TriggerChildIfReady(b)
           \/ CausalOrder!TriggerOrderedCallback(b) \/ CausalOrder!EvictionCallback(b)
    BY SameSteps DEF Solidify, MarkSolid
  <1>2. CASE attaching[x].at # "idle"
    BY <1>1, <1>2 DEF StillToCheck
  <1>3. CASE running'[x] = running[x]
    BY <1>1, <1>3 DEF StillToCheck
  <1>4. CASE attaching[x].at = "idle" /\ running'[x] # running[x]
    <2>1. /\ running[x].at \in {"parents", "register"}
          /\ running[x].at = "parents" => running[x].next <= i
          /\ running[x].at = "register" => running[x].next < i
      BY <1>4 DEF StillToCheck
    <2>2. running \in [BlockID -> CausalOrder!Goroutine] /\ running[x].next \in Nat
      BY CausalOrder!Goroutines, CausalOrderAssumptions DEF IInv, CausalOrder!IInv
    <2>3. x = b
      BY <1>1, <1>4, <2>2
      DEF CausalOrder!CheckParent, CausalOrder!RegisterUnorderedChild,
          CausalOrder!SetUnorderedParentsCounter, CausalOrder!AllParentsOrdered,
          CausalOrder!PropagateOrderToChildren, CausalOrder!TriggerChildIfReady,
          CausalOrder!TriggerOrderedCallback, CausalOrder!EvictionCallback, CausalOrder!Release
    <2>4. i \in Nat /\ i <= Len(Parents[x]) /\ Len(Parents[x]) \in Nat
      BY ParentsAtPositions DEF PositionsIn
    <2>5. \/ CausalOrder!CheckParent(x) \/ CausalOrder!RegisterUnorderedChild(x)
      <3>1. running[x].at # "parents" \/ ~(running[x].next > Len(Parents[x]))
        BY <2>1, <2>2, <2>4
      <3> QED
        BY <1>1, <1>4, <2>1, <2>3, <3>1
        DEF CausalOrder!SetUnorderedParentsCounter, CausalOrder!AllParentsOrdered,
            CausalOrder!CheckedAll, CausalOrder!PropagateOrderToChildren,
            CausalOrder!TriggerChildIfReady, CausalOrder!TriggerOrderedCallback,
            CausalOrder!EvictionCallback, CausalOrder!Running, CausalOrder!WriteLocked
    <2>6. CASE CausalOrder!RegisterUnorderedChild(x)
      <3>1. /\ running[x].at = "register"
            /\ running' = [running EXCEPT ![x].at = "parents", ![x].next = @ + 1]
        BY <2>6 DEF CausalOrder!RegisterUnorderedChild, CausalOrder!Running
      <3>2. running'[x].at = "parents" /\ running'[x].next = running[x].next + 1
        BY <2>2, <3>1 DEF CausalOrder!Goroutine
      <3> QED
        BY <2>1, <2>2, <2>4, <3>1, <3>2 DEF StillToCheck
    <2>7. CASE CausalOrder!CheckParent(x)
      <3> DEFINE q == Parents[x][running[x].next]
      <3>1. /\ running[x].at = "parents" /\ q \notin invalid
            /\ \/ running' = [running EXCEPT ![x].next = @ + 1]
               \/ running' = [running EXCEPT ![x].at = "register", ![x].pending = (@ + 1) % 256]
        <4>1. /\ running[x].at = "parents"
              /\ \/ invalid' = invalid \union {x}
                 \/ /\ q \notin invalid
                    /\ \/ running' = [running EXCEPT ![x].next = @ + 1]
                       \/ running' = [running EXCEPT ![x].at = "register", ![x].pending = (@ + 1) % 256]
          BY <2>7 DEF CausalOrder!CheckParent, CausalOrder!Running
        <4> QED
          BY <4>1
      <3>2. running[x].next # i
        BY <3>1
      <3>3. \/ running'[x].at = "parents" /\ running'[x].next = running[x].next + 1
            \/ running'[x].at = "register" /\ running'[x].next = running[x].next
        BY <2>2, <3>1 DEF CausalOrder!Goroutine
      <3> HIDE DEF q
      <3> QED
        BY <2>1, <2>2, <2>4, <3>1, <3>2, <3>3 DEF StillToCheck
    <2> QED
      BY <2>5, <2>6, <2>7
  <1> QED
    BY <1>2, <1>3, <1>4

LEMMA ConeStep ==
  ASSUME IInv, StageInv, MemoryInv, RegisteredInv, ConeInv, SolidBlocksAreValid, [Next]_vars
  PROVE  ConeInv'
  <1>0. /\ stored \subseteq BlockID /\ missing \subseteq BlockID /\ invalidating \subseteq invalid
        /\ \A b \in BlockID : \A i \in PositionsIn(b) : Parents[b][i] \in BlockID
    BY ParentsAtPositions DEF IInv, MemoryOK
  (* A step that stores nothing, and marks nothing but for the walk.        *)
  <1>1. ASSUME stored' \subseteq stored, missing' \subseteq missing,
               invalid \subseteq invalid',
               invalidating \union (invalid' \ invalid) \subseteq invalidating',
               \A b \in BlockID : b \in stored \ invalid' => \A i \in PositionsIn(b) :
                 StillToCheck(b, i) /\ Parents[b][i] \in invalid => StillToCheck(b, i)'
        PROVE  ConeInv'
    <2> SUFFICES ASSUME NEW b \in stored', NEW i \in PositionsIn(b), b \notin invalid',
                        Parents[b][i] \in (stored' \union missing') \intersect invalid',
                        Parents[b][i] \notin invalidating'
                 PROVE  StillToCheck(b, i)'
      BY DEF ConeInv, PositionsIn
    <2>1. b \in BlockID /\ b \in stored \ invalid'
      BY <1>0, <1>1
    <2>2. Parents[b][i] \in (stored \union missing) \intersect invalid
      BY <1>1
    <2>3. StillToCheck(b, i)
      BY <1>1, <2>1, <2>2 DEF ConeInv
    <2> QED
      BY <1>1, <2>1, <2>2, <2>3
  <1>2. UNCHANGED <<attaching, running>> => \A b, i : StillToCheck(b, i) => StillToCheck(b, i)'
    BY DEF StillToCheck
  <1>3. ASSUME NEW b \in BlockID, CanAttach(b) PROVE ConeInv'
    <2>1. \A x \in BlockID : \A i \in PositionsIn(x) : StillToCheck(x, i) => StillToCheck(x, i)'
      BY <1>2, <1>3, CanAttachFacts DEF StillToCheck, AttachGoes
    <2> QED
      BY <1>1, <1>3, <2>1, CanAttachFacts
  <1>4. ASSUME NEW b \in BlockID, Store(b) PROVE ConeInv'
    <2>1. /\ AttachGoes(b, "children", attaching[b].next) /\ attaching[b].at = "store"
          /\ stored' = stored \union {b} /\ missing' = missing \ {b}
          /\ UNCHANGED <<invalid, invalidating, running>>
      BY <1>4, AttachMoves DEF Store, solidifier
    <2> SUFFICES ASSUME NEW x \in stored', NEW i \in PositionsIn(x), x \notin invalid,
                        Parents[x][i] \in (stored' \union missing') \intersect invalid,
                        Parents[x][i] \notin invalidating
                 PROVE  StillToCheck(x, i)'
      BY <2>1 DEF ConeInv, PositionsIn
    <2>2. CASE x = b
      BY <2>1, <2>2 DEF StillToCheck, AttachGoes
    <2>3. CASE x # b
      <3>1. x \in BlockID /\ x \in stored /\ (StillToCheck(x, i) => StillToCheck(x, i)')
        BY <1>0, <2>1, <2>3 DEF StillToCheck, AttachGoes
      <3>2. CASE Parents[x][i] \in stored \union missing
        BY <3>1, <3>2 DEF ConeInv
      <3>3. CASE Parents[x][i] \notin stored \union missing
        <4>1. Parents[x][i] = b /\ ~Evicted(b) /\ b \notin solid
          BY <2>1, <3>3 DEF IInv, AttachInv, SolidBlocksAreValid
        <4>2. ~HasRegistered(x, i)
          BY <3>1, <3>3, <4>1 DEF RegisteredInv
        <4>3. attaching[x].at # "idle"
          BY <4>2 DEF HasRegistered
        <4> QED
          BY <3>1, <4>3 DEF StillToCheck
      <3> QED
        BY <3>2, <3>3
    <2> QED
      BY <2>2, <2>3
  <1>5. ASSUME NEW b \in BlockID, RegisterChild(b) PROVE ConeInv'
    <2> DEFINE q == Parents[b][attaching[b].next]
    <2>1. /\ AttachGoes(b, "children", attaching[b].next + 1) /\ attaching[b].at = "children"
          /\ missing' \subseteq missing \union {q} /\ attaching[b].next <= Len(Parents[b])
          /\ UNCHANGED <<stored, invalid, invalidating, running>>
      BY <1>5, AttachMoves DEF RegisterChild, solidifier
    <2>2. q \in ToSet(Parents[b])
      <3>1. attaching[b].next \in Nat /\ attaching[b].next # 0
        BY <2>1 DEF IInv, MemoryOK, AttachInv
      <3>2. attaching[b].next \in PositionsIn(b)
        BY <2>1, <3>1, ParentsAtPositions DEF PositionsIn
      <3> QED
        BY <3>2, ParentsAtPositions
    <2>3. q \in solid \/ ~Evicted(q)
      BY <2>1, <2>2 DEF MemoryInv
    <2> HIDE DEF q
    <2> SUFFICES ASSUME NEW x \in stored, NEW i \in PositionsIn(x), x \notin invalid,
                        Parents[x][i] \in (stored \union missing') \intersect invalid,
                        Parents[x][i] \notin invalidating
                 PROVE  StillToCheck(x, i)'
      BY <2>1 DEF ConeInv, PositionsIn
    <2>4. x \in BlockID /\ (StillToCheck(x, i) => StillToCheck(x, i)')
      BY <1>0, <2>1 DEF StillToCheck, AttachGoes
    <2>5. CASE Parents[x][i] \in stored \union missing
      BY <2>4, <2>5 DEF ConeInv
    <2>6. CASE Parents[x][i] \notin stored \union missing
      <3>1. Parents[x][i] = q /\ q \notin solid
        BY <2>1, <2>6 DEF SolidBlocksAreValid
      <3>2. ~HasRegistered(x, i)
        BY <2>3, <2>6, <3>1 DEF RegisteredInv
      <3>3. attaching[x].at # "idle"
        BY <3>2 DEF HasRegistered
      <3> QED
        BY <2>4, <3>3 DEF StillToCheck
    <2> QED
      BY <2>5, <2>6
  <1>6. ASSUME NEW b \in BlockID, Attached(b) PROVE ConeInv'
    <2>1. /\ AttachGoes(b, "queue", attaching[b].next)
          /\ UNCHANGED <<stored, missing, invalid, invalidating, running>>
      BY <1>6, AttachMoves DEF Attached, solidifier, memStorage
    <2>2. \A x \in BlockID : \A i \in PositionsIn(x) : StillToCheck(x, i) => StillToCheck(x, i)'
      BY <2>1 DEF StillToCheck, AttachGoes
    <2> QED
      BY <1>1, <2>1, <2>2
  <1>7. ASSUME NEW b \in BlockID, Queue(b) PROVE ConeInv'
    <2>1. running \in [BlockID -> CausalOrder!Goroutine]
      BY CausalOrder!Goroutines, CausalOrderAssumptions DEF IInv, CausalOrder!IInv
    <2>2. \/ b \in solid /\ UNCHANGED running
          \/ b \in invalid' /\ UNCHANGED running
          \/ running' = [running EXCEPT ![b] =
               [at |-> "parents", next |-> 1, pending |-> 0, holdsParents |-> TRUE]]
      BY <1>7, QueueFacts DEF CausalOrder!Queue
    <2>3. ASSUME NEW x \in BlockID, x \notin invalid', NEW i \in PositionsIn(x), StillToCheck(x, i),
                 Parents[x][i] \in invalid
          PROVE  StillToCheck(x, i)'
      <3>1. CASE x # b
        BY <1>7, <2>1, <2>2, <2>3, <3>1, QueueFacts DEF StillToCheck, AttachGoes
      <3>2. CASE x = b
        <4>1. b \notin solid
          <5>1. Parents[b][i] \notin solid /\ Parents[b][i] \in ToSet(Parents[b])
            BY <2>3, <3>2, ParentsAtPositions DEF SolidBlocksAreValid
          <5> QED
            BY <5>1, SolidParents
        <4>2. running'[b].at = "parents" /\ running'[b].next = 1
          BY <2>1, <2>2, <2>3, <3>2, <4>1
        <4> QED
          BY <3>2, <4>2 DEF StillToCheck, PositionsIn
      <3> QED
        BY <3>1, <3>2
    <2> QED
      BY <1>1, <1>7, <2>3, QueueFacts
  <1>8. ASSUME NEW b \in BlockID, Solidify(b) \/ MarkSolid(b) PROVE ConeInv'
    <2>1. \A x \in BlockID : x \in stored \ invalid' => \A i \in PositionsIn(x) :
            StillToCheck(x, i) /\ Parents[x][i] \in invalid => StillToCheck(x, i)'
      BY <1>8, Checking
    <2> QED
      BY <1>1, <1>8, <2>1, SolidifyFacts
  <1>9. ASSUME NEW b \in BlockID, WalkFutureCone(b) PROVE ConeInv'
    <2>1. /\ b \in invalidating /\ invalid' = invalid \union children[b]
          /\ invalidating' = (invalidating \ {b}) \union (children[b] \ invalid)
          /\ UNCHANGED <<stored, missing, attaching, running>>
      BY <1>9 DEF WalkFutureCone, solidifier, memStorage
    <2> SUFFICES ASSUME NEW x \in stored, NEW i \in PositionsIn(x), x \notin invalid',
                        Parents[x][i] \in (stored \union missing) \intersect invalid',
                        Parents[x][i] \notin invalidating', ~StillToCheck(x, i)
                 PROVE  FALSE
      BY <1>2, <2>1 DEF ConeInv, PositionsIn
    <2>2. Parents[x][i] \in invalid
      BY <2>1
    <2>3. Parents[x][i] = b
      BY <2>1, <2>2 DEF ConeInv
    <2>4. HasRegistered(x, i)
      BY DEF StillToCheck, HasRegistered
    <2>5. x \in children[b]
      BY <2>2, <2>3, <2>4, WalkFinds
    <2> QED
      BY <2>1, <2>5
  <1>10. ASSUME NEW b \in BlockID, ParentNotFound(b) \/ \E p \in BlockID : AddRootBlock(b, p)
         PROVE  ConeInv'
    BY <1>1, <1>2, <1>10 DEF ParentNotFound, AddRootBlock, solidifier, memStorage
  <1>11. CASE EvictUntil \/ UNCHANGED vars
    BY <1>1, <1>2, <1>11 DEF EvictUntil, vars, solidifier, memStorage
  <1>12. CASE EvictSolidifier
    <2>1. UNCHANGED <<stored, missing, attaching, invalidating>> /\ Solidifier!EvictUntil(lastEvictedEpoch)
      BY <1>12 DEF EvictSolidifier, memStorage
    <2>2. UNCHANGED <<invalid, running>>
      BY <2>1 DEF Solidifier!EvictUntil
    <2> QED
      BY <1>1, <1>2, <2>1, <2>2
  <1>13. CASE EvictStorage
    <2>1. /\ stored' \subseteq stored /\ missing' \subseteq missing
          /\ UNCHANGED <<attaching, running, invalid, invalidating>>
      BY <1>13, StorageFacts
    <2> QED
      BY <1>1, <1>2, <2>1
  <1> QED
    BY <1>3, <1>4, <1>5, <1>6, <1>7, <1>8, <1>9, <1>10, <1>11, <1>12, <1>13 DEF Next, Attach

-----------------------------------------------------------------------------
(* Why a block is invalid: it was refused when it first came, or it has an *)
(* invalid parent, or the solidifier has given its verdict.                *)
RefusedBefore(b) == attaching[b].at = "idle" /\ queued[b] = 0 /\ b \notin stored

HasInvalidParent(b) == ToSet(Parents[b]) \intersect invalid # {}

ReasonInv ==
  \A b \in invalid : RefusedBefore(b) \/ HasInvalidParent(b) \/ CausalOrder!Final(b)

(* Every step is one of the solidifier or leaves it alone.                 *)
LEMMA OtherSteps ==
  ASSUME IInv, [Next]_vars, ~CausalOrder!Next
  PROVE  /\ UNCHANGED solidifier
         /\ invalid' = invalid \/ \E b \in BlockID : CanAttach(b) \/ WalkFutureCone(b)
  <1>1. CASE UNCHANGED vars
    BY <1>1 DEF vars
  <1>2. CASE Next
    <2>1. ASSUME NEW x \in BlockID PROVE ~Queue(x) /\ ~Solidify(x) /\ ~MarkSolid(x)
      BY <1>2, SameSteps
      DEF Next, Queue, Solidify, MarkSolid, CausalOrder!Next, CausalOrder!Proceed, CausalOrder!Evict
    <2>2. ~EvictSolidifier
      <3> SUFFICES ASSUME EvictSolidifier PROVE FALSE
        OBVIOUS
      <3>1. /\ Solidifier!EvictUntil(lastEvictedEpoch) /\ evictionStep = "solidifier"
            /\ ~crashed
        BY <1>2 DEF EvictSolidifier, Next
      <3>2. lastEvictedEpoch \in 1..LastIndex
        BY <3>1, EvictionFacts DEF IInv, EvictionInv
      <3> QED
        BY <3>1, <3>2, SameEviction DEF CausalOrder!Next, CausalOrder!Evict
    <2> QED
      BY <1>2, <2>1, <2>2
      DEF Next, Attach, CanAttach, Store, RegisterChild, Attached, ParentNotFound,
          WalkFutureCone, AddRootBlock, EvictUntil, EvictStorage
  <1> QED
    BY <1>1, <1>2

LEMMA InvalidGrows ==
  ASSUME IInv, [Next]_vars
  PROVE  invalid \subseteq invalid'
  <1>1. ASSUME NEW b \in BlockID,
               Queue(b) \/ Solidify(b) \/ MarkSolid(b) \/ CanAttach(b) \/ WalkFutureCone(b)
        PROVE  invalid \subseteq invalid'
    BY <1>1, QueueFacts, SolidifyFacts, CanAttachFacts DEF WalkFutureCone
  <1>2. CASE EvictSolidifier
    BY <1>2 DEF EvictSolidifier, Solidifier!EvictUntil
  <1> QED
    BY <1>1, <1>2
    DEF Next, Attach, Store, RegisterChild, Attached, ParentNotFound, AddRootBlock,
        EvictUntil, EvictStorage, vars

(* The verdict of the solidifier stays what it is.                         *)
LEMMA FinalStays ==
  ASSUME IInv, NEW b \in BlockID, CausalOrder!Final(b), [Next]_vars,
         b \in invalid \/ CausalOrder!Next
  PROVE  CausalOrder!Final(b)'
  <1>1. CASE CausalOrder!Next
    <2>1. CausalOrder!QueuedOnce
      BY DEF CausalOrder!QueuedOnce
    <2> QED
      BY <1>1, <2>1, CausalOrder!Inductive, CausalOrderAssumptions DEF IInv
  <1>2. CASE ~CausalOrder!Next
    <2>1. UNCHANGED solidifier /\ invalid \subseteq invalid'
      BY <1>2, OtherSteps, InvalidGrows
    <2>2. crashed' \in BOOLEAN /\ Known' \subseteq BlockID /\ invalid' \subseteq BlockID
      <3>1. IInv'
        BY Inductive
      <3>2. Known' \subseteq BlockID
        BY <3>1 DEF IInv, MemoryOK, Known
      <3> QED
        BY <3>1, <3>2 DEF IInv, CausalOrder!IInv, CausalOrder!TypeOK
    <2>3. CausalOrder!Environment
      BY <2>1, <2>2 DEF CausalOrder!Environment, CausalOrder!storage, solidifier
    <2> QED
      BY <1>2, <2>3, CausalOrder!EnvironmentKeepsFinal, CausalOrderAssumptions DEF IInv
  <1> QED
    BY <1>1, <1>2

LEMMA RefusedStays ==
  ASSUME IInv, StageInv, NoRefusedBlockReturns', [Next]_vars,
         NEW b \in BlockID, b \in invalid, RefusedBefore(b)
  PROVE  RefusedBefore(b)'
  <1>0. attaching[b].at = "idle" /\ queued[b] = 0 /\ b \notin stored /\ b \in invalid'
    BY InvalidGrows DEF RefusedBefore
  <1>1. ASSUME NEW x \in BlockID, CanAttach(x) PROVE RefusedBefore(b)'
    <2>1. UNCHANGED <<stored, queued>>
      BY <1>1, CanAttachFacts
    <2>2. attaching'[b].at = "idle"
      <3>1. CASE x # b
        BY <1>0, <1>1, <3>1, CanAttachFacts DEF AttachGoes
      <3>2. CASE x = b
        <4>1. attaching'[b].at # "store"
          BY <1>0 DEF NoRefusedBlockReturns
        <4> QED
          BY <1>0, <1>1, <3>2, <4>1, CanAttachFacts DEF AttachGoes
      <3> QED
        BY <3>1, <3>2
    <2> QED
      BY <1>0, <2>1, <2>2 DEF RefusedBefore
  <1>2. ASSUME NEW x \in BlockID, Store(x) \/ RegisterChild(x) \/ Attached(x) \/ Queue(x)
        PROVE  RefusedBefore(b)'
    <2>1. x # b
      BY <1>0, <1>2 DEF Store, RegisterChild, Attached, Queue
    <2>2. attaching'[b] = attaching[b]
      BY <1>2, <2>1, AttachMoves DEF AttachGoes
    <2>3. stored' \subseteq stored \union {x}
      BY <1>2 DEF Store, RegisterChild, Attached, Queue, memStorage
    <2>4. queued'[b] = queued[b]
      BY <1>2, <2>1, QueueFacts DEF Store, RegisterChild, Attached, solidifier
    <2> QED
      BY <1>0, <2>1, <2>2, <2>3, <2>4 DEF RefusedBefore
  <1>3. ASSUME NEW x \in BlockID, Solidify(x) \/ MarkSolid(x) PROVE RefusedBefore(b)'
    BY <1>0, <1>3, SolidifyFacts DEF RefusedBefore
  <1>4. ASSUME NEW x \in BlockID,
               \/ WalkFutureCone(x) \/ ParentNotFound(x)
               \/ \E p \in BlockID : AddRootBlock(x, p)
        PROVE  RefusedBefore(b)'
    BY <1>0, <1>4 DEF WalkFutureCone, ParentNotFound, AddRootBlock, solidifier, memStorage, RefusedBefore
  <1>5. CASE EvictUntil \/ UNCHANGED vars
    BY <1>0, <1>5 DEF EvictUntil, vars, solidifier, memStorage, RefusedBefore
  <1>6. CASE EvictSolidifier
    BY <1>0, <1>6 DEF EvictSolidifier, Solidifier!EvictUntil, memStorage, RefusedBefore
  <1>7. CASE EvictStorage
    BY <1>0, <1>7, StorageFacts DEF RefusedBefore
  <1> QED
    BY <1>1, <1>2, <1>3, <1>4, <1>5, <1>6, <1>7 DEF Next, Attach

LEMMA ReasonStep ==
  ASSUME IInv, StageInv, ReasonInv, SolidBlocksAreValid, NoRefusedBlockReturns', [Next]_vars
  PROVE  SolidBlocksAreValid' /\ ReasonInv'
  <1>0. invalid \subseteq BlockID /\ IInv' /\ invalid' \subseteq BlockID /\ invalid \subseteq invalid'
    <2>1. IInv'
      BY Inductive
    <2> QED
      BY <2>1, InvalidGrows DEF IInv, CausalOrder!IInv, CausalOrder!TypeOK
  (* Who is marked by a step other than the solidifier's.                   *)
  <1>1. ASSUME NEW b \in invalid' \ invalid, ~CausalOrder!Next
        PROVE  b \notin solid' /\ (RefusedBefore(b)' \/ HasInvalidParent(b)')
    <2>1. solid' = solid /\ \E x \in BlockID : CanAttach(x) \/ WalkFutureCone(x)
      BY <1>1, OtherSteps DEF solidifier
    <2>2. PICK x \in BlockID : CanAttach(x) \/ WalkFutureCone(x)
      BY <2>1
    <2>3. CASE CanAttach(x)
      <3>1. /\ x = b /\ attaching[b].at = "idle" /\ queued[b] = 0 /\ b \notin stored
            /\ b \notin Genesis /\ UNCHANGED <<attaching, queued, stored>>
        BY <1>1, <2>3, CanAttachFacts
      <3>2. b \notin solid
        BY <3>1 DEF IInv, CausalOrder!IInv, CausalOrder!Counted, CausalOrder!Untouched
      <3> QED
        BY <2>1, <3>1, <3>2 DEF RefusedBefore
    <2>4. CASE WalkFutureCone(x)
      <3>1. b \in children[x] /\ x \in invalid
        BY <1>1, <2>4 DEF WalkFutureCone, IInv, MemoryOK
      <3>2. x \in ToSet(Parents[b]) /\ b \in BlockID
        BY <1>0, <3>1 DEF StageInv
      <3>3. b \notin solid
        BY <3>1, <3>2, SolidParents DEF SolidBlocksAreValid
      <3> QED
        BY <1>0, <2>1, <3>1, <3>2, <3>3 DEF HasInvalidParent
    <2> QED
      BY <2>2, <2>3, <2>4
  (* The solidifier gives a verdict only on what has none.                  *)
  <1>2. ASSUME NEW b \in invalid', CausalOrder!Next
        PROVE  b \notin solid' /\ (RefusedBefore(b)' \/ HasInvalidParent(b)' \/ CausalOrder!Final(b)')
    <2>1. CASE CausalOrder!Final(b)
      <3>1. CausalOrder!Final(b)'
        BY <1>0, <1>2, <2>1, FinalStays
      <3> QED
        BY <1>2, <3>1 DEF CausalOrder!Final
    <2>2. CASE ~CausalOrder!Final(b)
      <3>1. b \in invalid /\ b \in BlockID
        BY <1>0, <2>2 DEF CausalOrder!Final
      <3>2. RefusedBefore(b)' \/ HasInvalidParent(b)'
        <4>1. RefusedBefore(b) \/ HasInvalidParent(b)
          BY <2>2, <3>1 DEF ReasonInv
        <4> QED
          BY <1>0, <3>1, <4>1, RefusedStays DEF HasInvalidParent
      <3>3. b \notin solid
        BY <3>1 DEF SolidBlocksAreValid
      <3>4. ASSUME CausalOrder!TriggerOrderedCallback(b) PROVE FALSE
        <4>1. CausalOrder!Running(b, "order")
          BY <3>4 DEF CausalOrder!TriggerOrderedCallback
        <4>2. queued[b] # 0
          BY <3>1, <4>1 DEF IInv, CausalOrder!IInv, CausalOrder!Locked, CausalOrder!Running
        <4>3. CausalOrder!NotDone(b) = {}
          BY <3>1, <4>1 DEF IInv, CausalOrder!IInv, CausalOrder!Counted, CausalOrder!Settled
        <4>4. \A p \in ToSet(Parents[b]) : p \in solid
          <5> SUFFICES ASSUME NEW p \in ToSet(Parents[b]) PROVE p \in solid
            OBVIOUS
          <5>1. PICK i \in PositionsIn(b) : p = Parents[b][i]
            BY <3>1, ParentsAtPositions
          <5> QED
            BY <4>3, <5>1 DEF CausalOrder!NotDone, CausalOrder!Positions, CausalOrder!Done, PositionsIn
        <4> QED
          BY <2>2, <3>1, <4>2, <4>4
          DEF ReasonInv, RefusedBefore, HasInvalidParent, SolidBlocksAreValid
      <3>5. b \notin solid'
        <4>1. \A x \in BlockID : CausalOrder!TriggerOrderedCallback(x) => x # b
          BY <3>4
        <4> QED
          BY <1>2, <3>3, <4>1
          DEF CausalOrder!Next, CausalOrder!Proceed, CausalOrder!Evict, CausalOrder!Queue,
              CausalOrder!CheckParent, CausalOrder!RegisterUnorderedChild,
              CausalOrder!SetUnorderedParentsCounter, CausalOrder!AllParentsOrdered,
              CausalOrder!TriggerOrderedCallback, CausalOrder!PropagateOrderToChildren,
              CausalOrder!TriggerChildIfReady, CausalOrder!EvictUntil,
              CausalOrder!EvictionCallback, CausalOrder!Forget
      <3> QED
        BY <3>2, <3>5
    <2> QED
      BY <2>1, <2>2
  <1>3. ASSUME NEW b \in invalid, ~CausalOrder!Next
        PROVE  b \notin solid' /\ (RefusedBefore(b)' \/ HasInvalidParent(b)' \/ CausalOrder!Final(b)')
    <2>1. b \notin solid'
      BY <1>3, OtherSteps DEF solidifier, SolidBlocksAreValid
    <2> QED
      BY <1>0, <1>3, <2>1, RefusedStays, FinalStays DEF ReasonInv, HasInvalidParent
  <1> QED
    BY <1>1, <1>2, <1>3 DEF SolidBlocksAreValid, ReasonInv

-----------------------------------------------------------------------------
(* Until the first epoch is evicted a parent that is too old is one of the *)
(* epoch of the genesis: it does not become a root block, and who refers   *)
(* to it never arrives.                                                    *)
HasAncientParent(b) == \E p \in ToSet(Parents[b]) \ Genesis : Index[p] = 0

AncientInv ==
  /\ lastEvictedIndex = 0 => evicting = {}
  /\ lastEvictedEpoch = 0 =>
       \A b \in BlockID :
         /\ attaching[b].at = "store" => ~HasAncientParent(b)
         /\ b \in invalid /\ queued[b] = 0 /\ attaching[b].at \in {"idle", "store"} =>
              HasAncientParent(b)

LEMMA AncientParents ==
  ASSUME IInv, lastEvictedEpoch = 0, NEW b \in BlockID
  PROVE  TooOldParents(b) # {} <=> HasAncientParent(b)
  <1> SUFFICES ASSUME NEW p \in ToSet(Parents[b])
               PROVE  InEvictedEpoch(p) /\ ~IsRootBlock(p) <=> p \notin Genesis /\ Index[p] = 0
    BY DEF TooOldParents, HasAncientParent
  <1>1. Index[p] \in Nat /\ RootBlocksEvictionDelay \in Nat
    BY ParentsAtPositions, EvictionFacts, BlockDAGConstants
  <1>2. DelayedBlockEvictionThreshold(lastEvictedEpoch) = 0
    BY <1>1 DEF DelayedBlockEvictionThreshold
  <1> QED
    BY <1>1, <1>2 DEF InEvictedEpoch, IsRootBlock

LEMMA EvictingFacts ==
  ASSUME IInv, lastEvictedIndex = 0 => evicting = {}, [Next]_vars
  PROVE  /\ (lastEvictedIndex = 0 => evicting = {})'
         /\ lastEvictedEpoch' = 0 => lastEvictedEpoch = 0 /\ lastEvictedIndex = 0
  <1>1. ASSUME NEW b \in BlockID, Queue(b) \/ Solidify(b) \/ MarkSolid(b)
        PROVE  /\ lastEvictedIndex' = lastEvictedIndex /\ evicting' \subseteq evicting
               /\ lastEvictedEpoch' = lastEvictedEpoch
    BY <1>1, QueueFacts, SolidifyFacts
  <1>2. ASSUME EvictSolidifier
        PROVE  lastEvictedIndex' # 0 /\ lastEvictedEpoch' = lastEvictedEpoch
    <2>1. /\ evictionStep = "solidifier" /\ lastEvictedEpoch' = lastEvictedEpoch
          /\ Solidifier!EvictUntil(lastEvictedEpoch)
      BY <1>2 DEF EvictSolidifier
    <2> QED
      BY <2>1, EvictionFacts DEF IInv, EvictionInv, Solidifier!EvictUntil
  <1>3. EvictUntil => lastEvictedEpoch' # 0 /\ UNCHANGED <<lastEvictedIndex, evicting>>
    BY EvictionFacts DEF EvictUntil, solidifier
  <1>4. ASSUME \/ UNCHANGED vars \/ EvictStorage
               \/ \E b \in BlockID :
                    \/ CanAttach(b) \/ Store(b) \/ RegisterChild(b) \/ Attached(b)
                    \/ ParentNotFound(b) \/ WalkFutureCone(b)
                    \/ \E p \in BlockID : AddRootBlock(b, p)
        PROVE  UNCHANGED <<lastEvictedIndex, evicting, lastEvictedEpoch>>
    BY <1>4
    DEF vars, EvictStorage, CanAttach, Store, RegisterChild, Attached, ParentNotFound,
        WalkFutureCone, AddRootBlock, solidifier, evictionState
  <1>5. lastEvictedEpoch = 0 => lastEvictedIndex = 0
    BY EvictionFacts DEF IInv, EvictionInv
  <1> QED
    BY <1>1, <1>2, <1>3, <1>4, <1>5 DEF Next, Attach

LEMMA AncientStep ==
  ASSUME IInv, StageInv, AncientInv, [Next]_vars
  PROVE  AncientInv'
  <1> SUFFICES ASSUME lastEvictedEpoch' = 0, NEW b \in BlockID
               PROVE  /\ attaching'[b].at = "store" => ~HasAncientParent(b)
                      /\ b \in invalid' /\ queued'[b] = 0 /\ attaching'[b].at \in {"idle", "store"} =>
                           HasAncientParent(b)
    BY EvictingFacts DEF AncientInv, HasAncientParent
  <1>0. /\ lastEvictedEpoch = 0 /\ evicting = {}
        /\ attaching[b].at = "store" => ~HasAncientParent(b)
        /\ b \in invalid /\ queued[b] = 0 /\ attaching[b].at \in {"idle", "store"} => HasAncientParent(b)
    BY EvictingFacts DEF AncientInv
  <1>1. ASSUME NEW x \in BlockID, CanAttach(x)
        PROVE  /\ attaching'[b].at = "store" => ~HasAncientParent(b)
               /\ b \in invalid' /\ queued'[b] = 0 /\ attaching'[b].at \in {"idle", "store"} =>
                    HasAncientParent(b)
    BY <1>0, <1>1, AncientParents, CanAttachFacts DEF AttachGoes
  <1>2. ASSUME NEW x \in BlockID, Store(x) \/ RegisterChild(x) \/ Attached(x)
        PROVE  /\ attaching'[b].at = "store" => ~HasAncientParent(b)
               /\ b \in invalid' /\ queued'[b] = 0 /\ attaching'[b].at \in {"idle", "store"} =>
                    HasAncientParent(b)
    <2>1. /\ \A y \in BlockID \ {x} : attaching'[y] = attaching[y]
          /\ attaching'[x].at \in {"children", "queue"}
          /\ UNCHANGED <<invalid, queued>>
      BY <1>2, AttachMoves DEF AttachGoes, Store, RegisterChild, Attached, solidifier
    <2> QED
      BY <1>0, <2>1
  <1>3. ASSUME NEW x \in BlockID, Queue(x) \/ Solidify(x) \/ MarkSolid(x)
        PROVE  /\ attaching'[b].at = "store" => ~HasAncientParent(b)
               /\ b \in invalid' /\ queued'[b] = 0 /\ attaching'[b].at \in {"idle", "store"} =>
                    HasAncientParent(b)
    <2>1. /\ attaching'[b].at = "store" => attaching'[b] = attaching[b]
          /\ queued'[b] = 0 => queued[b] = 0 /\ attaching'[b] = attaching[b]
      BY <1>3, QueueFacts, SolidifyFacts DEF AttachGoes
    <2>2. b \in invalid' /\ queued'[b] = 0 => b \in invalid
      <3> SUFFICES ASSUME b \in invalid' \ invalid PROVE queued'[b] # 0
        OBVIOUS
      <3>1. CASE Queue(x)
        <4>1. x = b
          BY <1>3, <3>1, QueueFacts DEF CausalOrder!Queue
        <4> QED
          BY <3>1, <4>1, QueueFacts
      <3>2. CASE Solidify(x) \/ MarkSolid(x)
        <4>1. \/ CausalOrder!CheckParent(x) \/ CausalOrder!RegisterUnorderedChild(x)
              \/ CausalOrder!SetUnorderedParentsCounter(x) \/ CausalOrder!AllParentsOrdered(x)
              \/ CausalOrder!PropagateOrderToChildren(x) \/ CausalOrder!TriggerChildIfReady(x)
              \/ CausalOrder!TriggerOrderedCallback(x) \/ CausalOrder!EvictionCallback(x)
          BY <3>2, SameSteps DEF Solidify, MarkSolid
        <4>2. x = b /\ ~CausalOrder!Running(b, "idle")
          BY <1>0, <4>1
          DEF CausalOrder!CheckParent, CausalOrder!RegisterUnorderedChild,
              CausalOrder!SetUnorderedParentsCounter, CausalOrder!AllParentsOrdered,
              CausalOrder!PropagateOrderToChildren, CausalOrder!TriggerChildIfReady,
              CausalOrder!TriggerOrderedCallback, CausalOrder!EvictionCallback,
              CausalOrder!Running
        <4>3. queued[b] # 0
          BY <4>2 DEF IInv, CausalOrder!IInv, CausalOrder!Locked
        <4> QED
          BY <3>2, <4>3, SolidifyFacts
      <3> QED
        BY <1>3, <3>1, <3>2
    <2> QED
      BY <1>0, <2>1, <2>2
  <1>4. ASSUME NEW x \in BlockID, WalkFutureCone(x)
        PROVE  /\ attaching'[b].at = "store" => ~HasAncientParent(b)
               /\ b \in invalid' /\ queued'[b] = 0 /\ attaching'[b].at \in {"idle", "store"} =>
                    HasAncientParent(b)
    BY <1>0, <1>4 DEF WalkFutureCone, StageInv, solidifier
  <1>5. ASSUME \/ UNCHANGED vars \/ EvictUntil \/ EvictStorage
               \/ \E x \in BlockID : \/ ParentNotFound(x)
                                     \/ \E p \in BlockID : AddRootBlock(x, p)
        PROVE  UNCHANGED <<attaching, invalid, queued>>
    BY <1>5 DEF vars, EvictUntil, EvictStorage, ParentNotFound, AddRootBlock, solidifier
  <1>6. EvictSolidifier => UNCHANGED <<attaching, invalid, queued>>
    BY DEF EvictSolidifier, Solidifier!EvictUntil
  <1> QED
    BY <1>0, <1>1, <1>2, <1>3, <1>4, <1>5, <1>6 DEF Next, Attach

LEMMA NoReturnAtFirst ==
  ASSUME StageInv, AncientInv, lastEvictedEpoch = 0
  PROVE  NoRefusedBlockReturns
  BY DEF StageInv, AncientInv, NoRefusedBlockReturns

-----------------------------------------------------------------------------
MarkingInv == StageInv /\ MemoryInv /\ RegisteredInv /\ AncientInv

WalkInv == SolidBlocksAreValid /\ ReasonInv /\ ConeInv

LEMMA InitMarkingInv == Init => MarkingInv /\ WalkInv
  <1> SUFFICES ASSUME Init PROVE MarkingInv /\ WalkInv
    OBVIOUS
  <1>1. \A b \in BlockID : attaching[b].at = "idle" /\ children[b] = {}
    BY DEF Init, NotAttaching
  <1>2. /\ stored = {} /\ missing = {} /\ invalid = {} /\ rootBlocks = {} /\ evicting = {}
    BY DEF Init
  <1>3. StageInv /\ MemoryInv /\ RegisteredInv /\ AncientInv
    BY <1>1, <1>2 DEF StageInv, MemoryInv, RegisteredInv, AncientInv
  <1> QED
    BY <1>2, <1>3 DEF MarkingInv, WalkInv, SolidBlocksAreValid, ReasonInv, ConeInv

LEMMA MarkingInvariant == Spec => [](IInv /\ MarkingInv)
  <1>1. IInv /\ MarkingInv /\ [Next]_vars => IInv' /\ MarkingInv'
    BY Inductive, StageStep, MemoryStep, RegisteredStep, AncientStep DEF MarkingInv
  <1> QED
    BY <1>1, InitIInv, InitMarkingInv, PTL DEF Spec

LEMMA WalkStays == IInv /\ MarkingInv /\ WalkInv /\ NoRefusedBlockReturns' /\ [Next]_vars => WalkInv'
  BY ReasonStep, ConeStep DEF MarkingInv, WalkInv

LEMMA QuietConesAreMarked ==
  ASSUME IInv, WalkInv
  PROVE  InvalidFutureCone
  <1> SUFFICES ASSUME Quiet, NEW b \in stored,
                      NEW p \in ToSet(Parents[b]) \intersect (stored \union missing) \intersect invalid
               PROVE  b \in invalid
    BY DEF InvalidFutureCone
  <1>1. b \in BlockID
    BY DEF IInv, MemoryOK
  <1>2. PICK i \in PositionsIn(b) : p = Parents[b][i]
    BY <1>1, ParentsAtPositions
  <1>3. ~StillToCheck(b, i) /\ invalidating = {}
    BY <1>1 DEF Quiet, StillToCheck, Solidifier!Running
  <1> QED
    BY <1>2, <1>3 DEF WalkInv, ConeInv

(* Invalidity reaches the whole future cone, whatever was attached while   *)
(* the walk of SetInvalid was on its way: a child that registers with its  *)
(* parent in time is found by the walk, and any other finds the mark when  *)
(* the solidifier looks at its parents.  Provided that no block returns    *)
(* that was refused because of a parent that was too old: the solidifier   *)
(* would make it solid although it is marked.                              *)
THEOREM InvalidityReachesTheCone ==
  Spec /\ []NoRefusedBlockReturns => []InvalidFutureCone
  <1>1. IInv /\ WalkInv => InvalidFutureCone
    BY QuietConesAreMarked
  <1> QED
    BY <1>1, InitMarkingInv, MarkingInvariant, WalkStays, PTL DEF Spec

(* Until the first epoch is evicted no such block returns.                 *)
THEOREM InvalidityReachesTheConeAtFirst ==
  Spec => [](lastEvictedEpoch = 0 => InvalidFutureCone)
  <1> DEFINE FirstInv == lastEvictedEpoch = 0 => WalkInv
  <1>1. Init => FirstInv
    BY InitMarkingInv
  <1>2. IInv /\ MarkingInv /\ IInv' /\ MarkingInv' /\ FirstInv /\ [Next]_vars => FirstInv'
    <2> SUFFICES ASSUME IInv, MarkingInv, MarkingInv', FirstInv, [Next]_vars, lastEvictedEpoch' = 0
                 PROVE  WalkInv'
      OBVIOUS
    <2>1. lastEvictedEpoch = 0
      BY EvictingFacts DEF MarkingInv, AncientInv
    <2>2. NoRefusedBlockReturns'
      BY NoReturnAtFirst DEF MarkingInv, NoRefusedBlockReturns, StageInv, AncientInv, HasAncientParent
    <2> QED
      BY <2>1, <2>2, WalkStays
  <1>3. IInv /\ FirstInv => (lastEvictedEpoch = 0 => InvalidFutureCone)
    BY QuietConesAreMarked
  <1> QED
    BY <1>1, <1>2, <1>3, MarkingInvariant, PTL DEF Spec
=============================================================================
