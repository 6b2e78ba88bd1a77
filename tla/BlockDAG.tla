------------------------------- MODULE BlockDAG -------------------------------
(***************************************************************************)
(* The BlockDAG of the tangle (engine/tangle/blockdag) with the eviction   *)
(* state (engine/eviction): blocks arrive in any order, wait as children   *)
(* of placeholders for the parents that are missing, and become solid in   *)
(* causal order.  Committed epochs are evicted while blocks are being      *)
(* attached; of an evicted epoch only its root blocks, the parents of      *)
(* accepted blocks of later epochs, can still be referenced, and only for  *)
(* some epochs more.                                                       *)
(*                                                                         *)
(* The solidifier is the CausalOrder: the module of that name is           *)
(* instantiated, and BlockDAG provides what it asks of its user.  The      *)
(* entityProvider is Block, isOrdered the solid flag, the orderedCallback  *)
(* MarkSolid and the evictionCallback SetInvalid.                          *)
(***************************************************************************)
EXTENDS Integers, Sequences, SequencesExt, FiniteSets

CONSTANTS BlockID,
          Parents,              \* the parents of a block, in order
          Index,                \* the epoch of a block
          Genesis,              \* the EmptyBlockID: always a root block
          NotMonotonic,         \* blocks that may fail the checks of markSolid
          RootBlocksEvictionDelay,
          LastIndex             \* bound: the last epoch that is evicted

(* A block holds the hashes of its parents, and has few of them.           *)
ASSUME BlockDAGConstants ==
  /\ Parents \in [BlockID -> Seq(BlockID)]
  /\ \A b \in BlockID : b \notin ToSet(Parents[b]) /\ Len(Parents[b]) < 256
  /\ Index \in [BlockID -> Nat]
  /\ Genesis \subseteq BlockID /\ NotMonotonic \subseteq BlockID
  /\ RootBlocksEvictionDelay \in Nat /\ LastIndex \in Nat

(* The EmptyBlockID is not the hash of a block that refers to others.      *)
ASSUME GenesisHasNoParents == \A b \in Genesis : Parents[b] = <<>>

VARIABLES
  (* the CausalOrder *)
  solid,              \* blocks with the solid flag
  invalid,            \* blocks with the invalid flag
  counter, counterEpochs, unorderedChildren, lastEvictedIndex, tasks,
  running, queued, evicting, crashed,
  (* the BlockDAG *)
  stored,             \* blocks of the memStorage that have arrived
  missing,            \* blocks of the memStorage that have not
  children,           \* the children that are registered with a block
  attaching,          \* the local state of the goroutines in Attach
  invalidating,       \* invalid blocks whose children are still to be visited
  (* the eviction state *)
  rootBlocks, lastEvictedEpoch,
  evictionStep        \* what the EpochEvicted event has reached

solidifier == <<solid, counter, counterEpochs, unorderedChildren, lastEvictedIndex,
                tasks, running, queued, evicting>>
memStorage == <<stored, missing, children>>
evictionState == <<rootBlocks, lastEvictedEpoch, evictionStep>>
vars == <<solidifier, invalid, crashed, memStorage, attaching, invalidating, evictionState>>

(* delayedBlockEvictionThreshold.                                          *)
DelayedBlockEvictionThreshold(index) ==
  IF index > RootBlocksEvictionDelay + 1 THEN index - RootBlocksEvictionDelay - 1 ELSE 0

IsRootBlock(b) ==
  \/ b \in Genesis
  \/ b \in rootBlocks /\ Index[b] > DelayedBlockEvictionThreshold(lastEvictedEpoch)

InEvictedEpoch(b) == Index[b] <= lastEvictedEpoch

(* The blocks that Block finds.                                            *)
Known == stored \union missing \union {b \in BlockID : IsRootBlock(b)}

Solidifier == INSTANCE CausalOrder WITH
  Entity <- BlockID, Roots <- Genesis, Failing <- NotMonotonic, QueueLimit <- 1,
  ordered <- solid, rejected <- invalid, known <- Known

NotAttaching == [at |-> "idle", next |-> 0]

Init ==
  /\ solid = Genesis
  /\ invalid = {} /\ evicting = {} /\ counterEpochs = {}
  /\ counter = [b \in BlockID |-> 0]
  /\ unorderedChildren = [b \in BlockID |-> [c \in BlockID |-> 0]]
  /\ lastEvictedIndex = 0
  /\ tasks = [b \in BlockID |-> 0]
  /\ running = [b \in BlockID |-> Solidifier!NotRunning]
  /\ queued = [b \in BlockID |-> 0]
  /\ crashed = FALSE
  /\ stored = {} /\ missing = {} /\ invalidating = {}
  /\ children = [b \in BlockID |-> {}]
  /\ attaching = [b \in BlockID |-> NotAttaching]
  /\ rootBlocks = {} /\ lastEvictedEpoch = 0 /\ evictionStep = "idle"
-----------------------------------------------------------------------------
(* SetInvalid marks a block, later steps walk its future cone.             *)
SetInvalid(B) ==
  /\ invalid' = invalid \union B
  /\ invalidating' = invalidating \union (B \ invalid)

(* The parents of a block that can no longer be referenced.                *)
TooOldParents(b) ==
  {p \in ToSet(Parents[b]) : InEvictedEpoch(p) /\ ~IsRootBlock(p)}

(* canAttach: a block of an evicted epoch, or one that has arrived before, *)
(* is ignored; a block with a parent that is too old is refused, and the   *)
(* placeholder that waited for it is invalid.                              *)
CanAttach(b) ==
  /\ b \notin Genesis /\ attaching[b].at = "idle" /\ queued[b] = 0
  /\ ~InEvictedEpoch(b) /\ ~IsRootBlock(b) /\ b \notin stored
  /\ \/ /\ TooOldParents(b) = {}
        /\ attaching' = [attaching EXCEPT ![b] = [at |-> "store", next |-> 1]]
        /\ UNCHANGED <<invalid, invalidating>>
     \/ /\ TooOldParents(b) # {} /\ b \in missing
        /\ SetInvalid({b})
        /\ UNCHANGED attaching
  /\ UNCHANGED <<solidifier, crashed, memStorage, evictionState>>

(* Mutant of Store: a placeholder that is updated counts as attached       *)
(* before.                                                                 *)
Store_UpdateNotAttached(b) ==
  /\ attaching[b].at = "store"
  /\ stored' = stored \union {b} /\ missing' = missing \ {b}
  /\ attaching' = IF b \in missing THEN [attaching EXCEPT ![b] = NotAttaching]
                  ELSE [attaching EXCEPT ![b].at = "children"]
  /\ UNCHANGED <<solidifier, invalid, crashed, children, invalidating, evictionState>>

(* The block is stored, or takes the place of its placeholder.             *)
Store(b) ==
  /\ attaching[b].at = "store"
  /\ stored' = stored \union {b} /\ missing' = missing \ {b}
  /\ attaching' = [attaching EXCEPT ![b].at = "children"]
  /\ UNCHANGED <<solidifier, invalid, crashed, children, invalidating, evictionState>>

(* registerChild, for one parent: a placeholder is stored for a parent     *)
(* that has not arrived.                                                   *)
RegisterChild(b) ==
  LET p == Parents[b][attaching[b].next]
  IN  /\ attaching[b].at = "children" /\ attaching[b].next <= Len(Parents[b])
      /\ attaching' = [attaching EXCEPT ![b].next = @ + 1]
      /\ IF IsRootBlock(p) THEN UNCHANGED <<missing, children>>
         ELSE /\ missing' = IF p \in stored THEN missing ELSE missing \union {p}
              /\ children' = [children EXCEPT ![p] = @ \union {b}]
      /\ UNCHANGED <<solidifier, invalid, crashed, stored, invalidating, evictionState>>

(* attach returns and releases the read lock of the evictionMutex.         *)
Attached(b) ==
  /\ attaching[b].at = "children" /\ attaching[b].next > Len(Parents[b])
  /\ attaching' = [attaching EXCEPT ![b].at = "queue"]
  /\ UNCHANGED <<solidifier, invalid, crashed, memStorage, invalidating, evictionState>>

(* Attach queues the block in the solidifier.                              *)
Queue(b) ==
  /\ attaching[b].at = "queue"
  /\ UNCHANGED <<memStorage, evictionState>>
  /\ Solidifier!Queue(b)
  /\ invalidating' = invalidating \union (invalid' \ invalid)
  /\ attaching' = [attaching EXCEPT ![b] = NotAttaching]

(* The steps of the solidifier between its calls of the BlockDAG.          *)
Solidify(b) ==
  /\ UNCHANGED <<memStorage, evictionState, attaching>>
  /\ \/ Solidifier!CheckParent(b) \/ Solidifier!RegisterUnorderedChild(b)
     \/ Solidifier!SetUnorderedParentsCounter(b) \/ Solidifier!AllParentsOrdered(b)
     \/ Solidifier!PropagateOrderToChildren(b) \/ Solidifier!TriggerChildIfReady(b)
     \/ Solidifier!EvictionCallback(b)
  /\ invalidating' = invalidating \union (invalid' \ invalid)

(* markSolid looks the parents up again to compare times and commitments.  *)
MarkSolid(b) ==
  /\ Solidifier!Running(b, "order")
  /\ ToSet(Parents[b]) \subseteq Known
  /\ UNCHANGED <<memStorage, evictionState, attaching>>
  /\ Solidifier!TriggerOrderedCallback(b)
  /\ invalidating' = invalidating \union (invalid' \ invalid)

(* It panics when one of them is gone.                                     *)
ParentNotFound(b) ==
  /\ Solidifier!Running(b, "order")
  /\ ~(ToSet(Parents[b]) \subseteq Known)
  /\ crashed' = TRUE
  /\ UNCHANGED <<solidifier, invalid, memStorage, attaching, invalidating, evictionState>>

(* Mutant of WalkFutureCone: the walk ends after one generation.           *)
WalkFutureCone_OneGeneration(b) ==
  /\ b \in invalidating
  /\ invalidating' = invalidating \ {b}
  /\ invalid' = invalid \union children[b]
  /\ UNCHANGED <<solidifier, crashed, memStorage, attaching, evictionState>>

(* The walk of SetInvalid reaches the children of an invalid block.        *)
WalkFutureCone(b) ==
  /\ b \in invalidating
  /\ invalid' = invalid \union children[b]
  /\ invalidating' = (invalidating \ {b}) \union (children[b] \ invalid)
  /\ UNCHANGED <<solidifier, crashed, memStorage, attaching, evictionState>>
-----------------------------------------------------------------------------
(* A block is accepted: its parents of earlier epochs become root blocks.  *)
AddRootBlock(b, p) ==
  /\ b \in solid \ invalid /\ p \in ToSet(Parents[b]) \ (Genesis \union rootBlocks)
  /\ Index[p] < Index[b]
  /\ Index[p] > DelayedBlockEvictionThreshold(lastEvictedEpoch)
  /\ rootBlocks' = rootBlocks \union {p}
  /\ UNCHANGED <<solidifier, invalid, crashed, memStorage, attaching, invalidating,
                 lastEvictedEpoch, evictionStep>>

(* The eviction state moves on when the next epoch is committed ...        *)
EvictUntil ==
  /\ evictionStep = "idle" /\ lastEvictedEpoch < LastIndex
  /\ rootBlocks' = {b \in rootBlocks : Index[b] # DelayedBlockEvictionThreshold(lastEvictedEpoch)}
  /\ lastEvictedEpoch' = lastEvictedEpoch + 1
  /\ evictionStep' = "solidifier"
  /\ UNCHANGED <<solidifier, invalid, crashed, memStorage, attaching, invalidating>>

(* ... then EpochEvicted reaches the solidifier ...                        *)
EvictSolidifier ==
  /\ evictionStep = "solidifier"
  /\ evictionStep' = "storage"
  /\ UNCHANGED <<memStorage, attaching, rootBlocks, lastEvictedEpoch, invalidating>>
  /\ Solidifier!EvictUntil(lastEvictedEpoch)

(* Mutant of EvictStorage: the evictionMutex is not taken.                 *)
EvictStorage_Unlocked ==
  /\ evictionStep = "storage" /\ evicting = {}
  /\ stored' = {b \in stored : Index[b] # lastEvictedEpoch}
  /\ missing' = {b \in missing : Index[b] # lastEvictedEpoch}
  /\ children' = [b \in BlockID |-> IF Index[b] = lastEvictedEpoch THEN {} ELSE children[b]]
  /\ evictionStep' = "idle"
  /\ UNCHANGED <<solidifier, invalid, crashed, attaching, invalidating, rootBlocks, lastEvictedEpoch>>

(* ... and, with the evictionMutex, the memStorage.                        *)
EvictStorage ==
  /\ evictionStep = "storage" /\ evicting = {}
  /\ \A b \in BlockID : attaching[b].at \notin {"store", "children"}
  /\ stored' = {b \in stored : Index[b] # lastEvictedEpoch}
  /\ missing' = {b \in missing : Index[b] # lastEvictedEpoch}
  /\ children' = [b \in BlockID |-> IF Index[b] = lastEvictedEpoch THEN {} ELSE children[b]]
  /\ evictionStep' = "idle"
  /\ UNCHANGED <<solidifier, invalid, crashed, attaching, invalidating, rootBlocks, lastEvictedEpoch>>
-----------------------------------------------------------------------------
Attach(b) == CanAttach(b) \/ Store(b) \/ RegisterChild(b) \/ Attached(b) \/ Queue(b)

Next ==
  /\ ~crashed
  /\ \/ \E b \in BlockID :
          \/ Attach(b) \/ Solidify(b) \/ MarkSolid(b) \/ ParentNotFound(b) \/ WalkFutureCone(b)
          \/ \E p \in BlockID : AddRootBlock(b, p)
     \/ EvictUntil \/ EvictSolidifier \/ EvictStorage

Spec == Init /\ [][Next]_vars
-----------------------------------------------------------------------------
(* Type invariant.                                                         *)
TypeOK ==
  /\ Solidifier!TypeOK
  /\ stored \subseteq BlockID /\ missing \subseteq BlockID /\ stored \intersect missing = {}
  /\ children \in [BlockID -> SUBSET BlockID]
  /\ attaching \in [BlockID -> [at : {"idle", "store", "children", "queue"}, next : Nat]]
  /\ invalidating \subseteq invalid
  /\ rootBlocks \subseteq BlockID /\ lastEvictedEpoch \in 0..LastIndex
  /\ evictionStep \in {"idle", "solidifier", "storage"}

(* Nobody is at work: neither Attach nor the solidifier, no invalidation   *)
(* and no eviction.                                                        *)
Quiet ==
  /\ ~crashed
  /\ \A b \in BlockID : attaching[b].at = "idle" /\ Solidifier!Running(b, "idle") /\ tasks[b] = 0
  /\ invalidating = {} /\ evicting = {} /\ evictionStep = "idle"

(* A block whose parents are all solid does not wait any more, whatever    *)
(* its attachment raced with.                                              *)
NobodyWaitsForSolidParents ==
  Quiet => \A b \in stored : ToSet(Parents[b]) \subseteq solid => b \in solid \union invalid

(* Invalidity reaches the whole future cone: a child that is attached      *)
(* while its parent is marked is found by the walk of SetInvalid or finds  *)
(* the mark itself.                                                        *)
InvalidFutureCone ==
  Quiet => \A b \in stored : ToSet(Parents[b]) \intersect (stored \union missing) \intersect invalid # {}
                                => b \in invalid

(* No block that arrived stays behind in, or returns to, an evicted epoch  *)
(* of the memStorage, which would never be evicted again: the eviction     *)
(* waits for the attachments that looked at the eviction state before it.  *)
EvictedBlocksForgotten ==
  evictionStep = "idle" => \A b \in stored : ~InEvictedEpoch(b)

(* A block that is marked solid has all its parents: checkParents never    *)
(* panics.                                                                 *)
ParentsExist == ~crashed
=============================================================================
