----------------------------- MODULE CausalOrder -----------------------------
(***************************************************************************)
(* The CausalOrder (packages/core/causalorder) that solidifies, books,     *)
(* accepts and confirms blocks: an entity is handed to the ordered         *)
(* callback after its parents were.                                        *)
(*                                                                         *)
(* Queue runs in the goroutine of its caller; it holds the read locks of   *)
(* the entity's parents and the write lock of the entity (DAGMutex) from   *)
(* its first to its last step.  What an ordered entity triggers is         *)
(* submitted to the event loop, where each task takes the write lock of    *)
(* one child.  Both hold the read lock of the evictionMutex, EvictUntil    *)
(* its write lock.  A reader waits for all the locks it needs at once: the *)
(* order of acquisition follows the DAG and cannot make a cycle.           *)
(*                                                                         *)
(* Entities that the callbacks refuse, that refer to refused or unknown    *)
(* parents, or that are evicted, are handed to the evictionCallback, which *)
(* in all users marks them (BlockDAG: invalid), so that checkReference     *)
(* refuses their children.                                                 *)
(***************************************************************************)
EXTENDS Integers, Sequences, SequencesExt, FiniteSets

CONSTANTS Entity,
          Parents,      \* the parents of an entity, in order
          Index,        \* the epoch an entity belongs to
          Roots,        \* root blocks: known and ordered from the start
          Failing,      \* entities the ordered callback may refuse
          QueueLimit,   \* bound: how often an entity is queued
          LastIndex     \* bound: the last epoch that is evicted

ParentIDs(e) == ToSet(Parents[e])

(* A block holds the hashes of its parents, so it is none of them, and it  *)
(* has far fewer than a uint8 counts (MaxParentsBlocksCount blocks of      *)
(* MaxParentsCount).                                                       *)
ASSUME CausalOrderConstants ==
  /\ Parents \in [Entity -> Seq(Entity)]
  /\ \A e \in Entity : e \notin ParentIDs(e) /\ Len(Parents[e]) < 256
  /\ Index \in [Entity -> Nat]
  /\ Roots \subseteq Entity /\ Failing \subseteq Entity
  /\ QueueLimit \in Nat /\ LastIndex \in Nat

VARIABLES
  ordered,            \* entities for which isOrdered holds
  rejected,           \* entities handed to the evictionCallback
  known,              \* entities the entityProvider knows
  counter,            \* unorderedParentsCounter: a uint8, 0 when not stored
  counterEpochs,      \* the epochs for which counters are stored
  unorderedChildren,  \* how often a child is registered with a parent
  lastEvictedIndex,
  tasks,              \* submitted triggerChildIfReady tasks, by child
  running,            \* the goroutine that holds the write lock of an entity
  queued,             \* how often an entity was queued
  evicting,           \* evicted entities that wait for their callback
  crashed             \* a nil storage was dereferenced

vars == <<ordered, rejected, known, counter, counterEpochs, unorderedChildren,
          lastEvictedIndex, tasks, running, queued, evicting, crashed>>

storage == <<counter, counterEpochs, unorderedChildren>>
eviction == <<known, lastEvictedIndex, evicting>>

NotRunning == [at |-> "idle", next |-> 0, pending |-> 0, holdsParents |-> FALSE]

Running(e, step) == running[e].at = step

Release(e) == running' = [running EXCEPT ![e] = NotRunning]

WriteLocked(e) == ~Running(e, "idle")
ReadLocked(e) == \E c \in Entity : running[c].holdsParents /\ e \in ParentIDs(c)

Init ==
  /\ ordered = Roots
  /\ rejected = {} /\ evicting = {} /\ counterEpochs = {}
  /\ known = Entity
  /\ counter = [e \in Entity |-> 0]
  /\ unorderedChildren = [p \in Entity |-> [c \in Entity |-> 0]]
  /\ lastEvictedIndex = 0
  /\ tasks = [e \in Entity |-> 0]
  /\ running = [e \in Entity |-> NotRunning]
  /\ queued = [e \in Entity |-> 0]
  /\ crashed = FALSE
-----------------------------------------------------------------------------
(* Mutant of LocksFree: the parents are not locked.                        *)
LocksFree_IgnoresParents(e) == ~WriteLocked(e) /\ ~ReadLocked(e)

(* The locks that Queue takes are free.                                    *)
LocksFree(e) ==
  /\ ~WriteLocked(e) /\ ~ReadLocked(e)
  /\ \A p \in ParentIDs(e) : ~WriteLocked(p)

(* Mutant of TooOld: an epoch too few.                                     *)
TooOld_OffByOne(e) == lastEvictedIndex > Index[e]

TooOld(e) == lastEvictedIndex >= Index[e]

(* Queue: nothing happens to an entity that is ordered, one of an evicted  *)
(* epoch is refused, for any other the parents are inspected.              *)
Queue(e) ==
  /\ e \notin Roots
  /\ queued[e] < QueueLimit
  /\ LocksFree(e)
  /\ queued' = [queued EXCEPT ![e] = @ + 1]
  /\ \/ e \in ordered /\ UNCHANGED <<rejected, running>>
     \/ e \notin ordered /\ TooOld(e) /\ rejected' = rejected \union {e} /\ UNCHANGED running
     \/ /\ e \notin ordered /\ ~TooOld(e)
        /\ running' = [running EXCEPT ![e] =
             [at |-> "parents", next |-> 1, pending |-> 0, holdsParents |-> TRUE]]
        /\ UNCHANGED rejected
  /\ UNCHANGED <<ordered, storage, eviction, tasks, crashed>>

(* One iteration of allParentsOrdered: a parent that is unknown or refused *)
(* ends it, with the registrations made so far left behind; with a parent  *)
(* that is not ordered the entity is registered as a child, in a step of   *)
(* its own.                                                                *)
CheckParent(e) ==
  LET p == Parents[e][running[e].next]
  IN  /\ Running(e, "parents")
      /\ running[e].next <= Len(Parents[e])
      /\ \/ /\ p \notin known \/ p \in rejected
            /\ rejected' = rejected \union {e}
            /\ Release(e)
         \/ /\ p \in known \ rejected
            /\ running' = IF p \in ordered THEN [running EXCEPT ![e].next = @ + 1]
                         ELSE [running EXCEPT ![e].at = "register", ![e].pending = (@ + 1) % 256]
            /\ UNCHANGED rejected
      /\ UNCHANGED <<ordered, storage, eviction, tasks, queued, crashed>>

RegisterUnorderedChild(e) ==
  /\ Running(e, "register")
  /\ unorderedChildren' = [unorderedChildren EXCEPT ![Parents[e][running[e].next]][e] = @ + 1]
  /\ running' = [running EXCEPT ![e].at = "parents", ![e].next = @ + 1]
  /\ UNCHANGED <<ordered, rejected, counter, counterEpochs, eviction, tasks, queued, crashed>>

CheckedAll(e) == Running(e, "parents") /\ running[e].next > Len(Parents[e])

(* Some parents are not ordered: the entity waits for them.                *)
SetUnorderedParentsCounter(e) ==
  /\ CheckedAll(e)
  /\ running[e].pending # 0
  /\ counter' = [counter EXCEPT ![e] = running[e].pending]
  /\ counterEpochs' = counterEpochs \union {Index[e]}
  /\ Release(e)
  /\ UNCHANGED <<ordered, rejected, unorderedChildren, eviction, tasks, queued, crashed>>

AllParentsOrdered(e) ==
  /\ CheckedAll(e)
  /\ running[e].pending = 0
  /\ running' = [running EXCEPT ![e].at = "order"]
  /\ UNCHANGED <<ordered, rejected, storage, eviction, tasks, queued, crashed>>

TriggerOrderedCallback(e) ==
  /\ Running(e, "order")
  /\ \/ /\ e \in Failing
        /\ rejected' = rejected \union {e}
        /\ Release(e)
        /\ UNCHANGED ordered
     \/ /\ ordered' = ordered \union {e}
        /\ running' = [running EXCEPT ![e].at = "propagate"]
        /\ UNCHANGED rejected
  /\ UNCHANGED <<storage, eviction, tasks, queued, crashed>>

(* Mutant of PropagateOrderToChildren: no task is submitted.               *)
PropagateOrderToChildren_Forgets(e) ==
  /\ Running(e, "propagate")
  /\ unorderedChildren' = [unorderedChildren EXCEPT ![e] = [c \in Entity |-> 0]]
  /\ Release(e)
  /\ UNCHANGED <<tasks, ordered, rejected, counter, counterEpochs, eviction, queued, crashed>>

(* The registered children are popped, a task is submitted for each.       *)
PropagateOrderToChildren(e) ==
  /\ Running(e, "propagate")
  /\ tasks' = [c \in Entity |-> tasks[c] + unorderedChildren[e][c]]
  /\ unorderedChildren' = [unorderedChildren EXCEPT ![e] = [c \in Entity |-> 0]]
  /\ Release(e)
  /\ UNCHANGED <<ordered, rejected, counter, counterEpochs, eviction, queued, crashed>>

(* Mutant of Decreased: a signed counter, decreased for two tasks at once. *)
Decreased_Twice(e) == counter[e] - 2

(* decreaseUnorderedParentsCounter: a counter that is not stored counts    *)
(* as 0, and the uint8 wraps around.                                       *)
Decreased(e) == (counter[e] - 1) % 256

(* A task of the event loop.  It does not look at lastEvictedIndex: when   *)
(* the counters of the epoch are gone the storage it reads is nil.         *)
TriggerChildIfReady(e) ==
  /\ tasks[e] > 0
  /\ ~WriteLocked(e) /\ ~ReadLocked(e)
  /\ tasks' = [tasks EXCEPT ![e] = @ - 1]
  /\ \/ e \in ordered /\ UNCHANGED <<counter, running, crashed>>
     \/ /\ e \notin ordered
        /\ Index[e] \notin counterEpochs
        /\ crashed' = TRUE
        /\ UNCHANGED <<counter, running>>
     \/ /\ e \notin ordered
        /\ Index[e] \in counterEpochs
        /\ counter' = [counter EXCEPT ![e] = Decreased(e)]
        /\ running' = IF Decreased(e) = 0 THEN [running EXCEPT ![e].at = "order"] ELSE running
        /\ UNCHANGED crashed
  /\ UNCHANGED <<ordered, rejected, counterEpochs, unorderedChildren, eviction, queued>>

(* EvictUntil: everything that is registered in the evicted epochs is      *)
(* dropped and handed to the evictionCallback afterwards.                  *)
EvictUntil(index) ==
  LET evicted(e) == Index[e] > lastEvictedIndex /\ Index[e] <= index
      registered(e) == counter[e] # 0 \/ \E c \in Entity : unorderedChildren[e][c] > 0
  IN  /\ index > lastEvictedIndex
      /\ \A e \in Entity : ~WriteLocked(e)
      /\ evicting' = evicting \union {e \in Entity : evicted(e) /\ registered(e)}
      /\ counter' = [e \in Entity |-> IF evicted(e) THEN 0 ELSE counter[e]]
      /\ unorderedChildren' = [p \in Entity |->
           IF evicted(p) THEN [c \in Entity |-> 0] ELSE unorderedChildren[p]]
      /\ counterEpochs' = {i \in counterEpochs : i <= lastEvictedIndex \/ i > index}
      /\ lastEvictedIndex' = index
      /\ UNCHANGED <<ordered, rejected, known, tasks, running, queued, crashed>>

EvictionCallback(e) ==
  /\ e \in evicting
  /\ evicting' = evicting \ {e}
  /\ rejected' = rejected \union {e}
  /\ UNCHANGED <<ordered, known, storage, lastEvictedIndex, tasks, running, queued, crashed>>

(* The users forget the blocks of evicted epochs after the callbacks.      *)
Forget ==
  /\ evicting = {}
  /\ known' = {e \in known : e \in Roots \/ Index[e] > lastEvictedIndex}
  /\ known' # known
  /\ UNCHANGED <<ordered, rejected, storage, lastEvictedIndex, evicting, tasks,
                 running, queued, crashed>>
-----------------------------------------------------------------------------
(* The steps of a goroutine that has its locks, and the event loop.        *)
Proceed(e) ==
  \/ CheckParent(e) \/ RegisterUnorderedChild(e) \/ SetUnorderedParentsCounter(e) \/ AllParentsOrdered(e)
  \/ TriggerOrderedCallback(e) \/ PropagateOrderToChildren(e) \/ TriggerChildIfReady(e)

Evict ==
  \/ \E index \in 1..LastIndex : EvictUntil(index)
  \/ \E e \in Entity : EvictionCallback(e)
  \/ Forget

Next ==
  /\ ~crashed
  /\ (\E e \in Entity : Queue(e) \/ Proceed(e)) \/ Evict

Spec == Init /\ [][Next]_vars

(* Goroutines are scheduled and submitted tasks run; nothing is promised   *)
(* about the arrival of entities or about evictions.                       *)
FairSpec == Spec /\ \A e \in Entity : WF_vars(~crashed /\ Proceed(e))
-----------------------------------------------------------------------------
(* Type invariant.                                                         *)
Goroutine ==
  [at : {"idle", "parents", "register", "order", "propagate"}, next : Nat, pending : 0..255,
   holdsParents : BOOLEAN]

TypeOK ==
  /\ ordered \subseteq Entity /\ rejected \subseteq Entity /\ known \subseteq Entity
  /\ counter \in [Entity -> 0..255]
  /\ counterEpochs \subseteq Nat
  /\ unorderedChildren \in [Entity -> [Entity -> Nat]]
  /\ lastEvictedIndex \in Nat
  /\ tasks \in [Entity -> Nat]
  /\ running \in [Entity -> Goroutine]
  /\ queued \in [Entity -> 0..QueueLimit]
  /\ evicting \subseteq Entity
  /\ crashed \in BOOLEAN

(* Causal order: an entity is ordered after all of its parents.            *)
ParentsOrderedFirst == \A e \in ordered \ Roots : ParentIDs(e) \subseteq ordered

(* The verdict on an entity is final: what was refused or evicted is not   *)
(* ordered later, whatever was submitted before, and what is ordered is    *)
(* not evicted.                                                            *)
VerdictsAreFinal ==
  [][\A e \in Entity :
       /\ e \in ordered' \ ordered => Index[e] > lastEvictedIndex
       /\ e \notin ordered' \intersect rejected']_vars

(* The counter of a waiting entity is exact: it is the number of its       *)
(* references to parents it is still registered with, plus the tasks on    *)
(* their way.  One too many and the entity waits forever, one too few and  *)
(* it is ordered early.                                                    *)
(* (An unordered parent that was evicted is never subtracted: the entity   *)
(* waits until it is evicted itself.)                                      *)
CounterExact ==
  \A e \in Entity :
    /\ Running(e, "idle") /\ e \notin rejected \union ordered
    /\ ~TooOld(e) /\ \A p \in ParentIDs(e) \ ordered : ~TooOld(p)
    =>
      counter[e] = tasks[e] +
        Cardinality({i \in DOMAIN Parents[e] : unorderedChildren[Parents[e][i]][e] > 0})

(* A task always finds the counter it is to decrease.                      *)
CounterAlwaysFound == ~crashed

PastCone ==
  [e \in Entity |->
     {a \in Entity : \A S \in SUBSET Entity :
        e \in S /\ (\A x \in S : ParentIDs(x) \subseteq S) => a \in S}]

(* Nothing is forgotten: an entity is ordered in the end when it and all   *)
(* its ancestors were queued and none of them is refused.                  *)
EventuallyOrdered ==
  \A e \in Entity :
    (\A a \in PastCone[e] \ Roots : queued[a] > 0) ~>
      (e \in ordered \/ PastCone[e] \intersect rejected # {} \/ crashed)
=============================================================================
