-------------------------- MODULE CausalOrderProofs --------------------------
(***************************************************************************)
(* Theorems about the CausalOrder, for any DAG of entities, any order of   *)
(* arrival and any evictions: parents are ordered first, verdicts are      *)
(* final and counters exact, provided that each entity is queued once.     *)
(*                                                                         *)
(* The argument.  What a waiting entity is still owed is counted by the    *)
(* positions of its parents that have not handed on their order: the       *)
(* counter covers them and the tasks on their way.  A goroutine that       *)
(* inspects its parents holds their locks, so that none of them is ordered *)
(* in between.  An entity whose inspection was ended by a refused parent   *)
(* leaves registrations behind; its counter is not set, wraps around with  *)
(* the first task and is never brought to 0, because an entity has fewer   *)
(* parents than a uint8 counts.                                            *)
(***************************************************************************)
EXTENDS CausalOrder, FiniteSetTheorems, SequenceTheorems, TLAPS

(* The BlockDAG queues a block when it is attached for the first time.     *)
QueuedOnce == QueueLimit = 1

-----------------------------------------------------------------------------
Positions(e) == 1..Len(Parents[e])

(* The entities that have handed on their order.                           *)
Done == {p \in ordered : ~Running(p, "propagate")}

(* The positions of the parents that have not, and of one of the parents.  *)
NotDone(e) == {i \in Positions(e) : Parents[e][i] \notin Done}
PositionsOf(p, e) == {i \in Positions(e) : Parents[e][i] = p}

(* What was found to be unordered so far.                                  *)
Found(e) == {i \in Positions(e) : i < running[e].next /\ Parents[e][i] \notin ordered}

(* By how much the counter of an entity is still to be decreased.          *)
Owed(e) == tasks[e] + Cardinality(NotDone(e))

-----------------------------------------------------------------------------
(* An entity is only processed once, as long as its epoch is not evicted.  *)
(* While its parents are inspected they rest.                              *)
Locked(e) ==
  /\ ~Running(e, "idle") => ~TooOld(e) /\ queued[e] # 0
  /\ Running(e, "propagate") => e \in ordered
  /\ running[e].at \in {"parents", "register", "order"} => e \notin ordered
  /\ running[e].at \in {"parents", "register"} =>
       running[e].holdsParents /\ 1 <= running[e].next /\ running[e].next <= Len(Parents[e]) + 1
  /\ Running(e, "register") =>
       running[e].next \in Positions(e) /\ Parents[e][running[e].next] \notin ordered
  /\ running[e].holdsParents =>
       ~Running(e, "idle") /\ \A p \in ParentIDs(e) : Running(p, "idle")

(* What is evicted is not ordered.                                         *)
VerdictInv ==
  /\ Roots \subseteq ordered
  /\ \A e \in Roots : queued[e] = 0
  /\ \A i \in counterEpochs : i > lastEvictedIndex
  /\ \A e \in evicting : TooOld(e) /\ e \notin ordered

(* A parent keeps a child until it hands on its order, at most once for    *)
(* each of its positions.                                                  *)
ChildInv ==
  \A p, c \in Entity :
    /\ p \in Done => unorderedChildren[p][c] = 0
    /\ unorderedChildren[p][c] <= Cardinality(PositionsOf(p, c))

Untouched(e) ==
  /\ Running(e, "idle") /\ tasks[e] = 0 /\ counter[e] = 0
  /\ \A p \in Entity : unorderedChildren[p][e] = 0
  /\ e \in ordered => e \in Roots

Inspecting(e) ==
  /\ tasks[e] = 0 /\ counter[e] = 0
  /\ running[e].pending = Cardinality(Found(e)) + (IF Running(e, "register") THEN 1 ELSE 0)
  /\ \A p \in Entity :
       unorderedChildren[p][e] = Cardinality(Found(e) \intersect PositionsOf(p, e))

Settled(e) == tasks[e] = 0 /\ counter[e] = 0 /\ NotDone(e) = {}

Waiting(e) ==
  /\ Index[e] \in counterEpochs
  /\ counter[e] = Owed(e) /\ counter[e] # 0
  /\ \A p \in Entity \ Done :
       ~TooOld(p) => unorderedChildren[p][e] = Cardinality(PositionsOf(p, e))

(* A counter that never becomes 0: it is, or will be after it has wrapped  *)
(* around, larger than what is left to be subtracted from it.              *)
Refused(e) == (counter[e] = 0 /\ Owed(e) < 256) \/ counter[e] > Owed(e)

Counted(e) ==
  /\ queued[e] = 0 => Untouched(e)
  /\ running[e].at \in {"parents", "register"} => Inspecting(e)
  /\ Running(e, "order") \/ e \in ordered \ Roots => Settled(e)
  /\ queued[e] # 0 /\ ~TooOld(e) /\ Running(e, "idle") /\ e \notin ordered =>
       Waiting(e) \/ (e \in rejected /\ Refused(e))

IInv ==
  /\ TypeOK /\ VerdictInv /\ ChildInv
  /\ \A e \in Entity : Locked(e) /\ Counted(e)

(* What holds besides when nobody but the CausalOrder refuses entities.    *)
Final(e) ==
  /\ e \in rejected => Running(e, "idle") /\ e \notin ordered
  /\ e \in rejected /\ ~TooOld(e) => queued[e] # 0 /\ Refused(e)

(* A user who refuses entities on its own account.                         *)
Environment ==
  /\ rejected \subseteq rejected' /\ rejected' \subseteq Entity
  /\ known' \subseteq Entity /\ crashed' \in BOOLEAN
  /\ UNCHANGED <<ordered, storage, lastEvictedIndex, evicting, tasks, running, queued>>

-----------------------------------------------------------------------------
(* Positions can be counted.                                               *)
LEMMA CountFacts ==
  ASSUME NEW e \in Entity, NEW S \in SUBSET Positions(e)
  PROVE  /\ IsFiniteSet(S) /\ Cardinality(S) \in Nat
         /\ Cardinality(S) <= Len(Parents[e]) /\ Len(Parents[e]) \in Nat /\ Len(Parents[e]) < 256
         /\ Cardinality(S) = 0 <=> S = {}
  <1>1. Len(Parents[e]) \in Nat /\ Len(Parents[e]) < 256
    <2>1. Parents[e] \in Seq(Entity) /\ Len(Parents[e]) < 256
      BY CausalOrderConstants, Zenon
    <2>2. Len(Parents[e]) \in Nat
      BY <2>1, LenProperties
    <2> QED
      BY <2>1, <2>2, Zenon
  <1>2. IsFiniteSet(1..Len(Parents[e])) /\ Cardinality(1..Len(Parents[e])) = Len(Parents[e])
    <2>1. \A n \in Nat : IsFiniteSet(1..n) /\ Cardinality(1..n) = n
      BY FS_Interval
    <2> QED
      BY <1>1, <2>1
  <1>3. IsFiniteSet(S) /\ Cardinality(S) <= Len(Parents[e])
    BY <1>2, FS_Subset DEF Positions
  <1>4. Cardinality(S) \in Nat
    BY <1>3, FS_CardinalityType
  <1>5. Cardinality(S) = 0 <=> S = {}
    BY <1>3, FS_EmptySet
  <1> QED
    BY <1>1, <1>3, <1>4, <1>5

(* The counts of the invariant are natural numbers.                        *)
LEMMA CountsAreNumbers ==
  ASSUME NEW e \in Entity
  PROVE  /\ Cardinality(NotDone(e)) \in Nat /\ Cardinality(NotDone(e)) < 256
         /\ Cardinality(NotDone(e)) = 0 <=> NotDone(e) = {}
         /\ Cardinality(Found(e)) \in Nat
         /\ Cardinality(Found(e)) = 0 <=> Found(e) = {}
         /\ \A p \in Entity : Cardinality(PositionsOf(p, e)) \in Nat
         /\ \A p \in Entity : Cardinality(PositionsOf(p, e)) = 0 <=> PositionsOf(p, e) = {}
  <1>1. NotDone(e) \in SUBSET Positions(e) /\ Found(e) \in SUBSET Positions(e)
    BY DEF NotDone, Found
  <1>2. \A p \in Entity : PositionsOf(p, e) \in SUBSET Positions(e)
    BY DEF PositionsOf
  <1>3. \A p \in Entity : /\ Cardinality(PositionsOf(p, e)) \in Nat
                          /\ Cardinality(PositionsOf(p, e)) = 0 <=> PositionsOf(p, e) = {}
    BY <1>2, CountFacts
  <1>4. /\ Cardinality(NotDone(e)) \in Nat /\ Cardinality(NotDone(e)) < 256
        /\ Cardinality(NotDone(e)) = 0 <=> NotDone(e) = {}
    <2>1. /\ Cardinality(NotDone(e)) \in Nat /\ Cardinality(NotDone(e)) <= Len(Parents[e])
          /\ Len(Parents[e]) \in Nat /\ Len(Parents[e]) < 256 /\ (Cardinality(NotDone(e)) = 0 <=> NotDone(e) = {})
      BY <1>1, CountFacts
    <2> QED
      BY <2>1
  <1>5. Cardinality(Found(e)) \in Nat /\ (Cardinality(Found(e)) = 0 <=> Found(e) = {})
    BY <1>1, CountFacts
  <1> QED
    BY <1>3, <1>4, <1>5

(* A parent and its positions.                                             *)
LEMMA ParentFacts ==
  ASSUME NEW e \in Entity
  PROVE  /\ \A i \in Positions(e) : Parents[e][i] \in ParentIDs(e) /\ Parents[e][i] \in Entity
         /\ \A p \in ParentIDs(e) : p \in Entity /\ p # e /\ PositionsOf(p, e) # {}
         /\ \A p \in Entity \ ParentIDs(e) : PositionsOf(p, e) = {}
         /\ Len(Parents[e]) \in Nat /\ Len(Parents[e]) < 256
  <1>1. /\ Parents[e] \in Seq(Entity) /\ e \notin ParentIDs(e) /\ Len(Parents[e]) \in Nat /\ Len(Parents[e]) < 256
        /\ DOMAIN Parents[e] = Positions(e)
    <2>1. Parents[e] \in Seq(Entity) /\ e \notin ParentIDs(e) /\ Len(Parents[e]) < 256
      BY CausalOrderConstants, Zenon
    <2>2. Len(Parents[e]) \in Nat /\ DOMAIN Parents[e] = 1..Len(Parents[e])
      BY <2>1, LenProperties
    <2> QED
      BY <2>1, <2>2, Zenon DEF Positions
  <1>2. ParentIDs(e) = {Parents[e][i] : i \in Positions(e)}
    BY <1>1 DEF ParentIDs, ToSet
  <1>3. \A i \in Positions(e) : Parents[e][i] \in Entity
    BY <1>1 DEF Positions
  <1> QED
    BY <1>1, <1>2, <1>3 DEF PositionsOf

-----------------------------------------------------------------------------
(* Where the steps of a goroutine leave it.                                *)
Goes(e, step, next, pending, holdsParents) ==
  /\ running' \in [Entity -> Goroutine]
  /\ \A x \in Entity \ {e} : running'[x] = running[x]
  /\ running'[e].at = step /\ running'[e].next = next
  /\ running'[e].pending = pending /\ running'[e].holdsParents = holdsParents

LEMMA Goroutines ==
  ASSUME TypeOK, NEW e \in Entity
  PROVE  /\ running \in [Entity -> Goroutine] /\ running[e] \in Goroutine
         /\ running[e].at \in {"idle", "parents", "register", "order", "propagate"}
         /\ running[e].next \in Nat /\ running[e].pending \in 0..255
         /\ running[e].holdsParents \in BOOLEAN
         /\ NotRunning \in Goroutine
         /\ Release(e) => Goes(e, "idle", 0, 0, FALSE)
  <1>1. running \in [Entity -> Goroutine] /\ running[e] \in Goroutine
    BY DEF TypeOK
  <1>2. NotRunning \in Goroutine
    BY DEF NotRunning, Goroutine
  <1>3. /\ running[e].at \in {"idle", "parents", "register", "order", "propagate"}
        /\ running[e].next \in Nat /\ running[e].pending \in 0..255
        /\ running[e].holdsParents \in BOOLEAN
    BY <1>1 DEF Goroutine
  <1>4. Release(e) => Goes(e, "idle", 0, 0, FALSE)
    <2>1. Release(e) => running' \in [Entity -> Goroutine]
      BY <1>1, <1>2 DEF Release
    <2> QED
      BY <1>1, <2>1 DEF Release, Goes, NotRunning
  <1> QED
    BY <1>1, <1>2, <1>3, <1>4

LEMMA CountersAreNumbers ==
  ASSUME TypeOK, NEW e \in Entity
  PROVE  counter[e] \in Nat /\ counter[e] < 256
  <1>1. counter \in [Entity -> 0..255]
    BY DEF TypeOK
  <1>2. counter[e] \in 0..255
    BY <1>1
  <1> QED
    BY <1>2

LEMMA Becomes ==
  ASSUME TypeOK, NEW e \in Entity, NEW d \in Goroutine, running' = [running EXCEPT ![e] = d]
  PROVE  Goes(e, d.at, d.next, d.pending, d.holdsParents)
  <1>1. running \in [Entity -> Goroutine]
    BY DEF TypeOK
  <1>2. /\ running' \in [Entity -> Goroutine] /\ running'[e] = d
        /\ \A x \in Entity \ {e} : running'[x] = running[x]
    BY <1>1
  <1> QED
    BY <1>2 DEF Goes

LEMMA Moves ==
  ASSUME TypeOK, NEW e \in Entity
  PROVE  LET r == running[e]
         IN  /\ running' = [running EXCEPT ![e].next = @ + 1] =>
                  Goes(e, r.at, r.next + 1, r.pending, r.holdsParents)
             /\ running' = [running EXCEPT ![e].at = "register", ![e].pending = (@ + 1) % 256] =>
                  Goes(e, "register", r.next, (r.pending + 1) % 256, r.holdsParents)
             /\ running' = [running EXCEPT ![e].at = "parents", ![e].next = @ + 1] =>
                  Goes(e, "parents", r.next + 1, r.pending, r.holdsParents)
             /\ \A step \in {"order", "propagate"} : running' = [running EXCEPT ![e].at = step] =>
                  Goes(e, step, r.next, r.pending, r.holdsParents)
             /\ running' = [running EXCEPT ![e] =
                     [at |-> "parents", next |-> 1, pending |-> 0, holdsParents |-> TRUE]] =>
                  Goes(e, "parents", 1, 0, TRUE)
  <1> DEFINE r == running[e]
  <1>1. /\ running \in [Entity -> Goroutine] /\ r \in Goroutine
        /\ r.next + 1 \in Nat /\ (r.pending + 1) % 256 \in 0..255
    <2>1. \A n \in Nat : n + 1 \in Nat
      OBVIOUS
    <2>2. \A n \in 0..255 : (n + 1) % 256 \in 0..255
      OBVIOUS
    <2>3. /\ running \in [Entity -> Goroutine] /\ r \in Goroutine
          /\ r.next \in Nat /\ r.pending \in 0..255
      BY Goroutines
    <2> QED
      BY <2>1, <2>2, <2>3, Zenon
  <1>2. running' = [running EXCEPT ![e].next = @ + 1] =>
          Goes(e, r.at, r.next + 1, r.pending, r.holdsParents)
    <2> DEFINE n == r.next + 1
               d == [r EXCEPT !.next = n]
    <2>1. n \in Nat
      BY <1>1
    <2>2. running' = [running EXCEPT ![e].next = @ + 1] => running' = [running EXCEPT ![e] = d]
      OBVIOUS
    <2> HIDE DEF n
    <2>3. /\ d \in Goroutine /\ d.at = r.at /\ d.next = n
          /\ d.pending = r.pending /\ d.holdsParents = r.holdsParents
      BY <1>1, <2>1 DEF Goroutine
    <2> HIDE DEF d
    <2>4. running' = [running EXCEPT ![e] = d] => Goes(e, d.at, d.next, d.pending, d.holdsParents)
      BY <2>3, Becomes
    <2> QED
      BY <2>2, <2>3, <2>4, Zenon DEF n
  <1>3. running' = [running EXCEPT ![e].at = "register", ![e].pending = (@ + 1) % 256] =>
          Goes(e, "register", r.next, (r.pending + 1) % 256, r.holdsParents)
    <2> DEFINE n == (r.pending + 1) % 256
               d == [r EXCEPT !.at = "register", !.pending = n]
    <2>1. n \in 0..255
      BY <1>1
    <2>2. running' = [running EXCEPT ![e].at = "register", ![e].pending = (@ + 1) % 256]
            => running' = [running EXCEPT ![e] = d]
      <3>1. \A m : [running EXCEPT ![e].at = "register", ![e].pending = m]
                    = [running EXCEPT ![e] = [r EXCEPT !.at = "register", !.pending = m]]
        BY <1>1
      <3> QED
        BY <3>1, Zenon
    <2> HIDE DEF n
    <2>3. /\ d \in Goroutine /\ d.at = "register" /\ d.pending = n
          /\ d.next = r.next /\ d.holdsParents = r.holdsParents
      BY <1>1, <2>1 DEF Goroutine
    <2> HIDE DEF d
    <2>4. running' = [running EXCEPT ![e] = d] => Goes(e, d.at, d.next, d.pending, d.holdsParents)
      BY <2>3, Becomes
    <2> QED
      BY <2>2, <2>3, <2>4, Zenon DEF n
  <1>4. running' = [running EXCEPT ![e].at = "parents", ![e].next = @ + 1] =>
          Goes(e, "parents", r.next + 1, r.pending, r.holdsParents)
    <2> DEFINE n == r.next + 1
               d == [r EXCEPT !.at = "parents", !.next = n]
    <2>1. n \in Nat
      BY <1>1
    <2>2. running' = [running EXCEPT ![e].at = "parents", ![e].next = @ + 1]
            => running' = [running EXCEPT ![e] = d]
      BY <1>1
    <2> HIDE DEF n
    <2>3. /\ d \in Goroutine /\ d.at = "parents" /\ d.next = n
          /\ d.pending = r.pending /\ d.holdsParents = r.holdsParents
      BY <1>1, <2>1 DEF Goroutine
    <2> HIDE DEF d
    <2>4. running' = [running EXCEPT ![e] = d] => Goes(e, d.at, d.next, d.pending, d.holdsParents)
      BY <2>3, Becomes
    <2> QED
      BY <2>2, <2>3, <2>4, Zenon DEF n
  <1>5. ASSUME NEW step \in {"order", "propagate"}, running' = [running EXCEPT ![e].at = step]
        PROVE  Goes(e, step, r.next, r.pending, r.holdsParents)
    <2> DEFINE d == [r EXCEPT !.at = step]
    <2>1. running' = [running EXCEPT ![e] = d]
      BY <1>5
    <2>2. /\ d \in Goroutine /\ d.at = step /\ d.next = r.next
          /\ d.pending = r.pending /\ d.holdsParents = r.holdsParents
      BY <1>1 DEF Goroutine
    <2> HIDE DEF d
    <2>3. Goes(e, d.at, d.next, d.pending, d.holdsParents)
      BY <2>1, <2>2, Becomes
    <2> QED
      BY <2>2, <2>3, Zenon
  <1>6. ASSUME running' = [running EXCEPT ![e] =
                 [at |-> "parents", next |-> 1, pending |-> 0, holdsParents |-> TRUE]]
        PROVE  Goes(e, "parents", 1, 0, TRUE)
    <2>1. [at |-> "parents", next |-> 1, pending |-> 0, holdsParents |-> TRUE] \in Goroutine
      BY DEF Goroutine
    <2> QED
      BY <1>1, <1>6, <2>1 DEF Goes
  <1> QED
    BY <1>2, <1>3, <1>4, <1>5, <1>6

-----------------------------------------------------------------------------
LEMMA TypeStep == TypeOK /\ [Next]_vars => TypeOK'
  <1> SUFFICES ASSUME TypeOK, [Next]_vars PROVE TypeOK'
    OBVIOUS
  <1> USE DEF TypeOK
  <1>1. ASSUME NEW e \in Entity, Queue(e) PROVE TypeOK'
    <2>1. running' \in [Entity -> Goroutine]
      BY <1>1, Moves DEF Queue, Goes
    <2>2. queued' \in [Entity -> 0..QueueLimit]
      BY <1>1, CausalOrderConstants DEF Queue
    <2> QED
      BY <1>1, <2>1, <2>2 DEF Queue, storage, eviction
  <1>2. ASSUME NEW e \in Entity, CheckParent(e) PROVE TypeOK'
    <2>1. running' \in [Entity -> Goroutine]
      BY <1>2, Moves, Goroutines DEF CheckParent, Goes
    <2> QED
      BY <1>2, <2>1 DEF CheckParent, storage, eviction
  <1>3. ASSUME NEW e \in Entity, RegisterUnorderedChild(e) PROVE TypeOK'
    <2>1. running' \in [Entity -> Goroutine]
      BY <1>3, Moves DEF RegisterUnorderedChild, Goes
    <2>2. unorderedChildren' \in [Entity -> [Entity -> Nat]]
      <3> DEFINE p == Parents[e][running[e].next]
      <3>1. unorderedChildren' = [unorderedChildren EXCEPT ![p][e] = @ + 1]
        BY <1>3 DEF RegisterUnorderedChild
      <3> HIDE DEF p
      <3> DEFINE row == [unorderedChildren[p] EXCEPT ![e] = @ + 1]
      <3>2. unorderedChildren' = [unorderedChildren EXCEPT ![p] = row]
        BY <3>1
      <3>3. ASSUME p \in Entity PROVE row \in [Entity -> Nat]
        <4>1. unorderedChildren[p] \in [Entity -> Nat] /\ unorderedChildren[p][e] + 1 \in Nat
          BY <3>3
        <4> QED
          BY <4>1
      <3> HIDE DEF row
      <3> QED
        BY <3>2, <3>3
    <2> QED
      BY <1>3, <2>1, <2>2 DEF RegisterUnorderedChild, eviction
  <1>4. ASSUME NEW e \in Entity, SetUnorderedParentsCounter(e) PROVE TypeOK'
    <2>1. Index[e] \in Nat /\ running[e].pending \in 0..255
      BY CausalOrderConstants, Goroutines
    <2>2. running' \in [Entity -> Goroutine]
      BY <1>4, Goroutines DEF SetUnorderedParentsCounter, Goes
    <2> QED
      BY <1>4, <2>1, <2>2 DEF SetUnorderedParentsCounter, eviction
  <1>5. ASSUME NEW e \in Entity, AllParentsOrdered(e) PROVE TypeOK'
    <2>1. running' \in [Entity -> Goroutine]
      BY <1>5, Moves DEF AllParentsOrdered, Goes
    <2> QED
      BY <1>5, <2>1 DEF AllParentsOrdered, storage, eviction
  <1>6. ASSUME NEW e \in Entity, TriggerOrderedCallback(e) PROVE TypeOK'
    <2>1. running' \in [Entity -> Goroutine]
      BY <1>6, Moves, Goroutines DEF TriggerOrderedCallback, Goes
    <2> QED
      BY <1>6, <2>1 DEF TriggerOrderedCallback, storage, eviction
  <1>7. ASSUME NEW e \in Entity, PropagateOrderToChildren(e) PROVE TypeOK'
    <2>1. running' \in [Entity -> Goroutine]
      BY <1>7, Goroutines DEF PropagateOrderToChildren, Goes
    <2>2. /\ tasks' \in [Entity -> Nat]
          /\ unorderedChildren' \in [Entity -> [Entity -> Nat]]
      BY <1>7 DEF PropagateOrderToChildren
    <2> QED
      BY <1>7, <2>1, <2>2 DEF PropagateOrderToChildren, eviction
  <1>8. ASSUME NEW e \in Entity, TriggerChildIfReady(e) PROVE TypeOK'
    <2>1. running' \in [Entity -> Goroutine]
      BY <1>8, Moves DEF TriggerChildIfReady, Goes
    <2>2. tasks' \in [Entity -> Nat]
      BY <1>8 DEF TriggerChildIfReady
    <2>3. Decreased(e) \in 0..255
      <3>1. \A n \in 0..255 : (n - 1) % 256 \in 0..255
        OBVIOUS
      <3> QED
        BY <3>1 DEF Decreased
    <2>4. counter' \in [Entity -> 0..255]
      BY <1>8, <2>3 DEF TriggerChildIfReady
    <2>5. crashed' \in BOOLEAN
      BY <1>8, Zenon DEF TriggerChildIfReady
    <2>6. UNCHANGED <<ordered, rejected, counterEpochs, unorderedChildren, eviction, queued>>
      BY <1>8 DEF TriggerChildIfReady
    <2> QED
      BY <2>1, <2>2, <2>4, <2>5, <2>6 DEF eviction
  <1>9. ASSUME NEW index \in 1..LastIndex, EvictUntil(index) PROVE TypeOK'
    <2>1. index \in Nat
      BY CausalOrderConstants
    <2>2. counter' \in [Entity -> 0..255] /\ unorderedChildren' \in [Entity -> [Entity -> Nat]]
      BY <1>9 DEF EvictUntil
    <2>3. evicting' \subseteq Entity /\ counterEpochs' \subseteq Nat /\ lastEvictedIndex' \in Nat
      BY <1>9, <2>1 DEF EvictUntil
    <2>4. UNCHANGED <<ordered, rejected, known, tasks, running, queued, crashed>>
      BY <1>9 DEF EvictUntil
    <2> QED
      BY <2>2, <2>3, <2>4
  <1>10. ASSUME NEW e \in Entity, EvictionCallback(e) PROVE TypeOK'
    BY <1>10 DEF EvictionCallback, storage
  <1>11. CASE Forget
    BY <1>11 DEF Forget, storage
  <1>12. CASE UNCHANGED vars
    BY <1>12 DEF vars, storage, eviction
  <1> QED
    BY <1>1, <1>2, <1>3, <1>4, <1>5, <1>6, <1>7, <1>8, <1>9, <1>10, <1>11, <1>12
       DEF Next, Proceed, Evict

-----------------------------------------------------------------------------
(* A step that concerns one entity: what is counted of the others stays.   *)
(* It does not touch an entity whose lock another goroutine reads.         *)
OnlyConcerns(e) ==
  /\ \A x \in Entity \ {e} :
       /\ running'[x] = running[x] /\ queued'[x] = queued[x]
       /\ tasks'[x] = tasks[x] /\ counter'[x] = counter[x]
       /\ \A p \in Entity : unorderedChildren'[p][x] = unorderedChildren[p][x]
       /\ x \in ordered' <=> x \in ordered
       /\ x \in rejected' <=> x \in rejected
  /\ lastEvictedIndex' = lastEvictedIndex /\ counterEpochs \subseteq counterEpochs'
  /\ Done' = Done
  /\ ~Running(e, "idle") \/ ~ReadLocked(e) \/ UNCHANGED <<running, ordered>>

LEMMA SamePositions ==
  /\ \A x, p \in Entity : PositionsOf(p, x)' = PositionsOf(p, x)
  /\ \A x \in Entity : Positions(x)' = Positions(x)
  /\ Done' = Done => \A x \in Entity : NotDone(x)' = NotDone(x)
  BY DEF PositionsOf, Positions, NotDone

(* Who inspects its parents finds them as they are.                        *)
LEMMA ParentsRest ==
  ASSUME IInv, NEW e \in Entity, OnlyConcerns(e), NEW x \in Entity \ {e},
         running[x].holdsParents
  PROVE  /\ \A p \in ParentIDs(x) : Running(p, "idle")' /\ (p \in ordered' <=> p \in ordered)
         /\ Found(x)' = Found(x)
  <1>1. \A p \in ParentIDs(x) : Running(p, "idle")' /\ (p \in ordered' <=> p \in ordered)
    <2> SUFFICES ASSUME NEW p \in ParentIDs(x)
                 PROVE  Running(p, "idle")' /\ (p \in ordered' <=> p \in ordered)
      OBVIOUS
    <2>1. p \in Entity /\ Running(p, "idle")
      BY ParentFacts DEF IInv, Locked
    <2>2. CASE p = e
      <3>1. ReadLocked(e) /\ Running(e, "idle")
        BY <2>1, <2>2 DEF ReadLocked
      <3>2. UNCHANGED <<running, ordered>>
        BY <3>1 DEF OnlyConcerns
      <3> QED
        BY <2>1, <3>2 DEF Running
    <2>3. CASE p # e
      BY <2>1, <2>3 DEF OnlyConcerns, Running
    <2> QED
      BY <2>2, <2>3
  <1>2. \A i \in Positions(x) : Parents[x][i] \in ordered' <=> Parents[x][i] \in ordered
    BY <1>1, ParentFacts
  <1>3. running'[x] = running[x]
    BY DEF OnlyConcerns
  <1> QED
    BY <1>1, <1>2, <1>3, SamePositions DEF Found

LEMMA Unmoved ==
  ASSUME IInv, NEW e \in Entity, OnlyConcerns(e), NEW x \in Entity \ {e}
  PROVE  Locked(x)' /\ Counted(x)' /\ (Final(x) => Final(x)')
  <1>1. /\ running'[x] = running[x] /\ queued'[x] = queued[x]
        /\ tasks'[x] = tasks[x] /\ counter'[x] = counter[x]
        /\ \A p \in Entity : unorderedChildren'[p][x] = unorderedChildren[p][x]
        /\ x \in ordered' <=> x \in ordered
        /\ x \in rejected' <=> x \in rejected
        /\ lastEvictedIndex' = lastEvictedIndex /\ counterEpochs \subseteq counterEpochs'
        /\ Done' = Done
    BY DEF OnlyConcerns
  <1>2. /\ \A step : Running(x, step)' <=> Running(x, step)
        /\ \A y \in Entity : TooOld(y)' <=> TooOld(y)
        /\ NotDone(x)' = NotDone(x)
        /\ \A p \in Entity : PositionsOf(p, x)' = PositionsOf(p, x)
    BY <1>1, SamePositions DEF Running, TooOld
  <1>3. Locked(x) /\ Counted(x)
    BY DEF IInv
  <1>4. running[x].holdsParents =>
          /\ \A p \in ParentIDs(x) : Running(p, "idle")' /\ (p \in ordered' <=> p \in ordered)
          /\ Found(x)' = Found(x)
    BY ParentsRest
  <1>5. Running(x, "register") => Parents[x][running[x].next] \in ParentIDs(x)
    BY <1>3, ParentFacts DEF Locked
  <1>6. Locked(x)'
    <2>1. running'[x].holdsParents => \A p \in ParentIDs(x) : Running(p, "idle")'
      BY <1>1, <1>4
    <2>2. Running(x, "register")' => Parents[x][running'[x].next] \notin ordered'
      BY <1>1, <1>2, <1>3, <1>4, <1>5 DEF Locked, Running
    <2> QED
      BY <1>1, <1>2, <1>3, <2>1, <2>2, SamePositions DEF Locked, ParentIDs
  <1>7. Untouched(x) => Untouched(x)'
    BY <1>1, <1>2 DEF Untouched
  <1>8. Settled(x) => Settled(x)'
    BY <1>1, <1>2 DEF Settled
  <1>9. Refused(x) => Refused(x)'
    BY <1>1, <1>2 DEF Refused, Owed
  <1>10. Waiting(x) => Waiting(x)'
    BY <1>1, <1>2 DEF Waiting, Owed
  <1>11. running[x].holdsParents /\ Inspecting(x) => Inspecting(x)'
    BY <1>1, <1>2, <1>4 DEF Inspecting
  <1>12. Counted(x)'
    BY <1>1, <1>2, <1>3, <1>7, <1>8, <1>9, <1>10, <1>11 DEF Counted, Locked
  <1>13. Final(x) => Final(x)'
    BY <1>1, <1>2, <1>9 DEF Final
  <1> QED
    BY <1>6, <1>12, <1>13

LEMMA SameDone ==
  ASSUME NEW e \in Entity, ordered \subseteq Entity, ordered' \subseteq Entity,
         \A x \in Entity \ {e} : running'[x] = running[x] /\ (x \in ordered' <=> x \in ordered),
         e \notin ordered \/ Running(e, "propagate"),
         e \notin ordered' \/ Running(e, "propagate")'
  PROVE  Done' = Done
  BY DEF Done, Running

LEMMA SameChildren ==
  ASSUME ChildInv, Done' = Done, UNCHANGED unorderedChildren
  PROVE  ChildInv'
  BY SamePositions DEF ChildInv

-----------------------------------------------------------------------------
(* The steps of an entity, one by one.                                     *)
LEMMA QueueStep ==
  ASSUME QueuedOnce, IInv, NEW e \in Entity, Queue(e)
  PROVE  /\ OnlyConcerns(e) /\ Locked(e)' /\ Counted(e)' /\ (Final(e) => Final(e)')
         /\ VerdictInv' /\ ChildInv'
  <1>1. /\ e \notin Roots /\ queued[e] = 0 /\ queued' = [queued EXCEPT ![e] = @ + 1]
        /\ queued'[e] = 1 /\ LocksFree(e)
        /\ UNCHANGED <<ordered, storage, eviction, tasks, crashed>>
    <2>1. queued \in [Entity -> 0..QueueLimit] /\ queued[e] \in 0..1
      BY DEF IInv, TypeOK, QueuedOnce
    <2>2. /\ e \notin Roots /\ queued[e] < 1 /\ queued' = [queued EXCEPT ![e] = @ + 1]
          /\ LocksFree(e) /\ UNCHANGED <<ordered, storage, eviction, tasks, crashed>>
      BY DEF Queue, QueuedOnce
    <2> QED
      BY <2>1, <2>2
  <1>2. Untouched(e) /\ e \notin ordered /\ Locked(e)
    BY <1>1 DEF IInv, Counted, Untouched
  <1>3. \/ TooOld(e) /\ rejected' = rejected \union {e} /\ UNCHANGED running
        \/ ~TooOld(e) /\ UNCHANGED rejected /\ Goes(e, "parents", 1, 0, TRUE)
    BY <1>2, Moves DEF Queue, IInv
  <1>4. Done' = Done
    BY <1>1, <1>2, <1>3, SameDone DEF Goes, IInv, TypeOK
  <1>5. OnlyConcerns(e)
    BY <1>1, <1>3, <1>4 DEF OnlyConcerns, Goes, LocksFree, storage, eviction, IInv, TypeOK
  <1>6. /\ UNCHANGED <<counter, unorderedChildren, counterEpochs, lastEvictedIndex, evicting>>
        /\ TooOld(e)' <=> TooOld(e)
    BY <1>1 DEF storage, eviction, TooOld
  <1>7. ChildInv'
    BY <1>4, <1>6, SameChildren DEF IInv
  <1>8. VerdictInv'
    <2>1. VerdictInv /\ queued \in [Entity -> 0..QueueLimit] /\ Roots \subseteq Entity
      BY CausalOrderConstants, Zenon DEF IInv, TypeOK
    <2>2. \A x \in Roots : queued'[x] = queued[x]
      BY <1>1, <2>1
    <2> QED
      BY <1>1, <1>6, <2>1, <2>2 DEF VerdictInv, TooOld
  <1>9. CASE TooOld(e) /\ rejected' = rejected \union {e} /\ UNCHANGED running
    <2>1. Locked(e)' /\ Counted(e)'
      BY <1>1, <1>2, <1>6, <1>9 DEF Locked, Counted, Untouched, Running
    <2>2. Final(e)'
      BY <1>1, <1>2, <1>6, <1>9 DEF Final, Untouched, Running
    <2> QED
      BY <1>5, <1>7, <1>8, <2>1, <2>2
  <1>10. CASE ~TooOld(e) /\ UNCHANGED rejected /\ Goes(e, "parents", 1, 0, TRUE)
    <2>1. /\ Running(e, "parents")' /\ running'[e].next = 1 /\ running'[e].pending = 0
          /\ e \notin ordered' /\ rejected' = rejected
      BY <1>1, <1>2, <1>10 DEF Goes, Running, Untouched
    <2>2. \A p \in ParentIDs(e) : Running(p, "idle")'
      BY <1>1, <1>10, ParentFacts DEF LocksFree, WriteLocked, Running, Goes
    <2>3. Locked(e)'
      BY <1>1, <1>6, <1>10, <2>1, <2>2, ParentFacts DEF Locked, Goes, Running
    <2>4. Found(e)' = {}
      BY <2>1 DEF Found, Positions
    <2>5. \A p \in Entity : Cardinality(Found(e)' \intersect PositionsOf(p, e)') = 0
      BY <2>4, FS_EmptySet
    <2>6. Inspecting(e)'
      BY <1>1, <1>2, <1>6, <2>1, <2>4, <2>5, FS_EmptySet DEF Inspecting, Untouched, Running
    <2>7. Final(e) => e \notin rejected
      BY <1>1, <1>10 DEF Final
    <2> QED
      BY <1>1, <1>5, <1>6, <1>7, <1>8, <2>1, <2>3, <2>6, <2>7 DEF Counted, Final, Running
  <1> QED
    BY <1>3, <1>9, <1>10

LEMMA CheckParentStep ==
  ASSUME IInv, NEW e \in Entity, CheckParent(e)
  PROVE  /\ OnlyConcerns(e) /\ Locked(e)' /\ Counted(e)' /\ (Final(e) => Final(e)')
         /\ VerdictInv' /\ ChildInv'
  <1> DEFINE p == Parents[e][running[e].next]
  <1>1. /\ Running(e, "parents") /\ running[e].next <= Len(Parents[e])
        /\ UNCHANGED <<ordered, storage, eviction, tasks, queued, crashed>>
    BY DEF CheckParent
  <1>2. /\ Locked(e) /\ Inspecting(e) /\ e \notin ordered /\ ~TooOld(e)
        /\ queued[e] # 0 /\ running[e].holdsParents /\ 1 <= running[e].next
        /\ e \notin Roots /\ (Final(e) => e \notin rejected)
    BY <1>1 DEF IInv, Locked, Counted, Final, Running, VerdictInv
  <1>3. /\ running[e].next \in Nat /\ running[e].next \in Positions(e)
        /\ p \in ParentIDs(e) /\ p \in Entity /\ p # e
    <2>1. running[e].next \in Nat /\ Len(Parents[e]) \in Nat
      BY Goroutines, ParentFacts DEF IInv
    <2>2. running[e].next \in Positions(e)
      BY <1>1, <1>2, <2>1 DEF Positions
    <2> QED
      BY <2>1, <2>2, ParentFacts
  <1>4. \/ /\ rejected' = rejected \union {e}
           /\ Goes(e, "idle", 0, 0, FALSE)
        \/ /\ p \in ordered /\ UNCHANGED rejected
           /\ Goes(e, "parents", running[e].next + 1, running[e].pending, running[e].holdsParents)
        \/ /\ p \notin ordered /\ UNCHANGED rejected
           /\ Goes(e, "register", running[e].next, (running[e].pending + 1) % 256,
                   running[e].holdsParents)
    <2>1. TypeOK /\ running[e].at = "parents"
      BY <1>1 DEF IInv, Running
    <2>2. Release(e) => Goes(e, "idle", 0, 0, FALSE)
      BY <2>1, Goroutines
    <2>3. running' = [running EXCEPT ![e].next = @ + 1] =>
            Goes(e, "parents", running[e].next + 1, running[e].pending, running[e].holdsParents)
      BY <2>1, Moves
    <2>4. running' = [running EXCEPT ![e].at = "register", ![e].pending = (@ + 1) % 256] =>
            Goes(e, "register", running[e].next, (running[e].pending + 1) % 256,
                 running[e].holdsParents)
      BY <2>1, Moves
    <2>5. \/ rejected' = rejected \union {e} /\ Release(e)
          \/ /\ p \in ordered /\ UNCHANGED rejected
             /\ running' = [running EXCEPT ![e].next = @ + 1]
          \/ /\ p \notin ordered /\ UNCHANGED rejected
             /\ running' = [running EXCEPT ![e].at = "register", ![e].pending = (@ + 1) % 256]
      BY DEF CheckParent
    <2> QED
      BY <2>2, <2>3, <2>4, <2>5, Zenon
  <1>5. Done' = Done
    BY <1>1, <1>2, <1>4, SameDone DEF Goes, IInv, TypeOK
  <1>6. OnlyConcerns(e)
    BY <1>1, <1>4, <1>5 DEF OnlyConcerns, Goes, Running, storage, eviction
  <1>7. /\ UNCHANGED <<counter, unorderedChildren, counterEpochs, lastEvictedIndex, evicting>>
        /\ TooOld(e)' <=> TooOld(e)
    BY <1>1 DEF storage, eviction, TooOld
  <1>8. ChildInv'
    BY <1>5, <1>7, SameChildren DEF IInv
  <1>9. VerdictInv'
    BY <1>1, <1>2, <1>4, <1>7 DEF VerdictInv, IInv, TooOld
  <1>10. CASE rejected' = rejected \union {e} /\ Goes(e, "idle", 0, 0, FALSE)
    <2>1. Refused(e)'
      <3>1. Owed(e)' < 256
        <4>1. NotDone(e)' = NotDone(e) /\ tasks'[e] = 0
          BY <1>1, <1>2, <1>5, SamePositions DEF Inspecting
        <4>2. Cardinality(NotDone(e)) \in Nat /\ Cardinality(NotDone(e)) < 256
          BY CountsAreNumbers
        <4> QED
          BY <4>1, <4>2 DEF Owed
      <3> QED
        BY <3>1, <1>2, <1>7 DEF Refused, Inspecting
    <2>2. Locked(e)'
      BY <1>10 DEF Locked, Goes, Running
    <2>3. Counted(e)'
      BY <1>1, <1>2, <1>10, <2>1 DEF Counted, Goes, Running
    <2>4. Final(e)'
      BY <1>1, <1>2, <1>10, <2>1 DEF Final, Goes, Running
    <2> QED
      BY <1>6, <1>8, <1>9, <2>2, <2>3, <2>4
  <1>11. ASSUME UNCHANGED rejected, NEW step \in {"parents", "register"}, NEW next \in Nat,
                NEW pending, Goes(e, step, next, pending, running[e].holdsParents),
                next <= Len(Parents[e]) + 1, 1 <= next,
                step = "register" => next \in Positions(e) /\ Parents[e][next] \notin ordered,
                {i \in Positions(e) : i < next /\ Parents[e][i] \notin ordered} = Found(e),
                pending = Cardinality(Found(e)) + (IF step = "register" THEN 1 ELSE 0)
         PROVE  Locked(e)' /\ Counted(e)' /\ (Final(e) => Final(e)')
    <2>1. /\ running'[e].at = step /\ running'[e].next = next /\ running'[e].pending = pending
          /\ running'[e].holdsParents
          /\ e \notin ordered' /\ queued'[e] # 0 /\ ordered' = ordered
      BY <1>1, <1>2, <1>11 DEF Goes
    <2>2. Found(e)' = Found(e)
      BY <1>11, <2>1, SamePositions DEF Found
    <2>3. \A q \in ParentIDs(e) : Running(q, "idle")'
      BY <1>2, <1>11, ParentFacts DEF Locked, Running, Goes
    <2>4. Locked(e)'
      BY <1>2, <1>7, <1>11, <2>1, <2>3 DEF Locked, Running, Positions
    <2>5. Inspecting(e)'
      BY <1>1, <1>2, <1>7, <1>11, <2>1, <2>2, SamePositions DEF Inspecting, Running
    <2>6. Final(e) => Final(e)'
      BY <1>2, <1>11 DEF Final
    <2> QED
      BY <2>1, <2>4, <2>5, <2>6 DEF Counted, Running
  <1>12. CASE /\ p \in ordered /\ UNCHANGED rejected
              /\ Goes(e, "parents", running[e].next + 1, running[e].pending, running[e].holdsParents)
    <2>1. {i \in Positions(e) : i < running[e].next + 1 /\ Parents[e][i] \notin ordered} = Found(e)
      BY <1>3, <1>12 DEF Found, Positions
    <2>2. running[e].pending = Cardinality(Found(e))
      BY <1>1, <1>2, CountsAreNumbers DEF Inspecting, Running
    <2>3. /\ running[e].next + 1 \in Nat /\ running[e].next + 1 <= Len(Parents[e]) + 1
          /\ 1 <= running[e].next + 1
      BY <1>1, <1>3, ParentFacts
    <2> HIDE DEF p
    <2> QED
      BY <1>6, <1>8, <1>9, <1>11, <1>12, <2>1, <2>2, <2>3, CountsAreNumbers
  <1>13. CASE /\ p \notin ordered /\ UNCHANGED rejected
              /\ Goes(e, "register", running[e].next, (running[e].pending + 1) % 256,
                      running[e].holdsParents)
    <2>1. Found(e) = {i \in Positions(e) : i < running[e].next /\ Parents[e][i] \notin ordered}
      BY DEF Found
    <2>2. running[e].pending = Cardinality(Found(e))
      BY <1>1, <1>2, CountsAreNumbers DEF Inspecting, Running
    <2>3. Cardinality(Found(e)) < 255
      <3>1. Found(e) \in SUBSET Positions(e) /\ Found(e) # Positions(e) /\ Positions(e) \in SUBSET Positions(e)
        BY <1>3, <2>1
      <3>2. /\ IsFiniteSet(Positions(e)) /\ Cardinality(Positions(e)) \in Nat
            /\ Cardinality(Positions(e)) <= Len(Parents[e])
            /\ Len(Parents[e]) \in Nat /\ Len(Parents[e]) < 256
        BY <3>1, CountFacts
      <3>3. Cardinality(Found(e)) <= Cardinality(Positions(e))
            /\ Cardinality(Found(e)) # Cardinality(Positions(e))
        BY <3>1, <3>2, FS_Subset
      <3> QED
        BY <3>2, <3>3, CountsAreNumbers
    <2>4. (running[e].pending + 1) % 256 = Cardinality(Found(e)) + 1
      BY <2>2, <2>3, CountsAreNumbers
    <2>5. running[e].next <= Len(Parents[e]) + 1
      BY <1>1, <1>3, ParentFacts
    <2> QED
      BY <1>2, <1>3, <1>6, <1>8, <1>9, <1>11, <1>13, <2>1, <2>4, <2>5
  <1> QED
    BY <1>4, <1>10, <1>12, <1>13

LEMMA RegisterStep ==
  ASSUME IInv, NEW e \in Entity, RegisterUnorderedChild(e)
  PROVE  /\ OnlyConcerns(e) /\ Locked(e)' /\ Counted(e)' /\ (Final(e) => Final(e)')
         /\ VerdictInv' /\ ChildInv'
  <1> DEFINE j == running[e].next
             p == Parents[e][j]
  <1>1. /\ Running(e, "register")
        /\ unorderedChildren' = [unorderedChildren EXCEPT ![p][e] = @ + 1]
        /\ Goes(e, "parents", j + 1, running[e].pending, running[e].holdsParents)
        /\ UNCHANGED <<ordered, rejected, counter, counterEpochs, eviction, tasks, queued, crashed>>
    BY Moves DEF RegisterUnorderedChild, IInv
  <1>2. /\ Locked(e) /\ Inspecting(e) /\ e \notin ordered /\ ~TooOld(e)
        /\ (Final(e) => e \notin rejected)
        /\ queued[e] # 0 /\ running[e].holdsParents /\ j \in Positions(e) /\ p \notin ordered
        /\ \A q \in ParentIDs(e) : Running(q, "idle")
    BY <1>1 DEF IInv, Locked, Counted, Final, Running
  <1>3. /\ j \in Nat /\ 1 <= j /\ j <= Len(Parents[e]) /\ Len(Parents[e]) \in Nat
        /\ p \in ParentIDs(e) /\ p \in Entity /\ p # e
    <2>1. j \in Nat /\ Len(Parents[e]) \in Nat
      BY Goroutines, ParentFacts DEF IInv
    <2> QED
      BY <1>2, <2>1, ParentFacts DEF Positions
  <1>4. Done' = Done /\ p \notin Done
    <2>1. ordered \subseteq Entity
      BY DEF IInv, TypeOK
    <2>2. \A x \in Entity \ {e} : running'[x] = running[x]
      BY <1>1 DEF Goes
    <2> QED
      BY <1>1, <1>2, <2>1, <2>2, SameDone DEF Done
  <1>5. \A q, c \in Entity :
          unorderedChildren'[q][c] =
            IF q = p /\ c = e THEN unorderedChildren[p][e] + 1 ELSE unorderedChildren[q][c]
    <2>1. unorderedChildren \in [Entity -> [Entity -> Nat]]
      BY DEF IInv, TypeOK
    <2> HIDE DEF p
    <2> QED
      BY <1>1, <1>3, <2>1
  <1>6. OnlyConcerns(e)
    <2>1. /\ running[e].at = "register" /\ UNCHANGED <<counter, counterEpochs, lastEvictedIndex>>
          /\ \A x \in Entity \ {e} : running'[x] = running[x]
      BY <1>1 DEF Goes, Running, eviction
    <2>2. \A x \in Entity \ {e} : \A q \in Entity : unorderedChildren'[q][x] = unorderedChildren[q][x]
      BY <1>5
    <2> QED
      BY <1>1, <1>4, <2>1, <2>2 DEF OnlyConcerns, Running
  <1>7. /\ UNCHANGED <<counter, counterEpochs, lastEvictedIndex, evicting>>
        /\ TooOld(e)' <=> TooOld(e)
    BY <1>1 DEF eviction, TooOld
  <1>8. VerdictInv'
    BY <1>1, <1>7 DEF VerdictInv, IInv, TooOld
  (* One more position is found.                                           *)
  <1>9. /\ Found(e)' = Found(e) \union {j} /\ j \notin Found(e)
        /\ IsFiniteSet(Found(e)) /\ Cardinality(Found(e)') = Cardinality(Found(e)) + 1
    <2>1. \A i \in Positions(e) : i < j + 1 <=> i < j \/ i = j
      BY <1>3, ParentFacts DEF Positions
    <2>2. Found(e)' = {i \in Positions(e) : i < j + 1 /\ Parents[e][i] \notin ordered}
      BY <1>1, SamePositions DEF Found, Goes
    <2>3. Found(e)' = Found(e) \union {j} /\ j \notin Found(e)
      BY <1>2, <1>3, <2>1, <2>2 DEF Found
    <2>4. IsFiniteSet(Found(e))
      BY CountFacts DEF Found
    <2> QED
      BY <2>3, <2>4, FS_AddElement
  <1>10. /\ \A q \in Entity \ {p} :
              Found(e)' \intersect PositionsOf(q, e) = Found(e) \intersect PositionsOf(q, e)
         /\ Cardinality(Found(e)' \intersect PositionsOf(p, e)) =
              Cardinality(Found(e) \intersect PositionsOf(p, e)) + 1
         /\ Cardinality(Found(e)' \intersect PositionsOf(p, e)) <= Cardinality(PositionsOf(p, e))
    <2>1. /\ \A q \in Entity \ {p} :
               Found(e)' \intersect PositionsOf(q, e) = Found(e) \intersect PositionsOf(q, e)
          /\ Found(e)' \intersect PositionsOf(p, e) =
               (Found(e) \intersect PositionsOf(p, e)) \union {j}
          /\ j \notin Found(e) \intersect PositionsOf(p, e)
      BY <1>2, <1>9 DEF PositionsOf
    <2>2. IsFiniteSet(Found(e) \intersect PositionsOf(p, e))
      BY <1>9, FS_Intersection
    <2>3. Cardinality(Found(e)' \intersect PositionsOf(p, e)) =
            Cardinality(Found(e) \intersect PositionsOf(p, e)) + 1
      BY <2>1, <2>2, FS_AddElement
    <2>4. IsFiniteSet(PositionsOf(p, e))
      BY CountFacts DEF PositionsOf
    <2>5. Cardinality(Found(e)' \intersect PositionsOf(p, e)) <= Cardinality(PositionsOf(p, e))
      BY <2>4, FS_Subset
    <2> QED
      BY <2>1, <2>3, <2>5
  <1> HIDE DEF p
  <1>11. \A q \in Entity : unorderedChildren'[q][e] =
                             Cardinality(Found(e)' \intersect PositionsOf(q, e))
    BY <1>2, <1>3, <1>5, <1>10 DEF Inspecting
  <1>12. ChildInv'
    <2> SUFFICES ASSUME NEW q \in Entity, NEW c \in Entity
                 PROVE  /\ q \in Done' => unorderedChildren'[q][c] = 0
                        /\ unorderedChildren'[q][c] <= Cardinality(PositionsOf(q, c))
      BY SamePositions DEF ChildInv
    <2>1. CASE q = p /\ c = e
      BY <1>4, <1>10, <1>11, <2>1
    <2>2. CASE q # p \/ c # e
      BY <1>4, <1>5, <2>2 DEF ChildInv, IInv
    <2> QED
      BY <2>1, <2>2
  <1>13. /\ running'[e].at = "parents" /\ running'[e].next = j + 1
         /\ running'[e].pending = running[e].pending /\ running'[e].holdsParents
    BY <1>1, <1>2 DEF Goes
  <1>14. Locked(e)'
    <2>1. \A q \in ParentIDs(e) : Running(q, "idle")'
      BY <1>1, <1>2, ParentFacts DEF Running, Goes
    <2>2. 1 <= j + 1 /\ j + 1 <= Len(Parents[e]) + 1
      BY <1>3
    <2> QED
      BY <1>1, <1>2, <1>7, <1>13, <2>1, <2>2 DEF Locked, Running
  <1>15. Inspecting(e)'
    <2>1. running[e].pending = Cardinality(Found(e)) + 1
      BY <1>1, <1>2 DEF Inspecting
    <2>2. tasks'[e] = 0 /\ counter'[e] = 0
      BY <1>1, <1>2 DEF Inspecting
    <2>3. running'[e].pending = Cardinality(Found(e)') + 0
      BY <1>9, <1>13, <2>1, CountsAreNumbers
    <2>4. Running(e, "register")' = FALSE
      BY <1>13 DEF Running
    <2>5. \A q \in Entity : unorderedChildren'[q][e] =
                              Cardinality(Found(e)' \intersect PositionsOf(q, e)')
      BY <1>11, SamePositions
    <2> QED
      BY <2>2, <2>3, <2>4, <2>5 DEF Inspecting
  <1>16. Final(e) => Final(e)'
    BY <1>1, <1>2 DEF Final
  <1> QED
    BY <1>1, <1>2, <1>6, <1>8, <1>12, <1>13, <1>14, <1>15, <1>16 DEF Counted, Running

(* When all parents were inspected, what was found is what is not done.    *)
LEMMA AllFound ==
  ASSUME IInv, NEW e \in Entity, CheckedAll(e)
  PROVE  /\ Found(e) = NotDone(e) /\ running[e].pending = Cardinality(NotDone(e))
         /\ Inspecting(e) /\ Locked(e) /\ running[e].holdsParents
         /\ e \notin ordered /\ ~TooOld(e) /\ queued[e] # 0 /\ (Final(e) => e \notin rejected)
  <1>1. /\ Locked(e) /\ Inspecting(e) /\ running[e].holdsParents
        /\ running[e].next <= Len(Parents[e]) + 1 /\ running[e].next > Len(Parents[e])
        /\ \A p \in ParentIDs(e) : Running(p, "idle") /\ p \in Entity
        /\ e \notin ordered /\ ~TooOld(e) /\ queued[e] # 0 /\ (Final(e) => e \notin rejected)
    BY ParentFacts DEF IInv, Locked, Counted, CheckedAll, Final, Running
  <1>2. \A i \in Positions(e) : i < running[e].next
    <2>1. running[e].next \in Nat /\ Len(Parents[e]) \in Nat
      BY Goroutines, ParentFacts DEF IInv
    <2> QED
      BY <1>1, <2>1 DEF Positions
  <1>3. \A i \in Positions(e) : Parents[e][i] \in ordered <=> Parents[e][i] \in Done
    BY <1>1, ParentFacts DEF Done, Running
  <1>4. Found(e) = NotDone(e)
    BY <1>2, <1>3 DEF Found, NotDone
  <1>5. running[e].pending = Cardinality(Found(e))
    BY <1>1, CountsAreNumbers DEF CheckedAll, Inspecting, Running
  <1> QED
    BY <1>1, <1>4, <1>5

LEMMA SetCounterStep ==
  ASSUME IInv, NEW e \in Entity, SetUnorderedParentsCounter(e)
  PROVE  /\ OnlyConcerns(e) /\ Locked(e)' /\ Counted(e)' /\ (Final(e) => Final(e)')
         /\ VerdictInv' /\ ChildInv'
  <1>1. /\ CheckedAll(e) /\ running[e].pending # 0
        /\ counter' = [counter EXCEPT ![e] = running[e].pending]
        /\ counterEpochs' = counterEpochs \union {Index[e]}
        /\ Goes(e, "idle", 0, 0, FALSE)
        /\ UNCHANGED <<ordered, rejected, unorderedChildren, eviction, tasks, queued, crashed>>
    BY Goroutines DEF SetUnorderedParentsCounter, IInv
  <1>2. /\ running[e].pending = Cardinality(NotDone(e)) /\ Found(e) = NotDone(e)
        /\ Inspecting(e) /\ e \notin ordered /\ ~TooOld(e) /\ queued[e] # 0
        /\ (Final(e) => e \notin rejected)
    BY <1>1, AllFound
  <1>3. Done' = Done /\ NotDone(e)' = NotDone(e)
    BY <1>1, <1>2, SameDone, SamePositions DEF Goes, IInv, TypeOK
  <1>4. /\ counter'[e] = Cardinality(NotDone(e)) /\ tasks'[e] = 0
        /\ \A x \in Entity \ {e} : counter'[x] = counter[x]
        /\ UNCHANGED <<lastEvictedIndex, evicting>>
    BY <1>1, <1>2 DEF IInv, TypeOK, Inspecting, eviction
  <1>5. OnlyConcerns(e)
    BY <1>1, <1>3, <1>4 DEF OnlyConcerns, Goes, Running, CheckedAll
  <1>6. ChildInv'
    BY <1>1, <1>3, SameChildren DEF IInv
  <1>7. Index[e] > lastEvictedIndex
    BY <1>2, CausalOrderConstants DEF TooOld, IInv, TypeOK
  <1>8. VerdictInv'
    BY <1>1, <1>4, <1>7 DEF VerdictInv, IInv, TooOld
  <1>9. Waiting(e)'
    <2>1. counter'[e] = Owed(e)' /\ counter'[e] # 0
      BY <1>1, <1>2, <1>3, <1>4, CountsAreNumbers DEF Owed
    <2>2. ASSUME NEW p \in Entity \ Done
          PROVE  unorderedChildren[p][e] = Cardinality(PositionsOf(p, e))
      <3>1. NotDone(e) \intersect PositionsOf(p, e) = PositionsOf(p, e)
        BY <2>2 DEF NotDone, PositionsOf
      <3> QED
        BY <1>2, <3>1 DEF Inspecting
    <2> QED
      BY <1>1, <1>3, <2>1, <2>2, SamePositions DEF Waiting
  <1>10. Locked(e)'
    BY <1>1 DEF Locked, Goes, Running
  <1>11. Counted(e)'
    BY <1>1, <1>2, <1>9 DEF Counted, Goes, Running
  <1>12. Final(e) => Final(e)'
    BY <1>1, <1>2 DEF Final
  <1> QED
    BY <1>5, <1>6, <1>8, <1>10, <1>11, <1>12

LEMMA AllParentsOrderedStep ==
  ASSUME IInv, NEW e \in Entity, AllParentsOrdered(e)
  PROVE  /\ OnlyConcerns(e) /\ Locked(e)' /\ Counted(e)' /\ (Final(e) => Final(e)')
         /\ VerdictInv' /\ ChildInv'
  <1>1. /\ CheckedAll(e) /\ running[e].pending = 0
        /\ Goes(e, "order", running[e].next, running[e].pending, running[e].holdsParents)
        /\ UNCHANGED <<ordered, rejected, storage, eviction, tasks, queued, crashed>>
    BY Moves DEF AllParentsOrdered, IInv
  <1>2. /\ NotDone(e) = {} /\ Inspecting(e) /\ Locked(e) /\ running[e].holdsParents
        /\ e \notin ordered /\ ~TooOld(e) /\ queued[e] # 0 /\ (Final(e) => e \notin rejected)
    BY <1>1, AllFound, CountsAreNumbers
  <1>3. Done' = Done /\ NotDone(e)' = NotDone(e)
    BY <1>1, <1>2, SameDone, SamePositions DEF Goes, IInv, TypeOK
  <1>4. /\ UNCHANGED <<counter, unorderedChildren, counterEpochs, lastEvictedIndex, evicting>>
        /\ TooOld(e)' <=> TooOld(e)
    BY <1>1 DEF storage, eviction, TooOld
  <1>5. OnlyConcerns(e)
    BY <1>1, <1>3, <1>4 DEF OnlyConcerns, Goes, Running, CheckedAll
  <1>6. ChildInv' /\ VerdictInv'
    BY <1>1, <1>3, <1>4, SameChildren DEF VerdictInv, IInv, TooOld
  <1>7. Settled(e)'
    BY <1>1, <1>2, <1>3, <1>4 DEF Settled, Inspecting
  <1>8. \A p \in ParentIDs(e) : Running(p, "idle")'
    BY <1>1, <1>2, ParentFacts DEF Locked, Running, Goes
  <1>9. Locked(e)'
    BY <1>1, <1>2, <1>4, <1>8 DEF Locked, Goes, Running
  <1>10. Counted(e)'
    BY <1>1, <1>2, <1>7 DEF Counted, Goes, Running
  <1>11. Final(e) => Final(e)'
    BY <1>1, <1>2 DEF Final
  <1> QED
    BY <1>5, <1>6, <1>9, <1>10, <1>11

LEMMA OrderedCallbackStep ==
  ASSUME IInv, NEW e \in Entity, TriggerOrderedCallback(e)
  PROVE  /\ OnlyConcerns(e) /\ Locked(e)' /\ Counted(e)' /\ (Final(e) => Final(e)')
         /\ VerdictInv' /\ ChildInv'
  <1>1. /\ Running(e, "order")
        /\ UNCHANGED <<storage, eviction, tasks, queued, crashed>>
        /\ \/ /\ rejected' = rejected \union {e} /\ UNCHANGED ordered
              /\ Goes(e, "idle", 0, 0, FALSE)
           \/ /\ ordered' = ordered \union {e} /\ UNCHANGED rejected
              /\ Goes(e, "propagate", running[e].next, running[e].pending, running[e].holdsParents)
    BY Moves, Goroutines DEF TriggerOrderedCallback, IInv
  <1>2. /\ Locked(e) /\ Settled(e) /\ e \notin ordered /\ ~TooOld(e)
        /\ queued[e] # 0 /\ (Final(e) => e \notin rejected)
    BY <1>1 DEF IInv, Locked, Counted, Final, Running
  <1>3. Done' = Done /\ NotDone(e)' = NotDone(e)
    BY <1>1, <1>2, SameDone, SamePositions DEF Goes, IInv, TypeOK, Running
  <1>4. /\ UNCHANGED <<counter, unorderedChildren, counterEpochs, lastEvictedIndex, evicting>>
        /\ TooOld(e)' <=> TooOld(e)
    BY <1>1 DEF storage, eviction, TooOld
  <1>5. OnlyConcerns(e)
    BY <1>1, <1>3, <1>4 DEF OnlyConcerns, Goes, Running
  <1>6. ChildInv'
    BY <1>3, <1>4, SameChildren DEF IInv
  <1>7. VerdictInv'
    BY <1>1, <1>2, <1>4 DEF VerdictInv, IInv, TooOld
  <1>8. Settled(e)' /\ Owed(e)' = 0
    BY <1>1, <1>2, <1>3, <1>4, FS_EmptySet DEF Settled, Owed
  <1>9. CASE /\ rejected' = rejected \union {e} /\ UNCHANGED ordered
             /\ Goes(e, "idle", 0, 0, FALSE)
    <2>1. Refused(e)' /\ e \in rejected' /\ e \notin ordered' /\ queued'[e] # 0
      BY <1>1, <1>2, <1>8, <1>9 DEF Refused, Settled
    <2>2. Final(e)'
      BY <1>9, <2>1 DEF Final, Goes, Running
    <2> QED
      BY <1>5, <1>6, <1>7, <1>9, <2>1, <2>2 DEF Locked, Counted, Goes, Running
  <1>10. CASE /\ ordered' = ordered \union {e} /\ UNCHANGED rejected
              /\ Goes(e, "propagate", running[e].next, running[e].pending, running[e].holdsParents)
    <2>1. running[e].holdsParents => \A p \in ParentIDs(e) : Running(p, "idle")'
      BY <1>2, <1>10, ParentFacts DEF Locked, Running, Goes
    <2>2. Locked(e)'
      BY <1>1, <1>2, <1>4, <1>10, <2>1 DEF Locked, Goes, Running
    <2>3. Counted(e)'
      BY <1>1, <1>2, <1>8, <1>10 DEF Counted, Goes, Running
    <2>4. Final(e) => Final(e)'
      BY <1>2, <1>10 DEF Final
    <2> QED
      BY <1>5, <1>6, <1>7, <2>2, <2>3, <2>4
  <1> QED
    BY <1>1, <1>9, <1>10

(* A task decreases the counter, and what is owed, by one.                 *)
LEMMA TaskStep ==
  ASSUME IInv, NEW e \in Entity, TriggerChildIfReady(e)
  PROVE  /\ OnlyConcerns(e) /\ Locked(e)' /\ Counted(e)' /\ (Final(e) => Final(e)')
         /\ VerdictInv' /\ ChildInv'
  <1>1. /\ Running(e, "idle") /\ ~ReadLocked(e) /\ tasks[e] \in Nat /\ tasks[e] > 0
        /\ tasks' = [tasks EXCEPT ![e] = @ - 1] /\ tasks'[e] = tasks[e] - 1
        /\ UNCHANGED <<ordered, rejected, counterEpochs, unorderedChildren, eviction, queued>>
    BY DEF TriggerChildIfReady, WriteLocked, IInv, TypeOK
  <1>2. \/ /\ e \in ordered \/ Index[e] \notin counterEpochs
           /\ UNCHANGED <<counter, running>>
        \/ /\ e \notin ordered /\ Index[e] \in counterEpochs
           /\ counter' = [counter EXCEPT ![e] = Decreased(e)]
           /\ IF Decreased(e) = 0
              THEN Goes(e, "order", running[e].next, running[e].pending, running[e].holdsParents)
              ELSE UNCHANGED running
    BY Moves DEF TriggerChildIfReady, IInv
  <1>3. /\ Locked(e) /\ Counted(e) /\ queued[e] # 0 /\ ~running[e].holdsParents
        /\ e \notin ordered
    <2>1. queued[e] # 0
      BY <1>1 DEF IInv, Counted, Untouched
    <2>2. e \notin ordered
      BY <1>1, <2>1 DEF IInv, Counted, Settled, VerdictInv
    <2> QED
      BY <1>1, <2>1, <2>2 DEF IInv, Locked
  <1>4. Done' = Done /\ NotDone(e)' = NotDone(e)
    <2>1. \A x \in Entity \ {e} : running'[x] = running[x]
      BY <1>2 DEF Goes
    <2> QED
      BY <1>1, <1>3, <2>1, SameDone, SamePositions DEF IInv, TypeOK
  <1>5. /\ UNCHANGED <<lastEvictedIndex, evicting>>
        /\ TooOld(e)' <=> TooOld(e)
    BY <1>1 DEF eviction, TooOld
  <1>6. OnlyConcerns(e)
    <2>1. \A x \in Entity \ {e} : running'[x] = running[x] /\ counter'[x] = counter[x]
      <3>1. counter \in [Entity -> 0..255]
        BY DEF IInv, TypeOK
      <3> QED
        BY <1>2, <3>1 DEF Goes
    <2>2. \A x \in Entity \ {e} : tasks'[x] = tasks[x]
      BY <1>1
    <2> QED
      BY <1>1, <1>4, <1>5, <2>1, <2>2 DEF OnlyConcerns
  <1>7. ChildInv' /\ VerdictInv'
    BY <1>1, <1>4, <1>5, SameChildren DEF VerdictInv, IInv, TooOld
  <1>8. /\ Owed(e) \in Nat /\ Owed(e)' = Owed(e) - 1 /\ Owed(e) > 0
        /\ counter[e] \in Nat /\ counter[e] < 256 /\ Decreased(e) = (counter[e] - 1) % 256
        /\ Owed(e)' = 0 => tasks'[e] = 0 /\ NotDone(e)' = {}
    <2>1. Cardinality(NotDone(e)) \in Nat /\ (Cardinality(NotDone(e)) = 0 <=> NotDone(e) = {})
      BY CountsAreNumbers
    <2>2. counter[e] \in 0..255
      BY DEF IInv, TypeOK
    <2> QED
      BY <1>1, <1>4, <2>1, <2>2 DEF Owed, Decreased
  <1>9. ASSUME Refused(e)
        PROVE  /\ Refused(e)' \/ counter'[e] = Decreased(e)
               /\ counter'[e] = counter[e] => Refused(e)'
               /\ Decreased(e) # 0 /\ (counter'[e] = Decreased(e) => Refused(e)')
    <2>1. (counter[e] = 0 /\ Owed(e) < 256) \/ counter[e] > Owed(e)
      BY <1>9 DEF Refused
    <2>2. counter'[e] = counter[e] \/ counter'[e] = Decreased(e)
      BY <1>2 DEF IInv, TypeOK
    <2>3. Decreased(e) = IF counter[e] = 0 THEN 255 ELSE counter[e] - 1
      BY <1>8
    <2>4. Decreased(e) # 0
      BY <1>8, <2>1, <2>3
    <2>5. counter'[e] = counter[e] => Refused(e)'
      BY <1>8, <2>1 DEF Refused
    <2>6. counter'[e] = Decreased(e) => Refused(e)'
      BY <1>8, <2>1, <2>3 DEF Refused
    <2> QED
      BY <2>2, <2>4, <2>5, <2>6
  <1>10. ASSUME Waiting(e)
         PROVE  /\ Index[e] \in counterEpochs
                /\ Decreased(e) = Owed(e)'
                /\ counter'[e] = Decreased(e) /\ Decreased(e) # 0 => Waiting(e)'
    <2>1. Waiting(e)
      BY <1>10
    <2>2. counter[e] = Owed(e) /\ counter[e] # 0
      BY <1>8, <2>1 DEF Waiting
    <2>3. Decreased(e) = Owed(e)'
      BY <1>8, <2>2
    <2>4. ASSUME NEW p \in Entity \ Done', ~TooOld(p)'
          PROVE  unorderedChildren'[p][e] = Cardinality(PositionsOf(p, e)')
      BY <1>1, <1>4, <1>5, <2>1, <2>4, SamePositions DEF Waiting, TooOld
    <2>5. counter'[e] = Decreased(e) /\ Decreased(e) # 0 => Waiting(e)'
      BY <1>1, <2>1, <2>3, <2>4 DEF Waiting
    <2> QED
      BY <2>1, <2>3, <2>5 DEF Waiting
  <1>11. CASE UNCHANGED running
    <2>1. Locked(e)'
      BY <1>1, <1>3, <1>11 DEF Locked, Running
    <2>2. counter'[e] = counter[e] \/ counter'[e] = Decreased(e)
      BY <1>2 DEF IInv, TypeOK
    <2>3. Refused(e) => Refused(e)'
      BY <1>9, <2>2
    <2>4. Waiting(e) => Waiting(e)'
      <3>1. CASE e \notin ordered /\ Index[e] \in counterEpochs /\ Decreased(e) # 0
        BY <1>2, <1>10, <3>1 DEF IInv, TypeOK
      <3>2. CASE Decreased(e) = 0 /\ Index[e] \in counterEpochs
        BY <1>1, <1>2, <1>3, <1>11, <3>2 DEF Goes, Running
      <3> QED
        BY <1>3, <1>10, <3>1, <3>2
    <2>5. Counted(e)'
      BY <1>1, <1>3, <1>5, <1>11, <2>3, <2>4 DEF Counted, Running
    <2>6. Final(e) => Final(e)'
      BY <1>1, <1>5, <1>11, <2>3 DEF Final, Running
    <2> QED
      BY <1>6, <1>7, <2>1, <2>5, <2>6
  <1>12. CASE /\ Index[e] \in counterEpochs /\ counter' = [counter EXCEPT ![e] = Decreased(e)]
              /\ Decreased(e) = 0
              /\ Goes(e, "order", running[e].next, running[e].pending, running[e].holdsParents)
    <2>1. ~TooOld(e)
      <3>1. Index[e] > lastEvictedIndex
        BY <1>12 DEF IInv, VerdictInv
      <3>2. Index[e] \in Nat /\ lastEvictedIndex \in Nat
        BY CausalOrderConstants DEF IInv, TypeOK
      <3> QED
        BY <3>1, <3>2 DEF TooOld
    <2>2. Waiting(e) /\ (Final(e) => e \notin rejected)
      BY <1>1, <1>3, <1>9, <1>12, <2>1 DEF Counted, Final
    <2>3. counter'[e] = 0 /\ tasks'[e] = 0 /\ NotDone(e)' = {}
      BY <1>8, <1>10, <1>12, <2>1, <2>2 DEF IInv, TypeOK
    <2>4. Locked(e)'
      BY <1>1, <1>3, <1>5, <1>12, <2>1, <2>2 DEF Locked, Goes, Running
    <2>5. Counted(e)'
      BY <1>1, <1>3, <1>12, <2>3 DEF Counted, Settled, Goes, Running
    <2>6. Final(e) => Final(e)'
      BY <1>1, <2>2 DEF Final
    <2> QED
      BY <1>6, <1>7, <2>4, <2>5, <2>6
  <1> QED
    BY <1>2, <1>11, <1>12

LEMMA EvictionCallbackStep ==
  ASSUME IInv, NEW e \in Entity, EvictionCallback(e)
  PROVE  /\ OnlyConcerns(e) /\ Locked(e)' /\ Counted(e)' /\ (Final(e) => Final(e)')
         /\ VerdictInv' /\ ChildInv'
  <1>1. /\ e \in evicting /\ evicting' = evicting \ {e} /\ rejected' = rejected \union {e}
        /\ UNCHANGED <<ordered, known, storage, lastEvictedIndex, tasks, running, queued, crashed>>
    BY DEF EvictionCallback
  <1>2. /\ TooOld(e) /\ e \notin ordered /\ Locked(e) /\ Counted(e)
        /\ UNCHANGED <<counter, counterEpochs, unorderedChildren>>
    BY <1>1 DEF IInv, VerdictInv, storage
  <1>3. Done' = Done /\ NotDone(e)' = NotDone(e)
    BY <1>1, SamePositions DEF Done, Running
  <1>4. OnlyConcerns(e)
    BY <1>1, <1>2, <1>3 DEF OnlyConcerns
  <1>5. ChildInv' /\ VerdictInv'
    BY <1>1, <1>2, <1>3, SameChildren DEF VerdictInv, IInv, TooOld
  <1>6. Running(e, "idle") /\ ~running[e].holdsParents /\ TooOld(e)'
    BY <1>1, <1>2, Goroutines DEF Locked, TooOld, IInv
  <1>7. Locked(e)'
    BY <1>1, <1>6 DEF Locked, Running
  <1>8. Counted(e)'
    BY <1>1, <1>2, <1>6 DEF Counted, Untouched, Running
  <1>9. Final(e)'
    BY <1>1, <1>2, <1>6 DEF Final, Running
  <1> QED
    BY <1>4, <1>5, <1>7, <1>8, <1>9

(* A step that leaves what is counted alone, and may refuse entities.      *)
LEMMA QuietStep ==
  ASSUME IInv, Environment
  PROVE  /\ VerdictInv' /\ ChildInv'
         /\ \A x \in Entity : Locked(x)' /\ Counted(x)'
         /\ \A x \in Entity : UNCHANGED rejected /\ Final(x) => Final(x)'
  <1>1. /\ UNCHANGED <<ordered, counter, counterEpochs, unorderedChildren,
                       lastEvictedIndex, evicting, tasks, running, queued>>
        /\ rejected \subseteq rejected'
        /\ \A x \in Entity : Locked(x) /\ Counted(x)
    BY DEF storage, IInv, Environment
  <1>2. Done' = Done
    BY <1>1 DEF Done, Running
  <1>3. ChildInv' /\ VerdictInv'
    BY <1>1, <1>2, SameChildren DEF VerdictInv, IInv, TooOld
  <1>4. ASSUME NEW x \in Entity
        PROVE  Locked(x)' /\ Counted(x)' /\ (UNCHANGED rejected /\ Final(x) => Final(x)')
    <2>1. /\ \A step : Running(x, step)' <=> Running(x, step)
          /\ \A y \in Entity : TooOld(y)' <=> TooOld(y)
          /\ NotDone(x)' = NotDone(x) /\ Found(x)' = Found(x)
          /\ \A p \in Entity : PositionsOf(p, x)' = PositionsOf(p, x)
      BY <1>1, <1>2, SamePositions DEF Running, TooOld, Found
    <2>2. Locked(x)'
      BY <1>1, <2>1 DEF Locked, Running, ParentIDs, Positions
    <2>3. /\ Untouched(x) => Untouched(x)'
          /\ Inspecting(x) => Inspecting(x)'
          /\ Settled(x) => Settled(x)'
      BY <1>1, <2>1 DEF Untouched, Inspecting, Settled
    <2>4. /\ Refused(x) => Refused(x)'
          /\ Waiting(x) => Waiting(x)'
      BY <1>1, <1>2, <2>1 DEF Refused, Waiting, Owed
    <2>5. Counted(x)'
      BY <1>1, <2>1, <2>3, <2>4 DEF Counted
    <2>6. UNCHANGED rejected /\ Final(x) => Final(x)'
      BY <1>1, <2>1, <2>4 DEF Final
    <2> QED
      BY <2>2, <2>5, <2>6
  <1> QED
    BY <1>3, <1>4

(* What an entity hands on to a child is still owed to it.                 *)
LEMMA HandedOn ==
  ASSUME NEW e \in Entity, NEW c \in Entity, e \notin Done, Done' = Done \union {e}
  PROVE  /\ NotDone(c)' = NotDone(c) \ PositionsOf(e, c)
         /\ NotDone(c) = {} => PositionsOf(e, c) = {}
         /\ Cardinality(NotDone(c)) \in Nat /\ Cardinality(PositionsOf(e, c)) \in Nat
         /\ Cardinality(PositionsOf(e, c)) <= Cardinality(NotDone(c))
         /\ Cardinality(NotDone(c)') = Cardinality(NotDone(c)) - Cardinality(PositionsOf(e, c))
  <1>1. NotDone(c)' = NotDone(c) \ PositionsOf(e, c)
    BY SamePositions DEF NotDone, PositionsOf, Positions
  <1>2. PositionsOf(e, c) \subseteq NotDone(c)
    BY DEF NotDone, PositionsOf
  <1>3. IsFiniteSet(NotDone(c)) /\ IsFiniteSet(PositionsOf(e, c))
    <2>1. NotDone(c) \in SUBSET Positions(c)
      BY DEF NotDone
    <2>2. IsFiniteSet(NotDone(c))
      BY <2>1, CountFacts
    <2> QED
      BY <1>2, <2>2, FS_Subset
  <1>4. /\ Cardinality(NotDone(c)) \in Nat /\ Cardinality(PositionsOf(e, c)) \in Nat
        /\ Cardinality(PositionsOf(e, c)) <= Cardinality(NotDone(c))
    BY <1>2, <1>3, FS_CardinalityType, FS_Subset
  <1>5. NotDone(c) \intersect PositionsOf(e, c) = PositionsOf(e, c)
    BY <1>2
  <1>6. Cardinality(NotDone(c) \ PositionsOf(e, c)) =
          Cardinality(NotDone(c)) - Cardinality(PositionsOf(e, c))
    BY <1>3, <1>5, FS_Difference
  <1> QED
    BY <1>1, <1>2, <1>4, <1>6

(* The tasks replace the registrations.                                    *)
LEMMA PropagateStep ==
  ASSUME IInv, NEW e \in Entity, PropagateOrderToChildren(e)
  PROVE  /\ VerdictInv' /\ ChildInv'
         /\ \A x \in Entity : Locked(x)' /\ Counted(x)' /\ (Final(x) => Final(x)')
  <1>1. /\ Running(e, "propagate") /\ Goes(e, "idle", 0, 0, FALSE)
        /\ tasks' = [c \in Entity |-> tasks[c] + unorderedChildren[e][c]]
        /\ unorderedChildren' = [unorderedChildren EXCEPT ![e] = [c \in Entity |-> 0]]
        /\ UNCHANGED <<ordered, rejected, counter, counterEpochs, eviction, queued>>
    BY Goroutines DEF PropagateOrderToChildren, IInv
  <1>2. /\ e \in ordered /\ e \notin Roots /\ e \notin Done /\ ~TooOld(e)
        /\ Locked(e) /\ Settled(e) /\ queued[e] # 0
    BY <1>1 DEF IInv, Locked, Counted, VerdictInv, Done, Running
  <1>3. Done' = Done \union {e}
    BY <1>1, <1>2 DEF Done, Running, Goes, IInv, TypeOK
  <1>4. /\ UNCHANGED <<lastEvictedIndex, evicting>>
        /\ \A x \in Entity : TooOld(x)' <=> TooOld(x)
        /\ \A x \in Entity \ {e} : \A step : Running(x, step)' <=> Running(x, step)
    BY <1>1 DEF eviction, TooOld, Running, Goes
  <1>5. VerdictInv'
    BY <1>1, <1>4 DEF VerdictInv, IInv, TooOld
  <1>6. /\ \A c \in Entity : unorderedChildren'[e][c] = 0
        /\ \A p \in Entity \ {e} : \A c \in Entity : unorderedChildren'[p][c] = unorderedChildren[p][c]
        /\ \A p, c \in Entity : unorderedChildren[p][c] \in Nat
        /\ \A c \in Entity : tasks[c] \in Nat /\ tasks'[c] = tasks[c] + unorderedChildren[e][c]
    BY <1>1 DEF IInv, TypeOK
  <1>7. ChildInv'
    <2>1. \A p, c \in Entity : Cardinality(PositionsOf(p, c)) \in Nat
      BY CountsAreNumbers
    <2> QED
      BY <1>3, <1>6, <2>1, SamePositions DEF ChildInv, IInv
  <1>8. ASSUME NEW c \in Entity
        PROVE  /\ unorderedChildren[e][c] <= Cardinality(PositionsOf(e, c))
               /\ PositionsOf(e, c) = {} =>
                    /\ tasks'[c] = tasks[c] /\ NotDone(c)' = NotDone(c)
                    /\ \A p \in Entity : unorderedChildren'[p][c] = unorderedChildren[p][c]
    <2>1. unorderedChildren[e][c] <= Cardinality(PositionsOf(e, c))
      BY DEF IInv, ChildInv
    <2>2. PositionsOf(e, c) = {} => Cardinality(PositionsOf(e, c)) = 0
      BY FS_EmptySet
    <2>3. PositionsOf(e, c) = {} => unorderedChildren[e][c] = 0
      BY <1>6, <2>1, <2>2
    <2> QED
      BY <1>2, <1>3, <1>6, <2>1, <2>3, HandedOn
  <1>9. ASSUME NEW c \in Entity, running[c].holdsParents, c # e
        PROVE  PositionsOf(e, c) = {} /\ \A p \in ParentIDs(c) : Running(p, "idle")'
    <2>1. \A p \in ParentIDs(c) : p \in Entity /\ Running(p, "idle")
      BY <1>9, ParentFacts DEF IInv, Locked
    <2>2. e \notin ParentIDs(c)
      BY <1>1, <2>1 DEF Running
    <2> QED
      BY <1>4, <2>1, <2>2, ParentFacts
  <1>10. ASSUME NEW c \in Entity
         PROVE  Settled(c) => Settled(c)'
    BY <1>1, <1>2, <1>3, <1>8, HandedOn DEF Settled
  <1>11. Locked(e)' /\ Counted(e)' /\ (Final(e) => Final(e)')
    <2>1. Final(e) => e \notin rejected'
      BY <1>1, <1>2 DEF Final
    <2> QED
      BY <1>1, <1>2, <1>10, <2>1 DEF Locked, Counted, Final, Goes, Running
  <1>12. ASSUME NEW c \in Entity \ {e}
         PROVE  Locked(c)' /\ Counted(c)' /\ (Final(c) => Final(c)')
    <2>1. /\ Locked(c) /\ Counted(c) /\ running'[c] = running[c]
          /\ queued'[c] = queued[c] /\ counter'[c] = counter[c]
          /\ c \in ordered' <=> c \in ordered
          /\ c \in rejected' <=> c \in rejected
          /\ ordered' = ordered /\ counterEpochs' = counterEpochs
      BY <1>1 DEF IInv, Goes
    <2>2. Found(c)' = Found(c) /\ \A p \in Entity : PositionsOf(p, c)' = PositionsOf(p, c)
      BY <1>1, <2>1, SamePositions DEF Found
    <2>3. Locked(c)'
      BY <1>4, <1>9, <2>1, SamePositions DEF Locked, ParentIDs
    <2>4. Untouched(c) => Untouched(c)'
      <3>1. Untouched(c) => unorderedChildren[e][c] = 0
        BY DEF Untouched
      <3> QED
        BY <1>4, <1>6, <2>1, <3>1 DEF Untouched
    <2>5. running[c].holdsParents /\ Inspecting(c) => Inspecting(c)'
      BY <1>4, <1>8, <1>9, <2>1, <2>2 DEF Inspecting
    <2>6. Refused(c) => Refused(c)'
      <3>1. Owed(c)' <= Owed(c) /\ Owed(c) \in Nat /\ Owed(c)' \in Nat
        <4>1. /\ Cardinality(NotDone(c)') = Cardinality(NotDone(c)) - Cardinality(PositionsOf(e, c))
              /\ Cardinality(NotDone(c)) \in Nat /\ Cardinality(PositionsOf(e, c)) \in Nat
              /\ Cardinality(PositionsOf(e, c)) <= Cardinality(NotDone(c))
          BY <1>2, <1>3, HandedOn
        <4> QED
          BY <1>6, <1>8, <4>1, SMTT(30) DEF Owed
      <3>2. TypeOK
        BY DEF IInv
      <3>3. counter[c] \in Nat
        BY <3>2, CountersAreNumbers
      <3> QED
        BY <2>1, <3>1, <3>3 DEF Refused
    <2>7. Waiting(c) => Waiting(c)'
      <3>1. Waiting(c) => unorderedChildren[e][c] = Cardinality(PositionsOf(e, c))
        BY <1>2 DEF Waiting
      <3>2. Waiting(c) => Owed(c)' = Owed(c)
        BY <1>2, <1>3, <1>6, <3>1, HandedOn DEF Owed
      <3> QED
        BY <1>3, <1>4, <1>6, <2>1, <2>2, <3>2 DEF Waiting
    <2>8. Final(c) => Final(c)'
      BY <1>4, <2>1, <2>6 DEF Final
    <2> QED
      BY <1>4, <1>10, <2>1, <2>3, <2>4, <2>5, <2>6, <2>7, <2>8 DEF Counted, Locked
  <1> QED
    BY <1>5, <1>7, <1>11, <1>12


(* An eviction spares what an entity of a younger epoch is owed.           *)
LEMMA EvictStep ==
  ASSUME IInv, NEW index \in 1..LastIndex, EvictUntil(index)
  PROVE  /\ VerdictInv' /\ ChildInv'
         /\ \A x \in Entity : Locked(x)' /\ Counted(x)' /\ (Final(x) => Final(x)')
  <1> DEFINE evicted(x) == Index[x] > lastEvictedIndex /\ Index[x] <= index
             registered(x) == counter[x] # 0 \/ \E c \in Entity : unorderedChildren[x][c] > 0
  <1>1. /\ index > lastEvictedIndex
        /\ \A x \in Entity : Running(x, "idle")
        /\ evicting' = evicting \union {x \in Entity : evicted(x) /\ registered(x)}
        /\ \A x \in Entity : counter'[x] = IF evicted(x) THEN 0 ELSE counter[x]
        /\ \A p, x \in Entity :
             unorderedChildren'[p][x] = IF evicted(p) THEN 0 ELSE unorderedChildren[p][x]
        /\ counterEpochs' = {i \in counterEpochs : i <= lastEvictedIndex \/ i > index}
        /\ lastEvictedIndex' = index
        /\ UNCHANGED <<ordered, rejected, known, tasks, running, queued, crashed>>
    BY DEF EvictUntil, WriteLocked
  <1>2. /\ index \in Nat /\ lastEvictedIndex \in Nat /\ counterEpochs \subseteq Nat
        /\ \A x \in Entity : Index[x] \in Nat
        /\ \A p, x \in Entity : unorderedChildren[p][x] \in Nat
        /\ ordered \subseteq Entity
    BY CausalOrderConstants DEF IInv, TypeOK
  <1>3. \A x \in Entity : /\ TooOld(x) => TooOld(x)'
                          /\ evicted(x) => TooOld(x)'
                          /\ ~TooOld(x)' => Index[x] > index
    BY <1>1, <1>2 DEF TooOld
  <1> HIDE DEF evicted, registered
  <1>4. Done' = Done /\ \A p \in ordered : p \in Done
    BY <1>1, <1>2 DEF Done, Running
  <1>5. ASSUME NEW x \in ordered, evicted(x)
        PROVE  ~registered(x)
    <2>1. counter[x] = 0
      BY <1>2, <1>5 DEF IInv, Counted, Settled, Untouched, VerdictInv
    <2>2. \A c \in Entity : unorderedChildren[x][c] = 0
      BY <1>2, <1>4, <1>5 DEF IInv, ChildInv
    <2> QED
      BY <2>1, <2>2 DEF registered
  <1>6. VerdictInv'
    <2>1. \A i \in counterEpochs' : i > lastEvictedIndex'
      <3>1. \A i \in counterEpochs : i > lastEvictedIndex
        BY DEF IInv, VerdictInv
      <3>2. ASSUME NEW i \in counterEpochs' PROVE i > index
        <4>1. i \in counterEpochs /\ (i <= lastEvictedIndex \/ i > index)
          BY <1>1
        <4>2. i > lastEvictedIndex /\ i \in Nat
          BY <1>2, <3>1, <4>1
        <4> QED
          BY <1>2, <4>1, <4>2
      <3> QED
        BY <1>1, <3>2
    <2>2. \A x \in evicting' : TooOld(x)' /\ x \notin ordered'
      <3>1. \A x \in evicting : x \in Entity /\ TooOld(x) /\ x \notin ordered
        BY DEF IInv, VerdictInv, TypeOK
      <3> QED
        BY <1>1, <1>3, <1>5, <3>1
    <2> QED
      BY <1>1, <2>1, <2>2 DEF VerdictInv, IInv
  <1>7. ChildInv'
    <2>1. \A p, c \in Entity : Cardinality(PositionsOf(p, c)) \in Nat
      BY CountsAreNumbers
    <2> QED
      BY <1>1, <1>2, <1>4, <2>1, SamePositions DEF ChildInv, IInv
  <1>8. ASSUME NEW x \in Entity
        PROVE  Locked(x)' /\ Counted(x)' /\ (Final(x) => Final(x)')
    <2>1. /\ Locked(x) /\ Counted(x) /\ Running(x, "idle") /\ Running(x, "idle")'
          /\ NotDone(x)' = NotDone(x)
          /\ \A p \in Entity : PositionsOf(p, x)' = PositionsOf(p, x)
      BY <1>1, <1>4, SamePositions DEF IInv, Running
    <2>2. Locked(x)'
      BY <1>1, <2>1 DEF Locked, Running
    <2>3. counter[x] = 0 => counter'[x] = 0
      BY <1>1
    <2>4. Untouched(x) => Untouched(x)'
      <3>1. Untouched(x) => \A p \in Entity : unorderedChildren'[p][x] = 0
        BY <1>1 DEF Untouched
      <3> QED
        BY <1>1, <1>3, <2>1, <2>3, <3>1 DEF Untouched
    <2>5. Settled(x) => Settled(x)'
      BY <1>1, <2>1, <2>3 DEF Settled
    <2>6. Refused(x) /\ ~TooOld(x)' => Refused(x)'
      BY <1>1, <1>3, <2>1 DEF Refused, Owed
    <2>7. Waiting(x) /\ ~TooOld(x)' => Waiting(x)'
      <3>1. Index[x] \in counterEpochs /\ ~TooOld(x)' => Index[x] \in counterEpochs'
        BY <1>1, <1>3
      <3>2. ASSUME NEW p \in Entity \ Done', ~TooOld(p)', Waiting(x)
            PROVE  unorderedChildren'[p][x] = Cardinality(PositionsOf(p, x)')
        <4>1. unorderedChildren'[p][x] = unorderedChildren[p][x]
          BY <1>1, <1>3, <3>2
        <4> QED
          BY <1>3, <1>4, <2>1, <3>2, <4>1 DEF Waiting
      <3>3. Waiting(x) /\ ~TooOld(x)' => counter'[x] = Owed(x)' /\ counter'[x] # 0
        BY <1>1, <1>3, <2>1 DEF Waiting, Owed
      <3> QED
        BY <3>1, <3>2, <3>3 DEF Waiting
    <2>8. Final(x) => Final(x)'
      BY <1>1, <1>3, <2>1, <2>6 DEF Final
    <2> QED
      BY <1>1, <1>3, <2>1, <2>2, <2>4, <2>5, <2>6, <2>7, <2>8 DEF Counted, Running
  <1> QED
    BY <1>6, <1>7, <1>8

-----------------------------------------------------------------------------
(* The initial states, whatever entities are known.                        *)
NothingHappened ==
  /\ ordered = Roots /\ known \subseteq Entity
  /\ rejected = {} /\ evicting = {} /\ counterEpochs = {}
  /\ counter = [e \in Entity |-> 0] /\ tasks = [e \in Entity |-> 0]
  /\ queued = [e \in Entity |-> 0] /\ running = [e \in Entity |-> NotRunning]
  /\ unorderedChildren = [p \in Entity |-> [c \in Entity |-> 0]]
  /\ lastEvictedIndex = 0 /\ crashed = FALSE

LEMMA StartIInv == NothingHappened => IInv
  <1> SUFFICES ASSUME NothingHappened PROVE IInv
    OBVIOUS
  <1>1. \A e \in Entity : Index[e] \in Nat
    BY CausalOrderConstants
  <1>2. NotRunning \in Goroutine
    BY DEF NotRunning, Goroutine
  <1>3. TypeOK
    <2>1. Roots \subseteq Entity /\ QueueLimit \in Nat
      BY CausalOrderConstants, Zenon
    <2>2. unorderedChildren \in [Entity -> [Entity -> Nat]]
      BY DEF NothingHappened
    <2>3. running \in [Entity -> Goroutine]
      BY <1>2 DEF NothingHappened
    <2>4. crashed \in BOOLEAN
      BY DEF NothingHappened
    <2>5. /\ counter \in [Entity -> 0..255] /\ tasks \in [Entity -> Nat]
          /\ queued \in [Entity -> 0..QueueLimit]
      BY <2>1 DEF NothingHappened
    <2> QED
      BY <2>1, <2>2, <2>3, <2>4, <2>5 DEF NothingHappened, TypeOK
  <1>4. VerdictInv
    BY CausalOrderConstants DEF NothingHappened, VerdictInv
  <1>5. ChildInv
    <2>1. \A p, c \in Entity : Cardinality(PositionsOf(p, c)) \in Nat
      BY CountsAreNumbers
    <2> QED
      BY <2>1 DEF NothingHappened, ChildInv
  <1>6. ASSUME NEW e \in Entity
        PROVE  Locked(e) /\ Counted(e)
    <2>1. /\ Running(e, "idle") /\ ~running[e].holdsParents /\ queued[e] = 0
          /\ e \in ordered => e \in Roots
      BY DEF NothingHappened, NotRunning, Running
    <2>2. Untouched(e)
      BY <2>1 DEF NothingHappened, Untouched
    <2> QED
      BY <2>1, <2>2 DEF Locked, Counted, Running
  <1> QED
    BY <1>3, <1>4, <1>5, <1>6 DEF IInv

LEMMA InitIInv == Init => IInv
  BY StartIInv DEF Init, NothingHappened

LEMMA Inductive ==
  ASSUME QueuedOnce, IInv, [Next]_vars
  PROVE  IInv' /\ \A e \in Entity : Final(e) => Final(e)'
  <1>1. TypeOK'
    BY TypeStep DEF IInv
  <1>2. ASSUME NEW e \in Entity,
               Queue(e) \/ CheckParent(e) \/ RegisterUnorderedChild(e)
                 \/ SetUnorderedParentsCounter(e) \/ AllParentsOrdered(e)
                 \/ TriggerOrderedCallback(e) \/ TriggerChildIfReady(e) \/ EvictionCallback(e)
        PROVE  IInv' /\ \A x \in Entity : Final(x) => Final(x)'
    <2>1. /\ OnlyConcerns(e) /\ Locked(e)' /\ Counted(e)' /\ (Final(e) => Final(e)')
          /\ VerdictInv' /\ ChildInv'
      BY <1>2, QueueStep, CheckParentStep, RegisterStep, SetCounterStep, AllParentsOrderedStep,
         OrderedCallbackStep, TaskStep, EvictionCallbackStep
    <2>2. \A x \in Entity \ {e} : Locked(x)' /\ Counted(x)' /\ (Final(x) => Final(x)')
      BY <2>1, Unmoved
    <2> QED
      BY <1>1, <2>1, <2>2 DEF IInv
  <1>3. ASSUME NEW e \in Entity, PropagateOrderToChildren(e)
        PROVE  IInv' /\ \A x \in Entity : Final(x) => Final(x)'
    BY <1>1, <1>3, PropagateStep DEF IInv
  <1>4. ASSUME NEW index \in 1..LastIndex, EvictUntil(index)
        PROVE  IInv' /\ \A x \in Entity : Final(x) => Final(x)'
    BY <1>1, <1>4, EvictStep DEF IInv
  <1>5. CASE Forget \/ UNCHANGED vars
    <2>1. /\ UNCHANGED <<ordered, rejected, storage, lastEvictedIndex, evicting, tasks, running,
                         queued, crashed>>
          /\ known' \subseteq Entity
      BY <1>5 DEF Forget, vars, storage, IInv, TypeOK
    <2>2. Environment
      BY <2>1 DEF Environment, IInv, TypeOK
    <2> QED
      BY <1>1, <2>1, <2>2, QuietStep DEF IInv
  <1> QED
    BY <1>2, <1>3, <1>4, <1>5 DEF Next, Proceed, Evict

(* The invariant survives a user who refuses entities as it likes.         *)
LEMMA EnvironmentStep ==
  ASSUME IInv, Environment
  PROVE  IInv'
  <1>1. TypeOK'
    BY DEF IInv, TypeOK, Environment, storage
  <1> QED
    BY <1>1, QuietStep DEF IInv

(* It does not take back a verdict of the CausalOrder.                     *)
LEMMA EnvironmentKeepsFinal ==
  ASSUME IInv, Environment, NEW x \in Entity, Final(x), x \in rejected \/ x \notin rejected'
  PROVE  Final(x)'
  <1>1. /\ UNCHANGED <<ordered, counter, lastEvictedIndex, tasks, running, queued>>
        /\ x \in rejected' => x \in rejected
    BY DEF storage, Environment
  <1>2. NotDone(x)' = NotDone(x)
    <2>1. Done' = Done
      BY <1>1 DEF Done, Running
    <2> QED
      BY <2>1, SamePositions
  <1>3. (Refused(x)' <=> Refused(x)) /\ (TooOld(x)' <=> TooOld(x))
    BY <1>1, <1>2 DEF Refused, Owed, TooOld
  <1> QED
    BY <1>1, <1>3 DEF Final, Running

LEMMA Invariant ==
  ASSUME QueuedOnce
  PROVE  Spec => []IInv
  <1>1. IInv /\ [Next]_vars => IInv'
    BY Inductive
  <1> QED
    BY <1>1, InitIInv, PTL DEF Spec

-----------------------------------------------------------------------------
(* What the invariant says of the order, of the counters, and of an entity *)
(* that waits for nothing.                                                 *)
LEMMA InvParentsFirst == IInv => ParentsOrderedFirst
  <1> SUFFICES ASSUME IInv, NEW e \in ordered \ Roots, NEW p \in ParentIDs(e)
               PROVE  p \in ordered
    BY DEF ParentsOrderedFirst
  <1>1. e \in Entity
    BY DEF IInv, TypeOK
  <1>2. NotDone(e) = {}
    BY <1>1 DEF IInv, Counted, Settled
  <1>3. p \in Entity /\ PositionsOf(p, e) # {}
    BY <1>1, ParentFacts
  <1>4. p \in Done
    BY <1>2, <1>3 DEF NotDone, PositionsOf
  <1> QED
    BY <1>4 DEF Done

LEMMA InvCounterExact == IInv => CounterExact
  <1> SUFFICES ASSUME IInv, NEW e \in Entity, Running(e, "idle"), e \notin rejected \union ordered,
                      ~TooOld(e), \A p \in ParentIDs(e) \ ordered : ~TooOld(p)
               PROVE  counter[e] = tasks[e] +
                        Cardinality({i \in DOMAIN Parents[e] : unorderedChildren[Parents[e][i]][e] > 0})
    BY DEF CounterExact
  <1> DEFINE Registered == {i \in DOMAIN Parents[e] : unorderedChildren[Parents[e][i]][e] > 0}
  <1>1. Registered = {i \in Positions(e) : unorderedChildren[Parents[e][i]][e] > 0}
    <2>1. Parents[e] \in Seq(Entity)
      BY CausalOrderConstants, Zenon
    <2>2. DOMAIN Parents[e] = 1..Len(Parents[e])
      BY <2>1, LenProperties
    <2> QED
      BY <2>2 DEF Positions
  <1> HIDE DEF Registered
  <1>2. CASE queued[e] = 0
    <2>1. Untouched(e)
      BY <1>2 DEF IInv, Counted
    <2>2. \A i \in Positions(e) : unorderedChildren[Parents[e][i]][e] = 0
      BY <2>1, ParentFacts DEF Untouched
    <2>3. Registered = {}
      BY <1>1, <2>2
    <2>4. Cardinality(Registered) = 0
      BY <2>3, FS_EmptySet
    <2> QED
      BY <2>1, <2>4 DEF Untouched, Registered
  <1>3. CASE queued[e] # 0
    <2>1. Waiting(e)
      BY <1>3 DEF IInv, Counted
    <2>2. ASSUME NEW i \in Positions(e)
          PROVE  unorderedChildren[Parents[e][i]][e] > 0 <=> Parents[e][i] \notin Done
      <3> DEFINE p == Parents[e][i]
      <3>1. p \in ParentIDs(e) /\ p \in Entity
        BY ParentFacts
      <3>2. CASE p \in Done
        BY <3>1, <3>2 DEF IInv, ChildInv
      <3>3. CASE p \notin Done
        <4>1. ~TooOld(p)
          BY <3>1, <3>3 DEF Done, IInv, Locked, Running
        <4>2. unorderedChildren[p][e] = Cardinality(PositionsOf(p, e))
          BY <2>1, <3>1, <3>3, <4>1 DEF Waiting
        <4>3. PositionsOf(p, e) # {}
          BY <3>1, ParentFacts
        <4>4. Cardinality(PositionsOf(p, e)) \in Nat /\ Cardinality(PositionsOf(p, e)) # 0
          BY <3>1, <4>3, CountsAreNumbers
        <4> QED
          BY <3>3, <4>2, <4>4
      <3> QED
        BY <3>2, <3>3
    <2>3. Registered = NotDone(e)
      BY <1>1, <2>2 DEF NotDone
    <2> QED
      BY <2>1, <2>3 DEF Waiting, Owed, Registered
  <1> QED
    BY <1>2, <1>3

LEMMA NothingOwed ==
  ASSUME IInv, NEW e \in Entity, Running(e, "idle"), queued[e] # 0, ~TooOld(e), tasks[e] = 0,
         \A p \in ParentIDs(e) : p \in ordered /\ Running(p, "idle")
  PROVE  e \in ordered \union rejected
  <1> SUFFICES ASSUME e \notin ordered, e \notin rejected PROVE FALSE
    OBVIOUS
  <1>1. Waiting(e)
    BY DEF IInv, Counted
  <1>2. NotDone(e) = {}
    BY ParentFacts DEF NotDone, Done, Running
  <1>3. Owed(e) = 0
    BY <1>2, FS_EmptySet DEF Owed
  <1> QED
    BY <1>1, <1>3 DEF Waiting

(* Nobody is forgotten: no trigger is lost.                                *)
NobodyForgotten ==
  \A e \in Entity :
    /\ Running(e, "idle") /\ queued[e] # 0 /\ ~TooOld(e) /\ tasks[e] = 0
    /\ \A p \in ParentIDs(e) : p \in ordered /\ Running(p, "idle")
    => e \in ordered \union rejected

(* Every variable keeps its type: the counter is a uint8 and no step of a  *)
(* goroutine leaves its states.                                            *)
THEOREM TypeCorrect == Spec => []TypeOK
  <1>1. Init => TypeOK
    BY InitIInv DEF IInv
  <1> QED
    BY <1>1, TypeStep, PTL DEF Spec

(* Causal order (the reason for this component): in every DAG, whatever    *)
(* the order in which entities are queued, tasks run and epochs are        *)
(* evicted, the ordered callback sees an entity after all of its parents.  *)
THEOREM ParentsFirst ==
  ASSUME QueuedOnce
  PROVE  Spec => []ParentsOrderedFirst
  <1>1. IInv => ParentsOrderedFirst
    BY InvParentsFirst
  <1> QED
    BY <1>1, Invariant, PTL

(* The uint8 of unorderedParentsCounter neither misses a parent nor counts *)
(* one twice: it is the number of the references to parents with which the *)
(* entity is registered, and of the triggers on their way.                 *)
THEOREM ExactCounters ==
  ASSUME QueuedOnce
  PROVE  Spec => []CounterExact
  <1>1. IInv => CounterExact
    BY InvCounterExact
  <1> QED
    BY <1>1, Invariant, PTL

(* A queued entity whose parents are all ordered and have handed on their  *)
(* order has its verdict once its tasks ran: between the look at a parent, *)
(* the registration with it, the counter that is set afterwards and the    *)
(* triggers that arrive before no order of a parent goes unnoticed.        *)
THEOREM NoTriggerLost ==
  ASSUME QueuedOnce
  PROVE  Spec => []NobodyForgotten
  <1>1. IInv => NobodyForgotten
    BY NothingOwed DEF NobodyForgotten
  <1> QED
    BY <1>1, Invariant, PTL

(* What the ordered callback has seen is never handed to the eviction      *)
(* callback, what that has seen is never ordered, and no entity is ordered *)
(* once its epoch is evicted: the two verdicts exclude each other for good.*)
THEOREM FinalVerdicts ==
  ASSUME QueuedOnce
  PROVE  Spec => VerdictsAreFinal
  <1> DEFINE Verdicts == \A e \in Entity : /\ e \in ordered' \ ordered => Index[e] > lastEvictedIndex
                                           /\ e \notin ordered' \intersect rejected'
             FinalInv == \A e \in Entity : Final(e)
  <1>1. Init => FinalInv
    BY DEF Init, Final
  <1>2. IInv /\ FinalInv /\ [Next]_vars => FinalInv'
    BY Inductive
  <1>3. IInv /\ FinalInv' /\ [Next]_vars => [Verdicts]_vars
    <2> SUFFICES ASSUME IInv, FinalInv', Next, NEW e \in Entity
                 PROVE  /\ e \in ordered' \ ordered => Index[e] > lastEvictedIndex
                        /\ e \notin ordered' \intersect rejected'
      OBVIOUS
    <2>1. e \notin ordered' \intersect rejected'
      BY DEF Final
    <2>2. ASSUME e \in ordered' \ ordered PROVE Index[e] > lastEvictedIndex
      <3>1. PICK x \in Entity : TriggerOrderedCallback(x)
        BY <2>2 DEF Next, Proceed, Evict, Queue, CheckParent, RegisterUnorderedChild,
           SetUnorderedParentsCounter, AllParentsOrdered, PropagateOrderToChildren,
           TriggerChildIfReady, EvictUntil, EvictionCallback, Forget
      <3>2. x = e
        BY <2>2, <3>1 DEF TriggerOrderedCallback
      <3>3. ~TooOld(e)
        BY <3>1, <3>2 DEF TriggerOrderedCallback, IInv, Locked, Running
      <3>4. Index[e] \in Nat /\ lastEvictedIndex \in Nat
        BY CausalOrderConstants DEF IInv, TypeOK
      <3>5. \A i, j \in Nat : i > j <=> ~(j >= i)
        OBVIOUS
      <3> QED
        BY <3>3, <3>4, <3>5 DEF TooOld
    <2> QED
      BY <2>1, <2>2
  <1> QED
    BY <1>1, <1>2, <1>3, Invariant, PTL DEF VerdictsAreFinal, Spec
=============================================================================
