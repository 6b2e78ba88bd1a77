-------------------------- MODULE AcceptanceProofs --------------------------
(***************************************************************************)
(* Theorems about the acceptance of transactions, for any ledger, any      *)
(* blocks and any interleaving of the goroutines.                          *)
(*                                                                         *)
(* The argument.  Conflicts never fork here, so the ConflictDAG keeps its  *)
(* decided cones consistent (ConflictDAGProofs) and every decision is      *)
(* final.  A transaction inherits the conflicts of what it spends, hence   *)
(* a rejection walks only over what depends on a rejected conflict, and    *)
(* the walks leave no consumer behind.  The two facts an acceptance needs  *)
(* are always followed by somebody who will look at the other one.  What   *)
(* the walk after an acceptance may spoil, because it also accepts what is *)
(* not decided yet, is the hypothesis of the theorems it matters for,      *)
(* OnlyAcceptedTransactions; how far it may spoil it is the last theorem.  *)
(***************************************************************************)
EXTENDS Acceptance, TLAPS

ConflictDAG == INSTANCE ConflictDAGProofs WITH ConflictID <- Transaction, ResourceID <- Output

-----------------------------------------------------------------------------
HasRejected(t) == \E c \in ConflictIDs[t] : DAG!IsRejected(c)

(* The goroutine is busy with a transaction.                               *)
Busy(g, steps, t) == running[g].at \in steps /\ running[g].tx = t

(* The references stay what they are when everything is booked, and every  *)
(* decision is consistent with the others.                                 *)
DAGInv ==
  /\ ConflictDAG!UnforkedInv /\ ConflictDAG!Stored = Conflict
  /\ parents = [t \in Transaction |-> IF t \in Conflict THEN Inherited[t] ELSE {}]

(* A block of a later epoch than another never counts, and what an earlier *)
(* one replaces is a later epoch; only one that replaces nothing decides.  *)
IncludeInv ==
  \A t \in Transaction : \A i \in InclusionEpochs[t] :
    LET g == <<"include", t, i>>
    IN  /\ running[g].at \notin {"reject", "rejectOutputs", "walk"}
        /\ running[g].at \notin {"idle", "done"} =>
             /\ running[g].tx = t /\ inclusionEpoch[t] # 0 /\ inclusionEpoch[t] <= i
             /\ running[g].epoch = 0 \/ running[g].epoch > i
        /\ running[g].at \in {"move", "update"} => running[g].epoch # 0
        /\ running[g].at \in {"decide", "accept"} => running[g].epoch = 0

(* The transactions a walk has met so far.                                 *)
Meets(g, t) ==
  t \in running[g].seen \/ (running[g].at \notin {"idle", "done"} /\ running[g].tx = t)

(* What the hooks of TransactionAccepted do, storeTransaction among them.  *)
Storing == {"readSpent", "storeSpent", "readCreated", "storeCreated"}
Announcing == {"acceptOutputs", "readSpent", "storeSpent", "readCreated", "storeCreated",
               "read", "add"}

(* The tasks are those of decided conflicts; a rejection only meets what   *)
(* depends on a rejected conflict.                                         *)
TaskInv ==
  \A c \in Transaction :
    LET a == <<"accept", c, 0>>
        r == <<"reject", c, 0>>
    IN  /\ running[a].at \in {"idle", "accept", "walk", "done"} \union Announcing
        /\ running[a].at # "idle" => DAG!IsAccepted(c) \/ DAG!IsRejected(c)
        /\ running[r].at \in {"idle", "reject", "rejectOutputs", "walk", "done"}
        /\ running[r].at # "idle" => DAG!IsRejected(c)
        /\ running[r].at \in {"idle", "done"} => running[r].walk = {}
        /\ \A t \in Transaction : Meets(r, t) => HasRejected(t)

(* What is accepted is included, what is rejected depends on a rejection.  *)
StateInv ==
  /\ \A t \in Transaction :
       /\ transactionState[t] = "Accepted" => inclusionEpoch[t] # 0
       /\ transactionState[t] = "Rejected" => HasRejected(t)
  /\ \A g \in Goroutine :
       /\ running[g].at \in Announcing => inclusionEpoch[running[g].tx] # 0
       /\ running[g].at \in {"storeSpent", "add"} => running[g].read \in InclusionEpochs[running[g].tx]
       /\ running[g].at = "storeCreated" =>
            running[g].read \in InclusionEpochs[running[g].tx] \union {0}

(* Both facts are there: somebody has seen them, or is about to look.      *)
MeetInv ==
  \A t \in Transaction :
    inclusionEpoch[t] # 0 /\ ConflictsAccepted(t) /\ ConflictIDs[t] \subseteq {t} =>
      \/ transactionState[t] = "Accepted"
      \/ Busy(<<"accept", t, 0>>, {"accept"}, t)
      \/ \E i \in InclusionEpochs[t] :
           \/ running[<<"include", t, i>>].at \in {"decide", "accept"}
           \/ running[<<"include", t, i>>].at = "outputs" /\ running[<<"include", t, i>>].epoch = 0

(* The outputs have no epoch before the transaction has one, and keep none *)
(* until the block that was the first gives them its own.                  *)
OutputInv ==
  \A t \in Transaction :
    /\ inclusionEpoch[t] = 0 =>
         outputEpoch[t] = 0 /\ \A i \in InclusionEpochs[t] : running[<<"include", t, i>>].at = "idle"
    /\ \A i \in InclusionEpochs[t] :
         LET g == <<"include", t, i>>
         IN  inclusionEpoch[t] = i =>
               /\ running[g].at # "idle"
               /\ running[g].at = "outputs" /\ running[g].epoch = 0 =>
                    /\ outputEpoch[t] = 0
                    /\ \A j \in InclusionEpochs[t] \ {i} :
                         running[<<"include", t, j>>].at \in {"idle", "done"}

IInv == TypeOK /\ DAGInv /\ IncludeInv /\ TaskInv /\ StateInv /\ MeetInv /\ OutputInv

-----------------------------------------------------------------------------
(* The rest assumes that only what is accepted is announced.               *)

(* TransactionAccepted was triggered for what is accepted, and for nothing *)
(* else; and who is announcing it finds it accepted.                       *)
EventInv ==
  /\ \A t \in Transaction :
       acceptedEvents[t] = IF transactionState[t] = "Accepted" THEN 1 ELSE 0
  /\ \A g \in Goroutine :
       running[g].at = "acceptOutputs" => transactionState[running[g].tx] = "Accepted"

(* The include goroutine of the current epoch has still something to do.   *)
Moving(t, steps) ==
  /\ inclusionEpoch[t] \in InclusionEpochs[t]
  /\ LET g == <<"include", t, inclusionEpoch[t]>>
     IN  \/ running[g].at \in steps
         \/ running[g].at = "outputs" /\ running[g].epoch # 0

(* The outputs have been given another epoch after that of the transaction. *)
Apart(t) ==
  /\ inclusionEpoch[t] \in InclusionEpochs[t]
  /\ outputEpoch[t] # inclusionEpoch[t]
  /\ running[<<"include", t, inclusionEpoch[t]>>].at # "outputs"

(* The stores follow the inclusion epoch of what is accepted: it is stored, *)
(* or somebody who stores has not read the epoch yet, or has read this one. *)
SpentFollows(t) ==
  \/ inclusionEpoch[t] \in spentOutputs[t]
  \/ \E g \in Goroutine : Busy(g, {"acceptOutputs", "readSpent"}, t)
  \/ \E g \in Goroutine : Busy(g, {"storeSpent"}, t) /\ running[g].read = inclusionEpoch[t]
  \/ Moving(t, {"move"})

CreatedFollows(t) ==
  \/ inclusionEpoch[t] \in createdOutputs[t] \/ 0 \in createdOutputs[t] \/ Apart(t)
  \/ \E g \in Goroutine : Busy(g, {"acceptOutputs", "readSpent", "storeSpent", "readCreated"}, t)
  \/ \E g \in Goroutine :
       Busy(g, {"storeCreated"}, t) /\ running[g].read \in {inclusionEpoch[t], 0}
  \/ Moving(t, {"move"})

MutationFollows(t) ==
  \/ inclusionEpoch[t] \in mutations[t]
  \/ \E g \in Goroutine : Busy(g, {"acceptOutputs", "read"} \union Storing, t) /\ ~Moves(g)
  \/ \E g \in Goroutine : Busy(g, {"add"}, t) /\ running[g].read = inclusionEpoch[t]
  \/ Moving(t, {"move", "update"} \union Storing)

StoredInv ==
  \A t \in Transaction : transactionState[t] = "Accepted" =>
    SpentFollows(t) /\ CreatedFollows(t) /\ MutationFollows(t)

(* A rejection has reached a transaction, or the task of the conflict will *)
(* take it there.                                                          *)
ReachedBy(c, u) ==
  \/ transactionState[u] = "Rejected"
  \/ Busy(<<"reject", c, 0>>, {"reject"}, u)
  \/ u \in running[<<"reject", c, 0>>].walk

Reached(u) == \E c \in Transaction : ReachedBy(c, u)

WalkInv ==
  /\ \A c \in Transaction : DAG!IsRejected(c) => Reached(c)
  /\ \A c \in Transaction : \A u \in running[<<"reject", c, 0>>].seen : ReachedBy(c, u)
  /\ \A t \in Transaction : transactionState[t] = "Rejected" =>
       \/ \E c \in Transaction : Busy(<<"reject", c, 0>>, {"rejectOutputs"}, t)
       \/ outputState[t] = "Rejected" /\ \A u \in Consumers(t) : Reached(u)

(* The inductive invariant when only accepted transactions are announced.  *)
SoundInv == IInv /\ EventInv /\ StoredInv /\ WalkInv

-----------------------------------------------------------------------------
LEMMA Goroutines ==
  /\ \A t \in Transaction : \A i \in InclusionEpochs[t] : <<"include", t, i>> \in Goroutine
  /\ \A t \in Transaction : <<"accept", t, 0>> \in Goroutine /\ <<"reject", t, 0>> \in Goroutine
  /\ \A g \in Goroutine :
       \/ \E t \in Transaction : \E i \in InclusionEpochs[t] : g = <<"include", t, i>>
       \/ \E t \in Transaction : g = <<"accept", t, 0>> \/ g = <<"reject", t, 0>>
  <1> DEFINE I(t) == {"include"} \X {t} \X InclusionEpochs[t]
             includes == {I(t) : t \in Transaction}
             tasks == {"accept", "reject"} \X Transaction \X {0}
  <1>1. Goroutine = tasks \union (UNION includes)
    BY DEF Goroutine
  <1>2. \A t \in Transaction : I(t) \in includes
    OBVIOUS
  <1>3. \A S \in includes : \E t \in Transaction : S = I(t)
    OBVIOUS
  <1>4. \A t \in Transaction : \A i \in InclusionEpochs[t] : <<"include", t, i>> \in I(t)
    OBVIOUS
  <1>5. \A t \in Transaction : \A g \in I(t) : \E i \in InclusionEpochs[t] : g = <<"include", t, i>>
    OBVIOUS
  <1>6. \A t \in Transaction : <<"accept", t, 0>> \in tasks /\ <<"reject", t, 0>> \in tasks
    OBVIOUS
  <1>7. \A g \in tasks : \E t \in Transaction : g = <<"accept", t, 0>> \/ g = <<"reject", t, 0>>
    OBVIOUS
  <1> HIDE DEF I, includes, tasks
  <1>8. \A t \in Transaction : I(t) \subseteq Goroutine
    BY <1>1, <1>2
  <1>9. \A g \in Goroutine : g \in tasks \/ \E t \in Transaction : g \in I(t)
    BY <1>1, <1>3
  <1>10. tasks \subseteq Goroutine
    BY <1>1
  <1>11. \A t \in Transaction : \A i \in InclusionEpochs[t] : <<"include", t, i>> \in Goroutine
    BY <1>4, <1>8
  <1>12. \A t \in Transaction : <<"accept", t, 0>> \in Goroutine /\ <<"reject", t, 0>> \in Goroutine
    BY <1>6, <1>10
  <1>13. ASSUME NEW g \in Goroutine
         PROVE  \/ \E t \in Transaction : \E i \in InclusionEpochs[t] : g = <<"include", t, i>>
                \/ \E t \in Transaction : g = <<"accept", t, 0>> \/ g = <<"reject", t, 0>>
    BY <1>5, <1>7, <1>9
  <1> QED
    BY <1>11, <1>12, <1>13

(* The epochs of blocks are those that count, 0 is none of them.           *)
LEMMA Epochs ==
  ASSUME NEW t \in Transaction, NEW i \in InclusionEpochs[t]
  PROVE  i \in Nat /\ i # 0
  BY AcceptanceConstants

-----------------------------------------------------------------------------
(* What a transaction inherits are conflicts.                              *)
LEMMA InheritedConflicts ==
  /\ Conflict \subseteq Transaction
  /\ \A t \in Transaction : Inherited[t] \subseteq Conflict /\ ConflictIDs[t] \subseteq Conflict
  BY DEF Conflict, Inherited, ConflictIDs

(* A transaction inherits the conflicts of what it spends.                 *)
LEMMA ConsumersInherit ==
  ASSUME NEW t \in Transaction, NEW c \in Consumers(t)
  PROVE  ConflictIDs[t] \subseteq Inherited[c]
  <1> DEFINE producers == [u \in Transaction |-> {p \in Transaction : u \in Consumers(p)}]
             next == [u \in Transaction |-> IF u \in Conflict THEN {} ELSE producers[u]]
  <1>1. c \in Transaction /\ t \in producers[c]
    BY DEF Consumers
  <1>2. /\ producers \in [Transaction -> SUBSET Transaction]
        /\ next \in [Transaction -> SUBSET Transaction]
    OBVIOUS
  <1>3. \A u \in Transaction :
          Inherited[u] = Conflict \intersect ConflictDAG!Closure(producers[u], next)
    BY DEF Inherited, DAG!Closure, ConflictDAG!Closure
  <1>4. \A u \in Transaction : next[u] = IF u \in Conflict THEN {} ELSE producers[u]
    OBVIOUS
  <1> HIDE DEF producers, next
  <1>5. producers[c] \in SUBSET Transaction /\ producers[t] \in SUBSET Transaction
    BY <1>1, <1>2
  <1>6. producers[c] \subseteq ConflictDAG!Closure(producers[c], next)
    BY <1>5, ConflictDAG!ClosureHoldsStart
  <1>7. \A x \in ConflictDAG!Closure(producers[c], next) :
          next[x] \subseteq ConflictDAG!Closure(producers[c], next)
    BY <1>2, <1>5, ConflictDAG!ClosureIsClosed
  <1>8. CASE t \in Conflict
    BY <1>1, <1>3, <1>6, <1>8 DEF ConflictIDs
  <1>9. CASE t \notin Conflict
    <2>1. producers[t] \subseteq ConflictDAG!Closure(producers[c], next)
      BY <1>1, <1>4, <1>6, <1>7, <1>9
    <2>2. ConflictDAG!Closure(producers[c], next) \in SUBSET Transaction
      BY <1>2, <1>5, ConflictDAG!ClosureOfIDs
    <2>3. ConflictDAG!Closure(producers[t], next) \subseteq
            ConflictDAG!Closure(producers[c], next)
      BY <1>5, <1>7, <2>1, <2>2, ConflictDAG!ClosureIsLeast
    <2> QED
      BY <1>1, <1>3, <1>9, <2>3 DEF ConflictIDs
  <1> QED
    BY <1>8, <1>9

(* The conflicts of a transaction are in any set that holds it and, with a *)
(* transaction, what that one spends.                                      *)
LEMMA ConflictsAreSpent ==
  ASSUME NEW N \in SUBSET Transaction,
         \A p \in Transaction : \A c \in Consumers(p) : c \in N => p \in N,
         NEW t \in N
  PROVE  ConflictIDs[t] \subseteq N
  <1> DEFINE producers == [u \in Transaction |-> {p \in Transaction : u \in Consumers(p)}]
             next == [u \in Transaction |-> IF u \in Conflict THEN {} ELSE producers[u]]
  <1>1. Inherited[t] = Conflict \intersect DAG!Closure(producers[t], next)
    BY DEF Inherited
  <1>2. producers[t] \subseteq N /\ \A u \in N : next[u] \subseteq N
    OBVIOUS
  <1>3. producers[t] \in SUBSET Transaction
    OBVIOUS
  <1> HIDE DEF producers, next
  <1>4. DAG!Closure(producers[t], next) \subseteq N
    BY <1>2, <1>3, ConflictDAG!ClosureIsLeast DEF DAG!Closure, ConflictDAG!Closure
  <1> QED
    BY <1>1, <1>4 DEF ConflictIDs

-----------------------------------------------------------------------------
(* The ConflictDAG of the specification is the one of the theorems.        *)
LEMMA SameStates ==
  /\ DAG!Undefined = ConflictDAG!Undefined /\ DAG!Rejected = ConflictDAG!Rejected
  /\ DAG!Pending = ConflictDAG!Pending /\ DAG!Accepted = ConflictDAG!Accepted
  BY DEF DAG!Undefined, ConflictDAG!Undefined, DAG!Rejected, ConflictDAG!Rejected,
         DAG!Pending, ConflictDAG!Pending, DAG!Accepted, ConflictDAG!Accepted

LEMMA SameDAG ==
  ASSUME NEW t \in Transaction
  PROVE  /\ DAG!IsAccepted(t) <=> ConflictDAG!IsAccepted(t)
         /\ DAG!IsRejected(t) <=> ConflictDAG!IsRejected(t)
         /\ (DAG!IsAccepted(t))' <=> (ConflictDAG!IsAccepted(t))'
         /\ (DAG!IsRejected(t))' <=> (ConflictDAG!IsRejected(t))'
         /\ DAG!NewlyAccepted(t) = ConflictDAG!NewlyAccepted(t)
         /\ DAG!NewlyRejected(t) = ConflictDAG!NewlyRejected(t)
         /\ DAG!SetConflictAccepted(t) <=> ConflictDAG!SetConflictAccepted(t)
         /\ DAG!TypeOK <=> ConflictDAG!TypeOK
  <1>1. ASSUME NEW c \in Transaction
        PROVE  /\ DAG!IsAccepted(c) <=> ConflictDAG!IsAccepted(c)
               /\ DAG!IsRejected(c) <=> ConflictDAG!IsRejected(c)
               /\ (DAG!IsAccepted(c))' <=> (ConflictDAG!IsAccepted(c))'
               /\ (DAG!IsRejected(c))' <=> (ConflictDAG!IsRejected(c))'
    BY SameStates
    DEF DAG!IsAccepted, ConflictDAG!IsAccepted, DAG!IsRejected, ConflictDAG!IsRejected
  <1>2. ASSUME NEW S, NEW next PROVE DAG!Closure(S, next) = ConflictDAG!Closure(S, next)
    BY Zenon DEF DAG!Closure, ConflictDAG!Closure
  <1>3. DAG!NewlyAccepted(t) = ConflictDAG!NewlyAccepted(t)
    <2> DEFINE start == {t} \ {c \in Transaction : ConflictDAG!IsAccepted(c)}
               next == [c \in Transaction |-> {p \in parents[c] : ~ConflictDAG!IsAccepted(p)}]
    <2>1. DAG!NewlyAccepted(t) = DAG!Closure(start, next)
      BY SameStates DEF DAG!NewlyAccepted, DAG!IsAccepted, ConflictDAG!IsAccepted
    <2>2. ConflictDAG!NewlyAccepted(t) = ConflictDAG!Closure(start, next)
      BY Zenon DEF ConflictDAG!NewlyAccepted
    <2> HIDE DEF start, next
    <2> QED
      BY <1>2, <2>1, <2>2
  <1>4. DAG!NewlyRejected(t) = ConflictDAG!NewlyRejected(t)
    <2> DEFINE accepted == ConflictDAG!NewlyAccepted(t)
               stays == {c \in Transaction : ConflictDAG!IsRejected(c) /\ c \notin accepted}
               start == (UNION {ConflictDAG!Conflicting(c) : c \in accepted}) \ stays
               next == [c \in Transaction |-> children[c] \ stays]
    <2>1. ASSUME NEW c PROVE DAG!Conflicting(c) = ConflictDAG!Conflicting(c)
      BY Zenon DEF DAG!Conflicting, ConflictDAG!Conflicting
    <2>2. ConflictDAG!NewlyRejected(t) = ConflictDAG!Closure(start, next)
      BY Zenon DEF ConflictDAG!NewlyRejected
    <2>3. DAG!NewlyRejected(t) = DAG!Closure(start, next)
      <3>1. accepted = DAG!NewlyAccepted(t)
        BY <1>3
      <3>2. stays = {c \in Transaction : DAG!IsRejected(c) /\ c \notin accepted}
        BY <1>1
      <3>3. UNION {ConflictDAG!Conflicting(c) : c \in accepted}
              = UNION {DAG!Conflicting(c) : c \in accepted}
        <4> HIDE DEF accepted
        <4> QED
          BY <2>1
      <3> HIDE DEF accepted, stays
      <3> QED
        BY <3>1, <3>2, <3>3, Zenon DEF DAG!NewlyRejected
    <2> HIDE DEF start, next
    <2> QED
      BY <1>2, <2>2, <2>3
  <1>5. DAG!SetConflictAccepted(t) <=> ConflictDAG!SetConflictAccepted(t)
    BY <1>3, <1>4, SameStates
    DEF DAG!SetConflictAccepted, ConflictDAG!SetConflictAccepted, DAG!Exists, ConflictDAG!Exists
  <1>6. DAG!TypeOK <=> ConflictDAG!TypeOK
    BY SameStates DEF DAG!TypeOK, ConflictDAG!TypeOK
  <1> QED
    BY <1>1, <1>3, <1>4, <1>5, <1>6

(* What a decision of the ConflictDAG does to the conflicts.               *)
LEMMA Decision ==
  ASSUME DAGInv, NEW t \in Transaction, SetConflictAccepted(t)
  PROVE  /\ DAGInv'
         /\ \A c \in DAG!NewlyAccepted(t) \union DAG!NewlyRejected(t) :
              c \in Conflict /\ c \in Transaction /\ ~DAG!IsAccepted(c) /\ ~DAG!IsRejected(c)
         /\ \A c \in Transaction :
              (DAG!IsRejected(c))' <=> DAG!IsRejected(c) \/ c \in DAG!NewlyRejected(t)
         /\ \A c \in Transaction : (DAG!IsAccepted(c))' <=>
              DAG!IsAccepted(c) \/ (c \in DAG!NewlyAccepted(t) /\ c \notin DAG!NewlyRejected(t))
  <1>1. ConflictDAG!UnforkedInv
    BY DEF DAGInv
  <1>2. DAG!SetConflictAccepted(t) /\ ~DAG!IsAccepted(t) /\ ~DAG!IsRejected(t)
    BY DEF SetConflictAccepted, DAG!IsAccepted, DAG!IsRejected, DAG!Pending, DAG!Accepted, DAG!Rejected
  <1>3. ConflictDAG!SetConflictAccepted(t) /\ ~ConflictDAG!IsAccepted(t) /\ ~ConflictDAG!IsRejected(t)
    BY <1>2, SameDAG
  <1>4. /\ ConflictDAG!UnforkedInv' /\ ConflictDAG!Stored' = ConflictDAG!Stored
        /\ \A c \in ConflictDAG!NewlyAccepted(t) :
             c \in ConflictDAG!Stored /\ ~ConflictDAG!IsAccepted(c) /\ ~ConflictDAG!IsRejected(c)
        /\ \A c \in ConflictDAG!NewlyRejected(t) :
             c \in ConflictDAG!Stored /\ ~ConflictDAG!IsAccepted(c) /\ ~ConflictDAG!IsRejected(c)
        /\ \A c \in Transaction : ConflictDAG!IsRejected(c)' <=>
             ConflictDAG!IsRejected(c) \/ c \in ConflictDAG!NewlyRejected(t)
        /\ \A c \in Transaction : ConflictDAG!IsAccepted(c)' <=>
             ConflictDAG!IsAccepted(c) \/
             (c \in ConflictDAG!NewlyAccepted(t) /\ c \notin ConflictDAG!NewlyRejected(t))
    BY <1>1, <1>3, ConflictDAG!DecisionsAreFinal
  <1>5. parents' = parents
    BY <1>2 DEF DAG!SetConflictAccepted
  <1>6. DAGInv'
    BY <1>4, <1>5 DEF DAGInv
  <1>7. ConflictDAG!Stored = Conflict /\ Conflict \subseteq Transaction
    BY InheritedConflicts DEF DAGInv
  <1> QED
    BY <1>4, <1>6, <1>7, SameDAG

(* Nothing else touches the ConflictDAG.                                   *)
Decides == \E t \in Transaction : SetConflictAccepted(t)

LEMMA UndecidedStep ==
  ASSUME UNCHANGED conflictDAG
  PROVE  /\ DAGInv => DAGInv'
         /\ \A c \in Transaction : /\ (DAG!IsRejected(c))' <=> DAG!IsRejected(c)
                                   /\ (DAG!IsAccepted(c))' <=> DAG!IsAccepted(c)
  BY DEF conflictDAG, DAGInv, DAG!IsAccepted, DAG!IsRejected, ConflictDAG!UnforkedInv,
     ConflictDAG!TypeOK, ConflictDAG!ReferencesMirrored, ConflictDAG!ConesConsistent,
     ConflictDAG!AcceptedPastCone, ConflictDAG!RejectedFutureCone, ConflictDAG!ConflictSetsSettled,
     ConflictDAG!IsAccepted, ConflictDAG!IsRejected, ConflictDAG!Exists, ConflictDAG!Stored,
     ConflictDAG!Conflicting

(* The rejection of a conflict concerns whatever spends what depends on it. *)
LEMMA ConsumersRejected ==
  ASSUME DAGInv, NEW t \in Transaction, HasRejected(t), NEW c \in Consumers(t)
  PROVE  HasRejected(c)
  <1>1. PICK x \in ConflictIDs[t] : DAG!IsRejected(x)
    BY DEF HasRejected
  <1>2. c \in Transaction /\ x \in Transaction /\ x \in Inherited[c]
    BY ConsumersInherit, InheritedConflicts DEF Consumers
  <1>3. CASE c \notin Conflict
    BY <1>1, <1>2, <1>3 DEF HasRejected, ConflictIDs
  <1>4. CASE c \in Conflict
    <2>1. x \in parents[c]
      BY <1>2, <1>4 DEF DAGInv
    <2>2. c \in children[x]
      BY <1>2, <2>1 DEF DAGInv, ConflictDAG!UnforkedInv, ConflictDAG!ReferencesMirrored
    <2>3. ConflictDAG!IsRejected(c)
      BY <1>1, <1>2, <2>2, SameDAG
      DEF DAGInv, ConflictDAG!UnforkedInv, ConflictDAG!ConesConsistent, ConflictDAG!RejectedFutureCone
    <2> QED
      BY <1>2, <1>4, <2>3, SameDAG DEF HasRejected, ConflictIDs
  <1> QED
    BY <1>3, <1>4

(* Decisions are final, and so is what follows from them.                  *)
LEMMA DecisionsStay ==
  ASSUME DAGInv, [Next]_vars
  PROVE  /\ DAGInv'
         /\ \A c \in Transaction : DAG!IsAccepted(c) => (DAG!IsAccepted(c))'
         /\ \A c \in Transaction : DAG!IsRejected(c) => (DAG!IsRejected(c))'
         /\ \A t \in Transaction : ConflictsAccepted(t) => ConflictsAccepted(t)'
         /\ \A t \in Transaction : HasRejected(t) => HasRejected(t)'
  <1>1. /\ DAGInv'
        /\ \A c \in Transaction : DAG!IsAccepted(c) => (DAG!IsAccepted(c))'
        /\ \A c \in Transaction : DAG!IsRejected(c) => (DAG!IsRejected(c))'
    <2>1. CASE Decides
      BY <2>1, Decision DEF Decides
    <2>2. CASE UNCHANGED conflictDAG
      BY <2>2, UndecidedStep
    <2>3. ASSUME NEW g \in Goroutine, SetTransactionInclusionEpoch(g) \/ Proceed(g)
          PROVE  UNCHANGED conflictDAG
      BY <2>3 DEF SetTransactionInclusionEpoch, SetInclusionEpoch, SetOutputsInclusionEpoch,
         MoveTransactionToOtherEpoch, UpdateTransactionInclusion, AcceptIfConflictsAccepted,
         Proceed, TriggerAcceptedEvent, AcceptOutputs, StoreTransaction, ReadSpentEpoch,
         StoreSpentOutputs, ReadCreatedEpoch, StoreCreatedOutputs, ReadInclusionEpoch,
         AddAcceptedTransaction, PropagateAcceptance, TriggerRejectedEvent, RejectOutputs,
         PropagateRejection
    <2>4. CASE UNCHANGED vars
      BY <2>2, <2>4 DEF vars, conflictDAG
    <2> QED
      BY <2>1, <2>2, <2>3, <2>4 DEF Next, Decides
  <1>2. \A t \in Transaction : ConflictIDs[t] \subseteq Transaction
    BY InheritedConflicts
  <1> QED
    BY <1>1, <1>2 DEF ConflictsAccepted, HasRejected

(* A transaction does not depend on a rejected conflict when all that it   *)
(* depends on is accepted.                                                 *)
LEMMA AcceptedOrRejected ==
  ASSUME NEW t \in Transaction, ConflictsAccepted(t)
  PROVE  ~HasRejected(t)
  BY DEF ConflictsAccepted, HasRejected, DAG!IsAccepted, DAG!IsRejected, DAG!Accepted, DAG!Rejected

-----------------------------------------------------------------------------
LEMMA InitInv == Init => SoundInv
  <1> SUFFICES ASSUME Init
               PROVE  SoundInv
    OBVIOUS
  <1>1. \A c \in Transaction : ~DAG!IsAccepted(c) /\ ~DAG!IsRejected(c)
    BY DEF Init, DAG!IsAccepted, DAG!IsRejected, DAG!Pending, DAG!Undefined, DAG!Accepted, DAG!Rejected
  <1>2. \A g \in Goroutine : running[g] = NotRunning
    BY DEF Init
  <1>3. DAG!TypeOK
    <2>1. confirmationState \in [Transaction -> {DAG!Undefined, DAG!Rejected, DAG!Pending, DAG!Accepted}]
      BY DEF Init
    <2>2. conflictSetIDs \in [Transaction -> SUBSET Output]
      BY AcceptanceConstants DEF Init, ConflictSetIDs
    <2>3. members \in [Output -> SUBSET Transaction]
      BY DEF Init
    <2>4. parents \in [Transaction -> SUBSET Transaction]
      BY InheritedConflicts DEF Init
    <2>5. children \in [Transaction -> SUBSET Transaction]
      BY InheritedConflicts DEF Init
    <2> QED
      BY <2>1, <2>2, <2>3, <2>4, <2>5 DEF DAG!TypeOK
  <1>4. DAGInv
    <2>1. ConflictDAG!TypeOK
      BY <1>3, SameStates DEF DAG!TypeOK, ConflictDAG!TypeOK
    <2>2. ConflictDAG!ReferencesMirrored
      <3>1. \A p, c \in Transaction : c \in children[p] <=> p \in parents[c]
        BY InheritedConflicts DEF Init
      <3>2. \A r \in Output, c \in Transaction : c \in members[r] <=> r \in conflictSetIDs[c]
        BY DEF Init
      <3>3. \A c \in Transaction : ConflictDAG!Exists(c) <=> c \in Conflict
        BY SameStates DEF Init, ConflictDAG!Exists, ConflictDAG!Pending, ConflictDAG!Undefined
      <3>4. \A c \in Transaction : parents[c] # {} \/ conflictSetIDs[c] # {} => c \in Conflict
        BY DEF Init, Conflict
      <3>5. \A c \in Transaction : parents[c] \subseteq Conflict
        BY InheritedConflicts DEF Init
      <3> QED
        BY <3>1, <3>2, <3>3, <3>4, <3>5, InheritedConflicts
        DEF ConflictDAG!ReferencesMirrored, ConflictDAG!Stored
    <2>3. ConflictDAG!ConesConsistent
      BY <1>1, SameDAG DEF ConflictDAG!ConesConsistent, ConflictDAG!AcceptedPastCone,
         ConflictDAG!RejectedFutureCone, ConflictDAG!ConflictSetsSettled
    <2>4. ConflictDAG!Stored = Conflict
      BY InheritedConflicts, SameStates
      DEF Init, ConflictDAG!Stored, ConflictDAG!Exists, ConflictDAG!Pending, ConflictDAG!Undefined
    <2> QED
      BY <2>1, <2>2, <2>3, <2>4 DEF Init, DAGInv, ConflictDAG!UnforkedInv
  <1>5. TypeOK
    <2>1. NotRunning \in LocalState
      BY DEF NotRunning, LocalState
    <2> QED
      BY <1>3, <2>1 DEF Init, TypeOK
  <1>6. IncludeInv /\ TaskInv
    <2>0. NotRunning.at = "idle" /\ NotRunning.walk = {} /\ NotRunning.seen = {}
      BY DEF NotRunning
    <2>1. IncludeInv
      <3>1. \A t \in Transaction : \A i \in InclusionEpochs[t] :
              running[<<"include", t, i>>].at = "idle"
        BY <1>2, <2>0, Goroutines
      <3> QED
        BY <3>1 DEF IncludeInv
    <2>2. ASSUME NEW c \in Transaction, NEW r, r = <<"reject", c, 0>>
          PROVE  /\ running[r].at = "idle" /\ running[r].walk = {}
                 /\ \A t \in Transaction : ~Meets(r, t)
      <3>1. running[r] = NotRunning
        BY <1>2, <2>2, Goroutines
      <3> QED
        BY <2>0, <3>1 DEF Meets
    <2>3. \A c \in Transaction : running[<<"accept", c, 0>>].at = "idle"
      BY <1>2, <2>0, Goroutines
    <2>4. TaskInv
      BY <2>2, <2>3 DEF TaskInv
    <2> QED
      BY <2>1, <2>4
  <1>7. StateInv /\ MeetInv /\ OutputInv
    <2>1. StateInv /\ MeetInv
      BY <1>2 DEF Init, StateInv, MeetInv, NotRunning, Announcing
    <2>2. \A t \in Transaction : \A i \in InclusionEpochs[t] :
            running[<<"include", t, i>>].at = "idle" /\ i # 0
      <3>1. ASSUME NEW t \in Transaction, NEW i \in InclusionEpochs[t], NEW g, g = <<"include", t, i>>
            PROVE  running[g].at = "idle" /\ i # 0
        BY <1>2, <3>1, Goroutines, Epochs DEF NotRunning
      <3> QED
        BY <3>1
    <2>3. \A t \in Transaction : inclusionEpoch[t] = 0 /\ outputEpoch[t] = 0
      BY DEF Init
    <2> QED
      BY <2>1, <2>2, <2>3 DEF OutputInv
  <1>8. EventInv /\ StoredInv /\ WalkInv
    BY <1>1, <1>2, Goroutines DEF Init, EventInv, StoredInv, WalkInv, NotRunning
  <1> QED
    BY <1>4, <1>5, <1>6, <1>7, <1>8 DEF SoundInv, IInv

-----------------------------------------------------------------------------
(* Every step is one of a goroutine, or a decision.                        *)
LEMMA Steps ==
  ASSUME [Next]_vars
  PROVE  \/ UNCHANGED vars
         \/ \E t \in Transaction : SetConflictAccepted(t)
         \/ \E t \in Transaction : \E i \in InclusionEpochs[t] :
              LET g == <<"include", t, i>>
              IN  \/ SetInclusionEpoch(g, t, i) \/ SetOutputsInclusionEpoch(g, t, i)
                  \/ MoveTransactionToOtherEpoch(g, t, i) \/ UpdateTransactionInclusion(g, t, i)
                  \/ AcceptIfConflictsAccepted(g, t, i)
         \/ \E g \in Goroutine : Proceed(g)
  <1>1. ASSUME NEW g \in Goroutine, SetTransactionInclusionEpoch(g)
        PROVE  \E t \in Transaction : \E i \in InclusionEpochs[t] :
                 LET h == <<"include", t, i>>
                 IN  \/ SetInclusionEpoch(h, t, i) \/ SetOutputsInclusionEpoch(h, t, i)
                     \/ MoveTransactionToOtherEpoch(h, t, i) \/ UpdateTransactionInclusion(h, t, i)
                     \/ AcceptIfConflictsAccepted(h, t, i)
    <2>1. PICK t \in Transaction : \E i \in InclusionEpochs[t] :
             \/ SetInclusionEpoch(g, t, i) \/ SetOutputsInclusionEpoch(g, t, i)
             \/ MoveTransactionToOtherEpoch(g, t, i) \/ UpdateTransactionInclusion(g, t, i)
             \/ AcceptIfConflictsAccepted(g, t, i)
      BY <1>1 DEF SetTransactionInclusionEpoch
    <2>2. PICK i \in InclusionEpochs[t] :
             \/ SetInclusionEpoch(g, t, i) \/ SetOutputsInclusionEpoch(g, t, i)
             \/ MoveTransactionToOtherEpoch(g, t, i) \/ UpdateTransactionInclusion(g, t, i)
             \/ AcceptIfConflictsAccepted(g, t, i)
      BY <2>1
    <2>3. g = <<"include", t, i>>
      BY <2>2 DEF SetInclusionEpoch, SetOutputsInclusionEpoch, MoveTransactionToOtherEpoch,
                  UpdateTransactionInclusion, AcceptIfConflictsAccepted
    <2> QED
      BY <2>2, <2>3
  <1> QED
    BY <1>1 DEF Next

(* The types of what goroutines do, and of what they write.                *)
RunTypes == running \in [Goroutine -> LocalState]

StoreTypes ==
  /\ transactionState \in [Transaction -> {"Pending", "Accepted", "Rejected"}]
  /\ outputState \in [Transaction -> {"Pending", "Accepted", "Rejected"}]
  /\ inclusionEpoch \in [Transaction -> Nat] /\ outputEpoch \in [Transaction -> Nat]
  /\ spentOutputs \in [Transaction -> SUBSET Nat] /\ createdOutputs \in [Transaction -> SUBSET Nat]
  /\ mutations \in [Transaction -> SUBSET Nat]
  /\ \A t \in Transaction :
       /\ {inclusionEpoch[t], outputEpoch[t]} \subseteq InclusionEpochs[t] \union {0}
       /\ spentOutputs[t] \union mutations[t] \subseteq InclusionEpochs[t]
       /\ createdOutputs[t] \subseteq InclusionEpochs[t] \union {0}
  /\ acceptedEvents \in [Transaction -> Nat]

LEMMA GoroutineMoves ==
  ASSUME RunTypes, NEW g \in Goroutine, NEW r \in LocalState,
         running' = [running EXCEPT ![g] = r]
  PROVE  RunTypes'
  BY DEF RunTypes

(* A goroutine that is under way goes on with a transaction.               *)
LEMMA GoroutineGoes ==
  ASSUME RunTypes, NEW g \in Goroutine, running[g].at \notin {"idle", "done"},
         NEW step \in {"move", "update", "decide", "accept", "acceptOutputs", "readSpent",
                       "readCreated", "read", "rejectOutputs", "walk", "done"},
         Go(g, step)
  PROVE  RunTypes'
  <1> DEFINE r == [running[g] EXCEPT !.at = step]
  <1>1. running[g] \in LocalState
    BY DEF RunTypes
  <1>2. r \in LocalState
    BY <1>1 DEF LocalState
  <1>3. running' = [running EXCEPT ![g] = r]
    BY DEF Go
  <1> HIDE DEF r
  <1> QED
    BY <1>2, <1>3, GoroutineMoves

(* A goroutine that is under way reads an epoch.                           *)
LEMMA GoroutineReads ==
  ASSUME RunTypes, NEW g \in Goroutine, running[g].at \notin {"idle", "done"},
         NEW step \in {"storeSpent", "storeCreated", "add"}, NEW epoch \in Nat,
         Read(g, epoch, step)
  PROVE  RunTypes'
  <1> DEFINE r == [running[g] EXCEPT !.at = step, !.read = epoch]
  <1>1. running[g] \in LocalState
    BY DEF RunTypes
  <1>2. r \in LocalState
    BY <1>1 DEF LocalState
  <1>3. running' = [running EXCEPT ![g] = r]
    BY DEF Read
  <1> HIDE DEF r
  <1> QED
    BY <1>2, <1>3, GoroutineMoves

(* What is stored for a transaction are epochs it is in blocks of.         *)
LEMMA EpochsStored ==
  ASSUME RunTypes, NEW store \in [Transaction -> SUBSET Nat], NEW g \in Goroutine,
         running[g].tx \in Transaction
  PROVE  /\ Store(store, g) \in [Transaction -> SUBSET Nat]
         /\ \A t \in Transaction :
              Store(store, g)[t] = IF t = running[g].tx THEN store[t] \union {running[g].read}
                                                        ELSE store[t]
  <1>1. running[g].read \in Nat
    BY DEF RunTypes, LocalState
  <1> QED
    BY <1>1 DEF Store

LEMMA TypeStep ==
  ASSUME IInv, [Next]_vars
  PROVE  TypeOK'
  <1> SUFFICES RunTypes' /\ StoreTypes'
    <2>1. DAGInv'
      BY DecisionsStay DEF IInv
    <2>2. DAG!TypeOK'
      BY <2>1, SameStates
      DEF DAGInv, ConflictDAG!UnforkedInv, DAG!TypeOK, ConflictDAG!TypeOK
    <2> QED
      BY <2>2 DEF TypeOK, RunTypes, StoreTypes
  <1>a. RunTypes /\ StoreTypes
    BY DEF IInv, TypeOK, RunTypes, StoreTypes
  <1>b. IncludeInv /\ TaskInv /\ StateInv
    BY DEF IInv
  <1>1. ASSUME NEW t \in Transaction, SetConflictAccepted(t)
        PROVE  RunTypes' /\ StoreTypes'
    <2>1. RunTypes'
      <3>1. \A c \in Transaction : \A a \in {"accept", "reject"} :
              [NotRunning EXCEPT !.at = a, !.tx = c] \in LocalState
        BY DEF NotRunning, LocalState
      <3>2. \A g \in Goroutine :
              \/ running'[g] = running[g]
              \/ g[1] \in {"accept", "reject"} /\ running'[g] = [NotRunning EXCEPT !.at = g[1], !.tx = g[2]]
        BY <1>1 DEF SetConflictAccepted
      <3>3. \A g \in Goroutine : g[2] \in Transaction
        BY Goroutines
      <3>4. ASSUME NEW g \in Goroutine
            PROVE  running'[g] \in LocalState
        <4>1. CASE running'[g] = running[g]
          BY <1>a, <4>1 DEF RunTypes
        <4>2. CASE g[1] \in {"accept", "reject"} /\ running'[g] = [NotRunning EXCEPT !.at = g[1], !.tx = g[2]]
          <5> DEFINE a == g[1]
                     c == g[2]
          <5>1. a \in {"accept", "reject"} /\ c \in Transaction
            BY <3>3, <4>2
          <5>2. running'[g] = [NotRunning EXCEPT !.at = a, !.tx = c]
            BY <4>2
          <5> HIDE DEF a, c
          <5> QED
            BY <3>1, <5>1, <5>2
        <4> QED
          BY <3>2, <4>1, <4>2
      <3>5. running' = [g \in Goroutine |-> running'[g]]
        BY <1>1 DEF SetConflictAccepted
      <3> QED
        BY <3>4, <3>5 DEF RunTypes
    <2>2. StoreTypes'
      BY <1>a, <1>1 DEF SetConflictAccepted, StoreTypes, metadata, states, stores, diffs
    <2> QED
      BY <2>1, <2>2
  <1>2. ASSUME NEW t \in Transaction, NEW i \in InclusionEpochs[t], NEW g \in Goroutine,
               g = <<"include", t, i>>,
               \/ SetInclusionEpoch(g, t, i) \/ SetOutputsInclusionEpoch(g, t, i)
               \/ MoveTransactionToOtherEpoch(g, t, i) \/ UpdateTransactionInclusion(g, t, i)
               \/ AcceptIfConflictsAccepted(g, t, i)
        PROVE  RunTypes' /\ StoreTypes'
    <2>1. CASE SetInclusionEpoch(g, t, i)
      <3>1. RunTypes'
        <4> DEFINE r == [NotRunning EXCEPT !.at = "outputs", !.tx = t, !.epoch = inclusionEpoch[t]]
                   d == [running[g] EXCEPT !.at = "done"]
        <4>1. r \in LocalState
          BY <1>a DEF NotRunning, LocalState, StoreTypes
        <4>2. d \in LocalState
          BY <1>a, <1>2 DEF RunTypes, LocalState
        <4>3. running' = [running EXCEPT ![g] = r] \/ running' = [running EXCEPT ![g] = d]
          BY <2>1 DEF SetInclusionEpoch, Go
        <4> HIDE DEF r, d
        <4> QED
          BY <1>a, <1>2, <4>1, <4>2, <4>3, GoroutineMoves
      <3>2. StoreTypes'
        <4>1. UNCHANGED <<outputEpoch, states, stores>>
          BY <2>1 DEF SetInclusionEpoch
        <4>2. inclusionEpoch' = [inclusionEpoch EXCEPT ![t] = i] \/ UNCHANGED inclusionEpoch
          BY <2>1 DEF SetInclusionEpoch
        <4> QED
          BY <1>a, <4>1, <4>2, Epochs DEF StoreTypes, states, stores, diffs
      <3> QED
        BY <3>1, <3>2
    <2>2. CASE SetOutputsInclusionEpoch(g, t, i)
      <3>1. RunTypes'
        <4>1. /\ running[g].at = "outputs"
              /\ Go(g, "decide") \/ Go(g, "move")
          BY <2>2 DEF SetOutputsInclusionEpoch, At
        <4> QED
          BY <1>a, <1>2, <4>1, GoroutineGoes
      <3>2. StoreTypes'
        BY <1>a, <1>b, <1>2, <2>2, Epochs DEF RunTypes, LocalState, StoreTypes, SetOutputsInclusionEpoch, At, metadata, states, stores, diffs
      <3> QED
        BY <3>1, <3>2
    <2>3. CASE MoveTransactionToOtherEpoch(g, t, i)
      <3>1. RunTypes'
        <4>1. running[g].at = "move" /\ (Go(g, "readSpent") \/ Go(g, "update"))
          BY <2>3 DEF MoveTransactionToOtherEpoch, At
        <4> QED
          BY <1>a, <1>2, <4>1, GoroutineGoes
      <3>2. StoreTypes'
        <4>1. \/ UNCHANGED diffs
              \/ /\ spentOutputs' = [spentOutputs EXCEPT ![t] = @ \ {running[g].epoch}]
                 /\ createdOutputs' = [createdOutputs EXCEPT ![t] = @ \ {running[g].epoch}]
          BY <2>3 DEF MoveTransactionToOtherEpoch
        <4>2. UNCHANGED <<metadata, states, mutations>>
          BY <2>3 DEF MoveTransactionToOtherEpoch
        <4> QED
          BY <1>a, <4>1, <4>2 DEF StoreTypes, metadata, states, diffs
      <3> QED
        BY <3>1, <3>2
    <2>4. CASE UpdateTransactionInclusion(g, t, i)
      <3>1. RunTypes'
        <4>1. running[g].at = "update" /\ Go(g, "done")
          BY <2>4 DEF UpdateTransactionInclusion, At
        <4> QED
          BY <1>a, <1>2, <4>1, GoroutineGoes
      <3>2. StoreTypes'
        BY <1>a, <1>b, <1>2, <2>4, Epochs DEF RunTypes, LocalState, StoreTypes, UpdateTransactionInclusion, At, metadata, states, stores, diffs
      <3> QED
        BY <3>1, <3>2
    <2>5. CASE AcceptIfConflictsAccepted(g, t, i)
      <3>1. RunTypes'
        <4>1. running[g].at = "decide" /\ (Go(g, "accept") \/ Go(g, "done"))
          BY <2>5 DEF AcceptIfConflictsAccepted, At
        <4> QED
          BY <1>a, <1>2, <4>1, GoroutineGoes
      <3>2. StoreTypes'
        BY <1>a, <1>b, <1>2, <2>5, Epochs DEF RunTypes, LocalState, StoreTypes, AcceptIfConflictsAccepted, At, metadata, states, stores, diffs
      <3> QED
        BY <3>1, <3>2
    <2> QED
      BY <1>2, <2>1, <2>2, <2>3, <2>4, <2>5
  <1>3. ASSUME NEW g \in Goroutine, Proceed(g)
        PROVE  RunTypes' /\ StoreTypes'
    <2>1. CASE TriggerAcceptedEvent(g)
      <3>1. RunTypes'
        <4>1. /\ running[g].at = "accept"
              /\ Go(g, "done") \/ Go(g, "walk") \/ Go(g, "acceptOutputs")
          BY <2>1 DEF TriggerAcceptedEvent, At, Continue
        <4> QED
          BY <1>a, <1>3, <4>1, GoroutineGoes
      <3>2. StoreTypes'
        BY <1>a, <1>b, <1>3, <2>1 DEF RunTypes, LocalState, StoreTypes, TriggerAcceptedEvent, At, metadata, states, stores, diffs
      <3> QED
        BY <3>1, <3>2
    <2>2. CASE AcceptOutputs(g)
      <3>1. RunTypes'
        <4>1. running[g].at = "acceptOutputs" /\ Go(g, "readSpent")
          BY <2>2 DEF AcceptOutputs, At
        <4> QED
          BY <1>a, <1>3, <4>1, GoroutineGoes
      <3>2. StoreTypes'
        BY <1>a, <1>b, <1>3, <2>2 DEF RunTypes, LocalState, StoreTypes, AcceptOutputs, At, metadata, states, stores, diffs
      <3> QED
        BY <3>1, <3>2
    <2>a. /\ running[g].at \notin {"idle", "done"} => running[g].tx \in Transaction
          /\ inclusionEpoch \in [Transaction -> Nat] /\ outputEpoch \in [Transaction -> Nat]
          /\ spentOutputs \in [Transaction -> SUBSET Nat] /\ createdOutputs \in [Transaction -> SUBSET Nat]
          /\ mutations \in [Transaction -> SUBSET Nat]
      BY <1>a, <1>3 DEF RunTypes, LocalState, StoreTypes
    <2>b. UNCHANGED <<metadata, states, stores>> => StoreTypes'
      BY <1>a DEF StoreTypes, metadata, states, stores, diffs
    <2>3. CASE StoreTransaction(g)
      <3>1. CASE ReadSpentEpoch(g)
        <4>1. running[g].at = "readSpent" /\ Read(g, inclusionEpoch[running[g].tx], "storeSpent")
          BY <3>1 DEF ReadSpentEpoch, At
        <4>2. RunTypes'
          BY <1>a, <1>3, <2>a, <4>1, GoroutineReads
        <4> QED
          BY <2>b, <3>1, <4>2 DEF ReadSpentEpoch
      <3>2. CASE StoreSpentOutputs(g)
        <4>1. running[g].at = "storeSpent" /\ Go(g, "readCreated") /\ spentOutputs' = Store(spentOutputs, g)
          BY <3>2 DEF StoreSpentOutputs, At
        <4>2. RunTypes'
          BY <1>a, <1>3, <4>1, GoroutineGoes
        <4>3. running[g].read \in InclusionEpochs[running[g].tx] /\ running[g].tx \in Transaction
          BY <1>b, <1>3, <2>a, <4>1 DEF StateInv
        <4>4. /\ spentOutputs' \in [Transaction -> SUBSET Nat]
              /\ \A t \in Transaction :
                   spentOutputs'[t] = IF t = running[g].tx THEN spentOutputs[t] \union {running[g].read}
                                                           ELSE spentOutputs[t]
          <5>1. /\ RunTypes /\ spentOutputs' = Store(spentOutputs, g) /\ running[g].tx \in Transaction
                /\ spentOutputs \in [Transaction -> SUBSET Nat]
            BY <1>a, <2>a, <4>1, <4>3
          <5>2. running[g].read \in Nat
            BY <1>3, <5>1 DEF RunTypes, LocalState
          <5> QED
            BY <5>1, <5>2 DEF Store
        <4>5. UNCHANGED <<metadata, states, createdOutputs, mutations>>
          BY <3>2 DEF StoreSpentOutputs
        <4>6. StoreTypes'
          BY <1>a, <4>3, <4>4, <4>5 DEF StoreTypes, metadata, states
        <4> QED
          BY <4>2, <4>6
      <3>3. CASE ReadCreatedEpoch(g)
        <4>1. running[g].at = "readCreated" /\ Read(g, outputEpoch[running[g].tx], "storeCreated")
          BY <3>3 DEF ReadCreatedEpoch, At
        <4>2. RunTypes'
          BY <1>a, <1>3, <2>a, <4>1, GoroutineReads
        <4> QED
          BY <2>b, <3>3, <4>2 DEF ReadCreatedEpoch
      <3>4. CASE StoreCreatedOutputs(g)
        <4>1. /\ running[g].at = "storeCreated" /\ (Go(g, "update") \/ Go(g, "read"))
              /\ createdOutputs' = Store(createdOutputs, g)
          BY <3>4 DEF StoreCreatedOutputs, At
        <4>2. RunTypes'
          BY <1>a, <1>3, <4>1, GoroutineGoes
        <4>3. /\ running[g].read \in InclusionEpochs[running[g].tx] \union {0}
              /\ running[g].tx \in Transaction
          BY <1>b, <1>3, <2>a, <4>1 DEF StateInv
        <4>4. /\ createdOutputs' \in [Transaction -> SUBSET Nat]
              /\ \A t \in Transaction :
                   createdOutputs'[t] = IF t = running[g].tx THEN createdOutputs[t] \union {running[g].read}
                                                             ELSE createdOutputs[t]
          <5>1. /\ RunTypes /\ createdOutputs' = Store(createdOutputs, g) /\ running[g].tx \in Transaction
                /\ createdOutputs \in [Transaction -> SUBSET Nat]
            BY <1>a, <2>a, <4>1, <4>3
          <5>2. running[g].read \in Nat
            BY <1>3, <5>1 DEF RunTypes, LocalState
          <5> QED
            BY <5>1, <5>2 DEF Store
        <4>5. UNCHANGED <<metadata, states, spentOutputs, mutations>>
          BY <3>4 DEF StoreCreatedOutputs
        <4>6. StoreTypes'
          BY <1>a, <4>3, <4>4, <4>5 DEF StoreTypes, metadata, states
        <4> QED
          BY <4>2, <4>6
      <3> QED
        BY <2>3, <3>1, <3>2, <3>3, <3>4 DEF StoreTransaction
    <2>4. CASE ReadInclusionEpoch(g)
      <3>1. running[g].at = "read" /\ Read(g, inclusionEpoch[running[g].tx], "add")
        BY <2>4 DEF ReadInclusionEpoch, At
      <3>2. RunTypes'
        BY <1>a, <1>3, <2>a, <3>1, GoroutineReads
      <3> QED
        BY <2>b, <2>4, <3>2 DEF ReadInclusionEpoch
    <2>5. CASE AddAcceptedTransaction(g)
      <3>1. RunTypes'
        <4> DEFINE r == [running[g] EXCEPT !.at = Continue(g),
                      !.walk = @ \union (Consumers(running[g].tx) \ running[g].seen),
                      !.seen = @ \union (Consumers(running[g].tx) \ running[g].seen)]
        <4>1. r \in LocalState
          <5>1. running[g] \in LocalState /\ running[g].at = "add"
            BY <1>a, <1>3, <2>5 DEF RunTypes, At, AddAcceptedTransaction
          <5> QED
            BY <5>1 DEF LocalState, Continue, Consumers
        <4>2. running' = [running EXCEPT ![g] = r]
          BY <2>5 DEF AddAcceptedTransaction
        <4> HIDE DEF r
        <4> QED
          BY <1>a, <1>3, <4>1, <4>2, GoroutineMoves
      <3>2. StoreTypes'
        <4>1. running[g].at = "add" /\ mutations' = Store(mutations, g)
          BY <2>5 DEF AddAcceptedTransaction, At
        <4>2. running[g].read \in InclusionEpochs[running[g].tx] /\ running[g].tx \in Transaction
          BY <1>b, <1>3, <2>a, <4>1 DEF StateInv
        <4>3. /\ mutations' \in [Transaction -> SUBSET Nat]
              /\ \A t \in Transaction :
                   mutations'[t] = IF t = running[g].tx THEN mutations[t] \union {running[g].read}
                                                        ELSE mutations[t]
          <5>1. /\ mutations' = Store(mutations, g) /\ RunTypes
                /\ running[g].tx \in Transaction /\ mutations \in [Transaction -> SUBSET Nat]
            BY <1>a, <2>a, <4>1, <4>2
          <5>2. running[g].read \in Nat
            BY <1>3, <5>1 DEF RunTypes, LocalState
          <5> QED
            BY <5>1, <5>2 DEF Store
        <4>4. UNCHANGED <<metadata, states, diffs>>
          BY <2>5 DEF AddAcceptedTransaction
        <4> QED
          BY <1>a, <4>2, <4>3, <4>4 DEF StoreTypes, metadata, states, diffs
      <3> QED
        BY <3>1, <3>2
    <2>6. CASE PropagateAcceptance(g)
      <3>1. RunTypes'
        <4>1. CASE Go(g, "done")
          <5>1. [running[g] EXCEPT !.at = "done"] \in LocalState
            BY <1>a, <1>3 DEF RunTypes, LocalState
          <5> QED
            BY <1>a, <1>3, <4>1, <5>1, GoroutineMoves DEF Go
        <4>2. ASSUME NEW c \in running[g].walk,
                     running' = [running EXCEPT ![g].walk = @ \ {c}, ![g].tx = c, ![g].at = IF ConflictsAccepted(c) THEN "walk" ELSE "accept"]
              PROVE  RunTypes'
          <5> DEFINE r == [running[g] EXCEPT !.walk = @ \ {c}, !.tx = c, !.at = IF ConflictsAccepted(c) THEN "walk" ELSE "accept"]
          <5>1. r \in LocalState
            BY <1>a, <1>3 DEF RunTypes, LocalState
          <5>2. running' = [running EXCEPT ![g] = r]
            BY <4>2
          <5> HIDE DEF r
          <5> QED
            BY <1>a, <1>3, <5>1, <5>2, GoroutineMoves
        <4> QED
          BY <2>6, <4>1, <4>2 DEF PropagateAcceptance
      <3>2. StoreTypes'
        BY <1>a, <1>b, <1>3, <2>6 DEF RunTypes, LocalState, StoreTypes, PropagateAcceptance, At, metadata, states, stores, diffs
      <3> QED
        BY <3>1, <3>2
    <2>7. CASE TriggerRejectedEvent(g)
      <3>1. RunTypes'
        <4>1. running[g].at = "reject" /\ (Go(g, "walk") \/ Go(g, "rejectOutputs"))
          BY <2>7 DEF TriggerRejectedEvent, At
        <4> QED
          BY <1>a, <1>3, <4>1, GoroutineGoes
      <3>2. StoreTypes'
        BY SMTT(20), <1>a, <1>b, <1>3, <2>7 DEF RunTypes, LocalState, StoreTypes, TriggerRejectedEvent, At, metadata, states, stores, diffs
      <3> QED
        BY <3>1, <3>2
    <2>8. CASE RejectOutputs(g)
      <3>1. RunTypes'
        <4> DEFINE r == [running[g] EXCEPT !.at = "walk",
                      !.walk = @ \union (Consumers(running[g].tx) \ running[g].seen),
                      !.seen = @ \union (Consumers(running[g].tx) \ running[g].seen)]
        <4>1. r \in LocalState
          <5>1. running[g] \in LocalState /\ running[g].at = "rejectOutputs"
            BY <1>a, <1>3, <2>8 DEF RunTypes, At, RejectOutputs
          <5> QED
            BY <5>1 DEF LocalState, Consumers
        <4>2. running' = [running EXCEPT ![g] = r]
          BY <2>8 DEF RejectOutputs
        <4> HIDE DEF r
        <4> QED
          BY <1>a, <1>3, <4>1, <4>2, GoroutineMoves
      <3>2. StoreTypes'
        BY <1>a, <1>b, <1>3, <2>8 DEF RunTypes, LocalState, StoreTypes, RejectOutputs, At, metadata, states, stores, diffs
      <3> QED
        BY <3>1, <3>2
    <2>9. CASE PropagateRejection(g)
      <3>1. RunTypes'
        <4>1. CASE Go(g, "done")
          <5>1. [running[g] EXCEPT !.at = "done"] \in LocalState
            BY <1>a, <1>3 DEF RunTypes, LocalState
          <5> QED
            BY <1>a, <1>3, <4>1, <5>1, GoroutineMoves DEF Go
        <4>2. ASSUME NEW c \in running[g].walk,
                     running' = [running EXCEPT ![g].walk = @ \ {c}, ![g].tx = c, ![g].at = "reject"]
              PROVE  RunTypes'
          <5> DEFINE r == [running[g] EXCEPT !.walk = @ \ {c}, !.tx = c, !.at = "reject"]
          <5>1. r \in LocalState
            BY <1>a, <1>3 DEF RunTypes, LocalState
          <5>2. running' = [running EXCEPT ![g] = r]
            BY <4>2
          <5> HIDE DEF r
          <5> QED
            BY <1>a, <1>3, <5>1, <5>2, GoroutineMoves
        <4> QED
          BY <2>9, <4>1, <4>2 DEF PropagateRejection
      <3>2. StoreTypes'
        BY <1>a, <1>b, <1>3, <2>9 DEF RunTypes, LocalState, StoreTypes, PropagateRejection, At, metadata, states, stores, diffs
      <3> QED
        BY <3>1, <3>2
    <2> QED
      BY <1>3, <2>1, <2>2, <2>3, <2>4, <2>5, <2>6, <2>7, <2>8, <2>9 DEF Proceed
  <1>4. CASE UNCHANGED vars
    BY <1>a, <1>4 DEF vars, metadata, states, stores, diffs, RunTypes, StoreTypes
  <1> QED
    BY <1>1, <1>2, <1>3, <1>4, Steps, Goroutines

-----------------------------------------------------------------------------
(* What a goroutine does leaves the others alone.                          *)
StepOf(g) == SetTransactionInclusionEpoch(g) \/ Proceed(g)

LEMMA OthersWait ==
  ASSUME RunTypes, NEW g \in Goroutine, StepOf(g), NEW h \in Goroutine \ {g}
  PROVE  running'[h] = running[h]
  BY DEF RunTypes, StepOf, SetTransactionInclusionEpoch, SetInclusionEpoch,
     SetOutputsInclusionEpoch, MoveTransactionToOtherEpoch, UpdateTransactionInclusion,
     AcceptIfConflictsAccepted, Proceed, TriggerAcceptedEvent, AcceptOutputs, StoreTransaction,
     ReadSpentEpoch, StoreSpentOutputs, ReadCreatedEpoch, StoreCreatedOutputs,
     ReadInclusionEpoch, AddAcceptedTransaction, PropagateAcceptance, TriggerRejectedEvent,
     RejectOutputs, PropagateRejection, Go, Read

(* A goroutine of a block takes these steps before its transaction is      *)
(* accepted.                                                               *)
LEMMA IncludeRuns ==
  ASSUME RunTypes, NEW g \in Goroutine, NEW t \in Transaction, NEW i \in InclusionEpochs[t],
         \/ SetInclusionEpoch(g, t, i) \/ SetOutputsInclusionEpoch(g, t, i)
         \/ MoveTransactionToOtherEpoch(g, t, i) \/ UpdateTransactionInclusion(g, t, i)
         \/ AcceptIfConflictsAccepted(g, t, i)
  PROVE  running'[g].at \in {"outputs", "decide", "move", "readSpent", "update", "accept", "done"}
  <1>1. ASSUME NEW at, Go(g, at)
        PROVE  running'[g].at = at
    BY <1>1 DEF Go, RunTypes, LocalState
  <1>2. CASE SetInclusionEpoch(g, t, i)
    <2>1. CASE running' = [running EXCEPT ![g] =
                 [NotRunning EXCEPT !.at = "outputs", !.tx = t, !.epoch = inclusionEpoch[t]]]
      <3>1. running'[g] = [NotRunning EXCEPT !.at = "outputs", !.tx = t, !.epoch = inclusionEpoch[t]]
        BY <2>1 DEF RunTypes
      <3> QED
        BY <3>1 DEF NotRunning
    <2> QED
      BY <1>1, <1>2, <2>1 DEF SetInclusionEpoch
  <1> QED
    BY <1>1, <1>2, Zenon
    DEF SetOutputsInclusionEpoch, MoveTransactionToOtherEpoch, UpdateTransactionInclusion,
        AcceptIfConflictsAccepted

LEMMA IncludeSteps ==
  ASSUME NEW t \in Transaction, NEW i \in InclusionEpochs[t], NEW g,
         g = <<"include", t, i>>, SetTransactionInclusionEpoch(g)
  PROVE  \/ SetInclusionEpoch(g, t, i) \/ SetOutputsInclusionEpoch(g, t, i)
         \/ MoveTransactionToOtherEpoch(g, t, i) \/ UpdateTransactionInclusion(g, t, i)
         \/ AcceptIfConflictsAccepted(g, t, i)
  <1>1. PICK u \in Transaction : \E j \in InclusionEpochs[u] :
           \/ SetInclusionEpoch(g, u, j) \/ SetOutputsInclusionEpoch(g, u, j)
           \/ MoveTransactionToOtherEpoch(g, u, j) \/ UpdateTransactionInclusion(g, u, j)
           \/ AcceptIfConflictsAccepted(g, u, j)
    BY DEF SetTransactionInclusionEpoch
  <1>2. PICK j \in InclusionEpochs[u] :
           \/ SetInclusionEpoch(g, u, j) \/ SetOutputsInclusionEpoch(g, u, j)
           \/ MoveTransactionToOtherEpoch(g, u, j) \/ UpdateTransactionInclusion(g, u, j)
           \/ AcceptIfConflictsAccepted(g, u, j)
    BY <1>1
  <1>3. g = <<"include", u, j>>
    BY <1>2 DEF SetInclusionEpoch, SetOutputsInclusionEpoch, MoveTransactionToOtherEpoch,
                UpdateTransactionInclusion, AcceptIfConflictsAccepted
  <1>4. u = g[2] /\ j = g[3] /\ t = g[2] /\ i = g[3]
    BY <1>3
  <1> QED
    BY <1>2, <1>4

LEMMA OnlyBlocksInclude ==
  ASSUME NEW g, SetTransactionInclusionEpoch(g)
  PROVE  g[1] = "include"
  <1>1. ASSUME NEW t, NEW i,
               \/ SetInclusionEpoch(g, t, i) \/ SetOutputsInclusionEpoch(g, t, i)
               \/ MoveTransactionToOtherEpoch(g, t, i) \/ UpdateTransactionInclusion(g, t, i)
               \/ AcceptIfConflictsAccepted(g, t, i)
        PROVE  g = <<"include", t, i>>
    BY <1>1 DEF SetInclusionEpoch, SetOutputsInclusionEpoch, MoveTransactionToOtherEpoch,
       UpdateTransactionInclusion, AcceptIfConflictsAccepted
  <1>2. \E t, i : g = <<"include", t, i>>
    BY <1>1 DEF SetTransactionInclusionEpoch
  <1> QED
    BY <1>2

(* A decision starts tasks, and only such that are idle.                   *)
LEMMA DecisionStarts ==
  ASSUME RunTypes, DAGInv, TaskInv, NEW t \in Transaction, SetConflictAccepted(t)
  PROVE  /\ UNCHANGED <<metadata, states, stores>>
         /\ \A u \in Transaction : \A i \in InclusionEpochs[u] :
              running'[<<"include", u, i>>] = running[<<"include", u, i>>]
         /\ \A c \in Transaction :
              LET a == <<"accept", c, 0>>
              IN  IF c \in DAG!NewlyAccepted(t)
                  THEN /\ running[a].at = "idle"
                       /\ running'[a] = [NotRunning EXCEPT !.at = "accept", !.tx = c]
                  ELSE running'[a] = running[a]
         /\ \A c \in Transaction :
              LET r == <<"reject", c, 0>>
              IN  IF c \in DAG!NewlyRejected(t)
                  THEN /\ running[r].at = "idle"
                       /\ running'[r] = [NotRunning EXCEPT !.at = "reject", !.tx = c]
                  ELSE running'[r] = running[r]
  <1>1. \A c \in DAG!NewlyAccepted(t) \union DAG!NewlyRejected(t) :
          c \in Transaction /\ ~DAG!IsAccepted(c) /\ ~DAG!IsRejected(c)
    BY Decision
  <1>2. \A c \in Transaction :
          /\ c \in DAG!NewlyAccepted(t) => running[<<"accept", c, 0>>].at = "idle"
          /\ c \in DAG!NewlyRejected(t) => running[<<"reject", c, 0>>].at = "idle"
    BY <1>1 DEF TaskInv
  <1>3. \A g \in Goroutine :
          running'[g] = IF \/ g[1] = "accept" /\ g[2] \in DAG!NewlyAccepted(t)
                           \/ g[1] = "reject" /\ g[2] \in DAG!NewlyRejected(t)
                        THEN [NotRunning EXCEPT !.at = g[1], !.tx = g[2]] ELSE running[g]
    BY DEF SetConflictAccepted
  <1>4. \A u \in Transaction : \A i \in InclusionEpochs[u] :
          running'[<<"include", u, i>>] = running[<<"include", u, i>>]
    <2> SUFFICES ASSUME NEW u \in Transaction, NEW i \in InclusionEpochs[u]
                 PROVE  running'[<<"include", u, i>>] = running[<<"include", u, i>>]
      OBVIOUS
    <2>1. <<"include", u, i>> \in Goroutine /\ <<"include", u, i>>[1] = "include"
      BY Goroutines
    <2> QED
      BY <1>3, <2>1
  <1>5. ASSUME NEW c \in Transaction
        PROVE  LET a == <<"accept", c, 0>>
               IN  IF c \in DAG!NewlyAccepted(t)
                   THEN running'[a] = [NotRunning EXCEPT !.at = "accept", !.tx = c]
                   ELSE running'[a] = running[a]
    <2>1. <<"accept", c, 0>> \in Goroutine /\ <<"accept", c, 0>>[1] = "accept" /\ <<"accept", c, 0>>[2] = c
      BY Goroutines
    <2> QED
      BY <1>3, <2>1
  <1>6. ASSUME NEW c \in Transaction
        PROVE  LET r == <<"reject", c, 0>>
               IN  IF c \in DAG!NewlyRejected(t)
                   THEN running'[r] = [NotRunning EXCEPT !.at = "reject", !.tx = c]
                   ELSE running'[r] = running[r]
    <2>1. <<"reject", c, 0>> \in Goroutine /\ <<"reject", c, 0>>[1] = "reject" /\ <<"reject", c, 0>>[2] = c
      BY Goroutines
    <2> QED
      BY <1>3, <2>1
  <1> QED
    BY <1>2, <1>4, <1>5, <1>6 DEF SetConflictAccepted

LEMMA DecisionRuns ==
  ASSUME RunTypes, DAGInv, TaskInv, NEW t \in Transaction, SetConflictAccepted(t),
         NEW g \in Goroutine
  PROVE  \/ running'[g] = running[g]
         \/ running[g].at = "idle" /\ running'[g].at \in {"accept", "reject"}
  <1>1. CASE \E u \in Transaction : \E i \in InclusionEpochs[u] : g = <<"include", u, i>>
    BY <1>1, DecisionStarts
  <1>2. ASSUME NEW c \in Transaction, g = <<"accept", c, 0>>
        PROVE  \/ running'[g] = running[g]
               \/ running[g].at = "idle" /\ running'[g].at = "accept"
    BY <1>2, DecisionStarts DEF NotRunning
  <1>3. ASSUME NEW c \in Transaction, g = <<"reject", c, 0>>
        PROVE  \/ running'[g] = running[g]
               \/ running[g].at = "idle" /\ running'[g].at = "reject"
    BY <1>3, DecisionStarts DEF NotRunning
  <1> QED
    BY <1>1, <1>2, <1>3, Goroutines

(* The inclusion epoch of a transaction only goes down.                    *)
LEMMA EarlierEpochs ==
  ASSUME StoreTypes, [Next]_vars, NEW t \in Transaction
  PROVE  \/ inclusionEpoch'[t] = inclusionEpoch[t]
         \/ /\ inclusionEpoch'[t] \in InclusionEpochs[t] /\ inclusionEpoch'[t] # 0
            /\ inclusionEpoch[t] = 0 \/ inclusionEpoch'[t] < inclusionEpoch[t]
  <1>1. CASE \E u \in Transaction : \E i \in InclusionEpochs[u] : SetInclusionEpoch(<<"include", u, i>>, u, i)
    BY <1>1, Epochs DEF StoreTypes, SetInclusionEpoch
  <1>2. CASE UNCHANGED inclusionEpoch
    BY <1>2
  <1>3. CASE \E u \in Transaction : SetConflictAccepted(u)
    BY <1>2, <1>3 DEF SetConflictAccepted, metadata
  <1>4. ASSUME NEW u \in Transaction, NEW i \in InclusionEpochs[u], NEW g,
               \/ SetOutputsInclusionEpoch(g, u, i) \/ MoveTransactionToOtherEpoch(g, u, i)
               \/ UpdateTransactionInclusion(g, u, i) \/ AcceptIfConflictsAccepted(g, u, i)
        PROVE  UNCHANGED inclusionEpoch
    BY SMTT(20), <1>4 DEF SetOutputsInclusionEpoch, MoveTransactionToOtherEpoch,
       UpdateTransactionInclusion, AcceptIfConflictsAccepted, metadata
  <1>5. ASSUME NEW g \in Goroutine, Proceed(g)
        PROVE  UNCHANGED inclusionEpoch
    BY <1>5 DEF Proceed, TriggerAcceptedEvent, AcceptOutputs, StoreTransaction, ReadSpentEpoch,
       StoreSpentOutputs, ReadCreatedEpoch, StoreCreatedOutputs, ReadInclusionEpoch,
       AddAcceptedTransaction, PropagateAcceptance, TriggerRejectedEvent, RejectOutputs,
       PropagateRejection, metadata
  <1> QED
    BY <1>1, <1>2, <1>3, <1>4, <1>5, Steps DEF vars, metadata

-----------------------------------------------------------------------------
(* What the steps of Proceed make of the local state.                      *)
Becomes(g, at, tx, walk, seen) ==
  /\ running'[g].at = at /\ running'[g].tx = tx
  /\ running'[g].walk = walk /\ running'[g].seen = seen

Unseen(g) == Consumers(running[g].tx) \ running[g].seen

LEMMA Proceeds ==
  ASSUME RunTypes, NEW g \in Goroutine
  PROVE  LET tx == running[g].tx
             walk == running[g].walk
             seen == running[g].seen
         IN /\ TriggerAcceptedEvent(g) =>
                 \/ Becomes(g, Continue(g), tx, walk, seen)
                 \/ Becomes(g, "acceptOutputs", tx, walk, seen) /\ inclusionEpoch[tx] # 0
            /\ AcceptOutputs(g) => Becomes(g, "readSpent", tx, walk, seen)
            /\ ReadSpentEpoch(g) =>
                 Becomes(g, "storeSpent", tx, walk, seen) /\ running'[g].read = inclusionEpoch[tx]
            /\ StoreSpentOutputs(g) => Becomes(g, "readCreated", tx, walk, seen)
            /\ ReadCreatedEpoch(g) =>
                 Becomes(g, "storeCreated", tx, walk, seen) /\ running'[g].read = outputEpoch[tx]
            /\ StoreCreatedOutputs(g) =>
                 Becomes(g, IF Moves(g) THEN "update" ELSE "read", tx, walk, seen)
            /\ ReadInclusionEpoch(g) =>
                 Becomes(g, "add", tx, walk, seen) /\ running'[g].read = inclusionEpoch[tx]
            /\ AddAcceptedTransaction(g) =>
                 Becomes(g, Continue(g), tx, walk \union Unseen(g), seen \union Unseen(g))
            /\ PropagateAcceptance(g) =>
                 \/ walk = {} /\ Becomes(g, "done", tx, walk, seen)
                 \/ \E c \in walk :
                      Becomes(g, IF ConflictsAccepted(c) THEN "walk" ELSE "accept", c, walk \ {c}, seen)
            /\ TriggerRejectedEvent(g) =>
                 \/ Becomes(g, "walk", tx, walk, seen) /\ transactionState[tx] = "Rejected"
                 \/ Becomes(g, "rejectOutputs", tx, walk, seen) /\ transactionState[tx] # "Rejected"
            /\ RejectOutputs(g) =>
                 Becomes(g, "walk", tx, walk \union Unseen(g), seen \union Unseen(g))
            /\ PropagateRejection(g) =>
                 \/ walk = {} /\ Becomes(g, "done", tx, walk, seen)
                 \/ \E c \in walk : Becomes(g, "reject", c, walk \ {c}, seen)
  <1> USE DEF RunTypes, LocalState, Go, Becomes
  <1>1. TriggerAcceptedEvent(g) =>
          \/ Becomes(g, Continue(g), running[g].tx, running[g].walk, running[g].seen)
          \/ /\ Becomes(g, "acceptOutputs", running[g].tx, running[g].walk, running[g].seen)
             /\ inclusionEpoch[running[g].tx] # 0
    BY DEF TriggerAcceptedEvent
  <1>2. AcceptOutputs(g) => Becomes(g, "readSpent", running[g].tx, running[g].walk, running[g].seen)
    BY DEF AcceptOutputs
  <1>a. ReadSpentEpoch(g) =>
          /\ Becomes(g, "storeSpent", running[g].tx, running[g].walk, running[g].seen)
          /\ running'[g].read = inclusionEpoch[running[g].tx]
    BY DEF ReadSpentEpoch, Read
  <1>b. StoreSpentOutputs(g) =>
          Becomes(g, "readCreated", running[g].tx, running[g].walk, running[g].seen)
    BY DEF StoreSpentOutputs
  <1>c. ReadCreatedEpoch(g) =>
          /\ Becomes(g, "storeCreated", running[g].tx, running[g].walk, running[g].seen)
          /\ running'[g].read = outputEpoch[running[g].tx]
    BY DEF ReadCreatedEpoch, Read
  <1>d. StoreCreatedOutputs(g) =>
          Becomes(g, IF Moves(g) THEN "update" ELSE "read", running[g].tx, running[g].walk, running[g].seen)
    BY DEF StoreCreatedOutputs
  <1>4. ReadInclusionEpoch(g) =>
          /\ Becomes(g, "add", running[g].tx, running[g].walk, running[g].seen)
          /\ running'[g].read = inclusionEpoch[running[g].tx]
    BY DEF ReadInclusionEpoch, Read
  <1>5. AddAcceptedTransaction(g) =>
          Becomes(g, Continue(g), running[g].tx, running[g].walk \union Unseen(g),
                  running[g].seen \union Unseen(g))
    BY DEF AddAcceptedTransaction, Unseen
  <1>6. PropagateAcceptance(g) =>
          \/ running[g].walk = {} /\ Becomes(g, "done", running[g].tx, running[g].walk, running[g].seen)
          \/ \E c \in running[g].walk :
               Becomes(g, IF ConflictsAccepted(c) THEN "walk" ELSE "accept", c,
                       running[g].walk \ {c}, running[g].seen)
    <2>1. ASSUME NEW c \in running[g].walk,
                 running' = [running EXCEPT ![g].walk = @ \ {c}, ![g].tx = c, ![g].at = IF ConflictsAccepted(c) THEN "walk" ELSE "accept"]
          PROVE  Becomes(g, IF ConflictsAccepted(c) THEN "walk" ELSE "accept", c,
                         running[g].walk \ {c}, running[g].seen)
      <3> DEFINE at == IF ConflictsAccepted(c) THEN "walk" ELSE "accept"
                 r == [running[g] EXCEPT !.walk = @ \ {c}, !.tx = c, !.at = at]
      <3>1. running' = [running EXCEPT ![g] = r]
        BY <2>1
      <3> HIDE DEF at
      <3>2. r.at = at /\ r.tx = c /\ r.walk = running[g].walk \ {c} /\ r.seen = running[g].seen
        OBVIOUS
      <3> HIDE DEF r
      <3>3. running'[g] = r
        BY <3>1
      <3> QED
        BY <3>2, <3>3 DEF at
    <2>2. Go(g, "done") => Becomes(g, "done", running[g].tx, running[g].walk, running[g].seen)
      OBVIOUS
    <2> HIDE DEF Becomes, Go, RunTypes, LocalState
    <2> QED
      BY <2>1, <2>2, Zenon DEF PropagateAcceptance
  <1>7. TriggerRejectedEvent(g) =>
          \/ /\ Becomes(g, "walk", running[g].tx, running[g].walk, running[g].seen)
             /\ transactionState[running[g].tx] = "Rejected"
          \/ /\ Becomes(g, "rejectOutputs", running[g].tx, running[g].walk, running[g].seen)
             /\ transactionState[running[g].tx] # "Rejected"
    BY DEF TriggerRejectedEvent
  <1>8. RejectOutputs(g) =>
          Becomes(g, "walk", running[g].tx, running[g].walk \union Unseen(g),
                  running[g].seen \union Unseen(g))
    BY DEF RejectOutputs, Unseen
  <1>9. PropagateRejection(g) =>
          \/ running[g].walk = {} /\ Becomes(g, "done", running[g].tx, running[g].walk, running[g].seen)
          \/ \E c \in running[g].walk :
               Becomes(g, "reject", c, running[g].walk \ {c}, running[g].seen)
    <2>1. ASSUME NEW c \in running[g].walk,
                 running' = [running EXCEPT ![g].walk = @ \ {c}, ![g].tx = c, ![g].at = "reject"]
          PROVE  Becomes(g, "reject", c,
                         running[g].walk \ {c}, running[g].seen)
      <3> DEFINE at == "reject"
                 r == [running[g] EXCEPT !.walk = @ \ {c}, !.tx = c, !.at = at]
      <3>1. running' = [running EXCEPT ![g] = r]
        BY <2>1
      <3> HIDE DEF at
      <3>2. r.at = at /\ r.tx = c /\ r.walk = running[g].walk \ {c} /\ r.seen = running[g].seen
        OBVIOUS
      <3> HIDE DEF r
      <3>3. running'[g] = r
        BY <3>1
      <3> QED
        BY <3>2, <3>3 DEF at
    <2>2. Go(g, "done") => Becomes(g, "done", running[g].tx, running[g].walk, running[g].seen)
      OBVIOUS
    <2> HIDE DEF Becomes, Go, RunTypes, LocalState
    <2> QED
      BY <2>1, <2>2, Zenon DEF PropagateRejection
  <1> HIDE DEF RunTypes, LocalState, Go, Becomes
  <1> QED
    BY <1>1, <1>2, <1>a, <1>b, <1>c, <1>d, <1>4, <1>5, <1>6, <1>7, <1>8, <1>9, Zenon

(* The epoch that a block replaces is noted for good.                      *)
LEMMA EpochStays ==
  ASSUME RunTypes, NEW g \in Goroutine, Proceed(g)
  PROVE  running'[g].epoch = running[g].epoch
  <1>1. ASSUME NEW at, Go(g, at) PROVE running'[g].epoch = running[g].epoch
    BY <1>1 DEF RunTypes, LocalState, Go
  <1>2. ASSUME NEW e, NEW at, Read(g, e, at) PROVE running'[g].epoch = running[g].epoch
    BY <1>2 DEF RunTypes, LocalState, Read
  <1>3. StoreTransaction(g) => running'[g].epoch = running[g].epoch
    BY <1>1, <1>2, Zenon DEF StoreTransaction, ReadSpentEpoch, StoreSpentOutputs, ReadCreatedEpoch,
       StoreCreatedOutputs
  <1>4. AddAcceptedTransaction(g) \/ RejectOutputs(g) => running'[g].epoch = running[g].epoch
    BY DEF RunTypes, LocalState, AddAcceptedTransaction, RejectOutputs
  <1>5. ASSUME NEW c, NEW at, running' = [running EXCEPT ![g].walk = @ \ {c}, ![g].tx = c, ![g].at = at]
        PROVE  running'[g].epoch = running[g].epoch
    BY <1>5 DEF RunTypes, LocalState
  <1>6. PropagateAcceptance(g) \/ PropagateRejection(g) => running'[g].epoch = running[g].epoch
    BY <1>1, <1>5, Zenon DEF PropagateAcceptance, PropagateRejection
  <1>7. AcceptOutputs(g) \/ ReadInclusionEpoch(g) => running'[g].epoch = running[g].epoch
    BY <1>1, <1>2, Zenon DEF AcceptOutputs, ReadInclusionEpoch
  <1>8. TriggerAcceptedEvent(g) \/ TriggerRejectedEvent(g) => running'[g].epoch = running[g].epoch
    BY <1>1, Zenon DEF TriggerAcceptedEvent, TriggerRejectedEvent
  <1> QED
    BY <1>3, <1>4, <1>6, <1>7, <1>8 DEF Proceed

(* What storeTransaction does, step by step.                               *)
LEMMA StoringSteps ==
  ASSUME RunTypes, NEW g \in Goroutine, StoreTransaction(g)
  PROVE  /\ UNCHANGED <<conflictDAG, metadata, states>>
         /\ running[g].at \in Storing /\ running'[g].tx = running[g].tx
         /\ running'[g].epoch = running[g].epoch
         /\ \/ /\ running[g].at = "readSpent" /\ running'[g].at = "storeSpent"
               /\ running'[g].read = inclusionEpoch[running[g].tx] /\ UNCHANGED stores
            \/ /\ running[g].at = "storeSpent" /\ running'[g].at = "readCreated"
               /\ spentOutputs' = Store(spentOutputs, g) /\ UNCHANGED <<createdOutputs, mutations>>
            \/ /\ running[g].at = "readCreated" /\ running'[g].at = "storeCreated"
               /\ running'[g].read = outputEpoch[running[g].tx] /\ UNCHANGED stores
            \/ /\ running[g].at = "storeCreated"
               /\ running'[g].at = IF Moves(g) THEN "update" ELSE "read"
               /\ createdOutputs' = Store(createdOutputs, g) /\ UNCHANGED <<spentOutputs, mutations>>
  <1>0. running'[g].epoch = running[g].epoch
    BY EpochStays DEF Proceed
  <1>1. CASE ReadSpentEpoch(g)
    BY <1>0, <1>1, Proceeds DEF ReadSpentEpoch, At, Becomes, Storing
  <1>2. CASE StoreSpentOutputs(g)
    BY <1>0, <1>2, Proceeds DEF StoreSpentOutputs, At, Becomes, Storing
  <1>3. CASE ReadCreatedEpoch(g)
    BY <1>0, <1>3, Proceeds DEF ReadCreatedEpoch, At, Becomes, Storing
  <1>4. CASE StoreCreatedOutputs(g)
    BY <1>0, <1>4, Proceeds DEF StoreCreatedOutputs, At, Becomes, Storing
  <1> QED
    BY <1>1, <1>2, <1>3, <1>4 DEF StoreTransaction

-----------------------------------------------------------------------------
LEMMA IncludeStep ==
  ASSUME IInv, [Next]_vars
  PROVE  IncludeInv'
  <1>a. RunTypes /\ StoreTypes /\ DAGInv /\ TaskInv
    BY DEF IInv, TypeOK, RunTypes, StoreTypes
  <1> SUFFICES ASSUME NEW t \in Transaction, NEW i \in InclusionEpochs[t],
                      NEW g \in Goroutine, g = <<"include", t, i>>
               PROVE  /\ running'[g].at \notin {"reject", "rejectOutputs", "walk"}
                      /\ running'[g].at \notin {"idle", "done"} =>
                           /\ running'[g].tx = t /\ inclusionEpoch'[t] # 0 /\ inclusionEpoch'[t] <= i
                           /\ running'[g].epoch = 0 \/ running'[g].epoch > i
                      /\ running'[g].at \in {"move", "update"} => running'[g].epoch # 0
                      /\ running'[g].at \in {"decide", "accept"} => running'[g].epoch = 0
    BY Goroutines DEF IncludeInv
  <1>b. /\ running[g].at \notin {"reject", "rejectOutputs", "walk"}
        /\ running[g].at \notin {"idle", "done"} =>
             /\ running[g].tx = t /\ inclusionEpoch[t] # 0 /\ inclusionEpoch[t] <= i
             /\ running[g].epoch = 0 \/ running[g].epoch > i
        /\ running[g].at \in {"move", "update"} => running[g].epoch # 0
        /\ running[g].at \in {"decide", "accept"} => running[g].epoch = 0
    BY DEF IInv, IncludeInv
  <1>c. i \in Nat /\ i # 0
    BY Epochs
  <1>1. CASE running'[g] = running[g]
    <2>1. \/ inclusionEpoch'[t] = inclusionEpoch[t]
          \/ inclusionEpoch'[t] # 0 /\ (inclusionEpoch[t] = 0 \/ inclusionEpoch'[t] < inclusionEpoch[t])
      BY <1>a, EarlierEpochs
    <2>2. inclusionEpoch[t] \in Nat /\ inclusionEpoch'[t] \in Nat
      BY <1>a, TypeStep DEF TypeOK, StoreTypes
    <2> QED
      BY <1>b, <1>c, <1>1, <2>1, <2>2
  <1>2. CASE Proceed(g)
    <2>1. UNCHANGED inclusionEpoch
      BY <1>2 DEF Proceed, TriggerAcceptedEvent, AcceptOutputs, StoreTransaction,
         ReadSpentEpoch, StoreSpentOutputs, ReadCreatedEpoch, StoreCreatedOutputs,
         ReadInclusionEpoch, AddAcceptedTransaction, PropagateAcceptance, TriggerRejectedEvent,
         RejectOutputs, PropagateRejection, metadata
    <2>2. running'[g].epoch = running[g].epoch
      BY <1>a, <1>2, EpochStays
    <2>3. /\ running'[g].at \in Announcing \union {"update", "done"}
          /\ running[g].at \notin {"idle", "done"} /\ running'[g].tx = running[g].tx
          /\ running'[g].at = "update" => running[g].epoch # 0
      <3>0. Continue(g) = "done"
        BY DEF Continue
      <3>1. CASE TriggerAcceptedEvent(g)
        BY <1>a, <3>0, <3>1, Proceeds DEF TriggerAcceptedEvent, At, Becomes, Announcing
      <3>2. CASE AcceptOutputs(g)
        BY <1>a, <3>2, Proceeds DEF AcceptOutputs, At, Becomes, Announcing
      <3>3. CASE StoreTransaction(g)
        <4>1. running[g].at \notin {"idle", "done"}
          BY <3>3 DEF StoreTransaction, ReadSpentEpoch, StoreSpentOutputs, ReadCreatedEpoch,
             StoreCreatedOutputs, At
        <4>2. StoreCreatedOutputs(g) => running'[g].at = "read" \/ (running'[g].at = "update" /\ running[g].epoch # 0)
          BY <1>a, Proceeds DEF Becomes, Moves
        <4> QED
          BY <1>a, <3>3, <4>1, <4>2, Proceeds DEF StoreTransaction, Becomes, Announcing
      <3>4. CASE ReadInclusionEpoch(g)
        BY <1>a, <3>4, Proceeds DEF ReadInclusionEpoch, At, Becomes, Announcing
      <3>5. CASE AddAcceptedTransaction(g)
        BY <1>a, <3>0, <3>5, Proceeds DEF AddAcceptedTransaction, At, Becomes
      <3>6. ~(At(g, "walk") \/ At(g, "reject") \/ At(g, "rejectOutputs"))
        BY <1>b DEF At
      <3> QED
        BY <1>2, <3>1, <3>2, <3>3, <3>4, <3>5, <3>6
        DEF Proceed, PropagateAcceptance, TriggerRejectedEvent, RejectOutputs, PropagateRejection
    <2>4. running'[g].at \notin {"decide", "accept", "move", "reject", "rejectOutputs", "walk"}
      BY <2>3 DEF Announcing
    <2> QED
      BY <1>b, <2>1, <2>2, <2>3, <2>4
  <1>3. CASE SetInclusionEpoch(g, t, i)
    <2>1. inclusionEpoch[t] \in Nat /\ inclusionEpoch \in [Transaction -> Nat]
      BY <1>a DEF StoreTypes
    <2>2. CASE inclusionEpoch[t] # 0 /\ i >= inclusionEpoch[t] /\ Go(g, "done") /\ UNCHANGED inclusionEpoch
      <3>1. running'[g].at = "done"
        BY <1>a, <2>2 DEF Go, RunTypes, LocalState
      <3> QED
        BY <3>1
    <2>3. CASE /\ inclusionEpoch[t] = 0 \/ i < inclusionEpoch[t]
               /\ inclusionEpoch' = [inclusionEpoch EXCEPT ![t] = i]
               /\ running' = [running EXCEPT ![g] =
                    [NotRunning EXCEPT !.at = "outputs", !.tx = t, !.epoch = inclusionEpoch[t]]]
      <3>1. /\ running'[g].at = "outputs" /\ running'[g].tx = t
            /\ running'[g].epoch = inclusionEpoch[t]
        BY <1>a, <2>3 DEF RunTypes, NotRunning
      <3>2. inclusionEpoch'[t] = i
        BY <2>1, <2>3
      <3> QED
        BY <1>c, <2>1, <2>3, <3>1, <3>2
    <2> QED
      BY <1>3, <2>2, <2>3 DEF SetInclusionEpoch
  <1>4. CASE SetOutputsInclusionEpoch(g, t, i)
    BY <1>a, <1>b, <1>4 DEF SetOutputsInclusionEpoch, Go, At, RunTypes, LocalState
  <1>5. CASE MoveTransactionToOtherEpoch(g, t, i)
    BY <1>a, <1>b, <1>5 DEF MoveTransactionToOtherEpoch, Go, At, RunTypes, LocalState, metadata
  <1>6. CASE UpdateTransactionInclusion(g, t, i)
    BY <1>a, <1>b, <1>6 DEF UpdateTransactionInclusion, Go, At, RunTypes, LocalState, metadata
  <1>7. CASE AcceptIfConflictsAccepted(g, t, i)
    BY <1>a, <1>b, <1>7 DEF AcceptIfConflictsAccepted, Go, At, RunTypes, LocalState, metadata
  <1>8. CASE SetTransactionInclusionEpoch(g)
    BY <1>3, <1>4, <1>5, <1>6, <1>7, <1>8, IncludeSteps
  <1>9. ASSUME NEW h \in Goroutine, StepOf(h)
        PROVE  running'[g] = running[g] \/ StepOf(g)
    BY <1>a, <1>9, OthersWait
  <1>10. CASE \E u \in Transaction : SetConflictAccepted(u)
    BY <1>a, <1>1, <1>10, DecisionStarts
  <1>11. CASE UNCHANGED vars
    BY <1>1, <1>11 DEF vars
  <1> QED
    BY <1>1, <1>2, <1>8, <1>9, <1>10, <1>11 DEF Next, StepOf


LEMMA TaskStep ==
  ASSUME IInv, [Next]_vars
  PROVE  TaskInv'
  <1>a. RunTypes /\ StoreTypes /\ DAGInv /\ TaskInv /\ StateInv
    BY DEF IInv, TypeOK, RunTypes, StoreTypes
  <1> SUFFICES ASSUME NEW c \in Transaction
               PROVE  LET a == <<"accept", c, 0>>
                          r == <<"reject", c, 0>>
                      IN  /\ running'[a].at \in {"idle", "accept", "walk", "done"} \union Announcing
                          /\ running'[a].at # "idle" => (DAG!IsAccepted(c))' \/ (DAG!IsRejected(c))'
                          /\ running'[r].at \in {"idle", "reject", "rejectOutputs", "walk", "done"}
                          /\ running'[r].at # "idle" => (DAG!IsRejected(c))'
                          /\ running'[r].at \in {"idle", "done"} => running'[r].walk = {}
                          /\ \A t \in Transaction : Meets(r, t)' => HasRejected(t)'
    BY DEF TaskInv
  <1>1. ASSUME NEW a, a = <<"accept", c, 0>>
        PROVE  /\ running'[a].at \in {"idle", "accept", "walk", "done"} \union Announcing
               /\ running'[a].at # "idle" => (DAG!IsAccepted(c))' \/ (DAG!IsRejected(c))'
    <2>1. a \in Goroutine /\ a[1] = "accept"
      BY <1>1, Goroutines
    <2>2. /\ running[a].at \in {"idle", "accept", "walk", "done"} \union Announcing
          /\ running[a].at # "idle" => DAG!IsAccepted(c) \/ DAG!IsRejected(c)
      BY <1>a, <1>1 DEF TaskInv
    <2>3. CASE running'[a] = running[a]
      BY <1>a, <2>2, <2>3, DecisionsStay
    <2>4. CASE Proceed(a)
      <3>1. running[a].at # "idle"
        BY <2>4 DEF Proceed, TriggerAcceptedEvent, AcceptOutputs, StoreTransaction,
           ReadSpentEpoch, StoreSpentOutputs, ReadCreatedEpoch, StoreCreatedOutputs,
           ReadInclusionEpoch, AddAcceptedTransaction, PropagateAcceptance,
           TriggerRejectedEvent, RejectOutputs, PropagateRejection, At
      <3>2. ~(TriggerRejectedEvent(a) \/ RejectOutputs(a) \/ PropagateRejection(a))
        BY <2>1, <2>2 DEF TriggerRejectedEvent, RejectOutputs, PropagateRejection, At, Announcing
      <3>3. running'[a].at \in {"accept", "walk", "done"} \union Announcing
        <4>1. Continue(a) = "walk" /\ ~Moves(a)
          BY <2>1 DEF Continue, Moves
        <4>2. ASSUME NEW c1 \in running[a].walk
              PROVE  (IF ConflictsAccepted(c1) THEN "walk" ELSE "accept") \in {"walk", "accept"}
          OBVIOUS
        <4>3. PropagateAcceptance(a) => running'[a].at \in {"done", "walk", "accept"}
          BY <1>a, <2>1, <4>2, Proceeds DEF Becomes
        <4>4. StoreTransaction(a) => running'[a].at \in {"storeSpent", "readCreated", "storeCreated", "read"}
          BY <1>a, <2>1, <4>1, Proceeds DEF StoreTransaction, Becomes
        <4> QED
          BY <1>a, <2>1, <2>4, <3>2, <4>1, <4>3, <4>4, Proceeds DEF Proceed, Becomes, Announcing
      <3> QED
        BY SMTT(20), <1>a, <2>2, <3>1, <3>3, DecisionsStay
    <2>5. CASE SetTransactionInclusionEpoch(a)
      BY <2>1, <2>5 DEF SetTransactionInclusionEpoch, SetInclusionEpoch, SetOutputsInclusionEpoch,
         MoveTransactionToOtherEpoch, UpdateTransactionInclusion, AcceptIfConflictsAccepted
    <2>6. ASSUME NEW g \in Goroutine, StepOf(g)
          PROVE  running'[a] = running[a] \/ StepOf(a)
      BY <1>a, <2>1, <2>6, OthersWait
    <2>7. ASSUME NEW t \in Transaction, SetConflictAccepted(t)
          PROVE  \/ running'[a] = running[a]
                 \/ running'[a].at = "accept" /\ ((DAG!IsAccepted(c))' \/ (DAG!IsRejected(c))')
      <3>1. c \in DAG!NewlyAccepted(t) => (DAG!IsAccepted(c))' \/ (DAG!IsRejected(c))'
        BY <1>a, <2>7, Decision
      <3>2. \/ running'[a] = running[a]
            \/ c \in DAG!NewlyAccepted(t) /\ running'[a] = [NotRunning EXCEPT !.at = "accept", !.tx = c]
        BY <1>a, <1>1, <2>7, DecisionStarts
      <3> QED
        BY <3>1, <3>2 DEF NotRunning
    <2>8. CASE UNCHANGED vars
      BY <2>3, <2>8 DEF vars
    <2> QED
      BY <2>3, <2>4, <2>5, <2>6, <2>7, <2>8 DEF Next, StepOf
  <1>2. ASSUME NEW r, r = <<"reject", c, 0>>
        PROVE  /\ running'[r].at \in {"idle", "reject", "rejectOutputs", "walk", "done"}
               /\ running'[r].at # "idle" => (DAG!IsRejected(c))'
               /\ running'[r].at \in {"idle", "done"} => running'[r].walk = {}
               /\ \A t \in Transaction : Meets(r, t)' => HasRejected(t)'
    <2>1. r \in Goroutine /\ r[1] = "reject"
      BY <1>2, Goroutines
    <2>2. /\ running[r].at \in {"idle", "reject", "rejectOutputs", "walk", "done"}
          /\ running[r].at # "idle" => DAG!IsRejected(c)
          /\ running[r].at \in {"idle", "done"} => running[r].walk = {}
          /\ \A t \in Transaction : Meets(r, t) => HasRejected(t)
      BY <1>a, <1>2 DEF TaskInv
    <2>3. running[r] \in LocalState
      BY <1>a, <2>1 DEF RunTypes
    <2>a. /\ running[r].seen \subseteq Transaction /\ running[r].walk \subseteq running[r].seen
          /\ running[r].at \notin {"idle", "done"} => running[r].tx \in Transaction
      BY <2>3 DEF LocalState
    <2>4. CASE running'[r] = running[r]
      BY <1>a, <2>2, <2>a, <2>4, DecisionsStay DEF Meets
    <2>5. CASE Proceed(r)
      <3>1. running[r].at \notin {"idle", "done"}
        BY <2>5 DEF Proceed, TriggerAcceptedEvent, AcceptOutputs, StoreTransaction,
           ReadSpentEpoch, StoreSpentOutputs, ReadCreatedEpoch, StoreCreatedOutputs,
           ReadInclusionEpoch, AddAcceptedTransaction, PropagateAcceptance,
           TriggerRejectedEvent, RejectOutputs, PropagateRejection, At
      <3>2. TriggerRejectedEvent(r) \/ RejectOutputs(r) \/ PropagateRejection(r)
        BY <2>1, <2>2, <2>5 DEF Proceed, TriggerAcceptedEvent, AcceptOutputs, StoreTransaction,
           ReadSpentEpoch, StoreSpentOutputs, ReadCreatedEpoch, StoreCreatedOutputs,
           ReadInclusionEpoch, AddAcceptedTransaction, PropagateAcceptance, At
      <3>3. /\ (DAG!IsRejected(c))'
            /\ \A t \in running[r].seen \union {running[r].tx} : HasRejected(t)'
        BY <1>a, <2>2, <2>a, <3>1, DecisionsStay DEF Meets
      <3>4. \A t \in Unseen(r) : HasRejected(t)'
        <4>1. \A t \in Unseen(r) : t \in Transaction /\ HasRejected(t)
          BY <1>a, <2>2, <2>a, <3>1, ConsumersRejected DEF Unseen, Consumers, Meets
        <4> QED
          BY <1>a, <4>1, DecisionsStay
      <3>5. \/ Becomes(r, "walk", running[r].tx, running[r].walk, running[r].seen)
            \/ Becomes(r, "rejectOutputs", running[r].tx, running[r].walk, running[r].seen)
            \/ Becomes(r, "walk", running[r].tx, running[r].walk \union Unseen(r),
                       running[r].seen \union Unseen(r))
            \/ running[r].walk = {} /\ Becomes(r, "done", running[r].tx, running[r].walk, running[r].seen)
            \/ \E t \in running[r].walk :
                 Becomes(r, "reject", t, running[r].walk \ {t}, running[r].seen)
        BY <1>a, <2>1, <3>2, Proceeds
      <3> QED
        BY SMTT(20), <2>a, <3>3, <3>4, <3>5 DEF Becomes, Meets
    <2>6. CASE SetTransactionInclusionEpoch(r)
      BY <2>1, <2>6 DEF SetTransactionInclusionEpoch, SetInclusionEpoch, SetOutputsInclusionEpoch,
         MoveTransactionToOtherEpoch, UpdateTransactionInclusion, AcceptIfConflictsAccepted
    <2>7. ASSUME NEW g \in Goroutine, StepOf(g)
          PROVE  running'[r] = running[r] \/ StepOf(r)
      BY <1>a, <2>1, <2>7, OthersWait
    <2>8. ASSUME NEW t \in Transaction, SetConflictAccepted(t)
          PROVE  \/ running'[r] = running[r]
                 \/ /\ running'[r].at = "reject" /\ running'[r].tx = c /\ running'[r].seen = {}
                    /\ (DAG!IsRejected(c))' /\ HasRejected(c)'
      <3>1. c \in DAG!NewlyRejected(t) => c \in Conflict /\ (DAG!IsRejected(c))'
        BY <1>a, <2>8, Decision
      <3>2. c \in Conflict => ConflictIDs[c] = {c}
        BY DEF ConflictIDs
      <3>3. \/ running'[r] = running[r]
            \/ c \in DAG!NewlyRejected(t) /\ running'[r] = [NotRunning EXCEPT !.at = "reject", !.tx = c]
        BY <1>a, <1>2, <2>8, DecisionStarts
      <3> QED
        BY <3>1, <3>2, <3>3 DEF NotRunning, HasRejected
    <2>9. CASE UNCHANGED vars
      BY <2>4, <2>9 DEF vars
    <2> QED
      BY <2>4, <2>5, <2>6, <2>7, <2>8, <2>9 DEF Next, StepOf, Meets
  <1> QED
    BY <1>1, <1>2


(* Only the tasks of rejected conflicts reject.                            *)
LEMMA Rejecters ==
  ASSUME IncludeInv, TaskInv, NEW g \in Goroutine, running[g].at \in {"reject", "rejectOutputs"}
  PROVE  \E c \in Transaction : g = <<"reject", c, 0>>
  <1>1. CASE \E t \in Transaction : \E i \in InclusionEpochs[t] : g = <<"include", t, i>>
    BY <1>1 DEF IncludeInv
  <1>2. CASE \E t \in Transaction : g = <<"accept", t, 0>>
    BY <1>2 DEF TaskInv, Announcing
  <1> QED
    BY <1>1, <1>2, Goroutines

(* How the state of a transaction changes.                                 *)
LEMMA StateChanges ==
  ASSUME IInv, [Next]_vars, NEW t \in Transaction
  PROVE  \/ transactionState'[t] = transactionState[t] /\ acceptedEvents'[t] = acceptedEvents[t]
         \/ /\ \E g \in Goroutine : TriggerAcceptedEvent(g) /\ running[g].tx = t
            /\ transactionState[t] # "Accepted" /\ transactionState'[t] = "Accepted"
            /\ inclusionEpoch[t] # 0
            /\ acceptedEvents'[t] = acceptedEvents[t] + 1
         \/ /\ \E g \in Goroutine : TriggerRejectedEvent(g) /\ running[g].tx = t
            /\ transactionState'[t] = "Rejected"
            /\ HasRejected(t) /\ acceptedEvents'[t] = acceptedEvents[t]
  <1>a. RunTypes /\ StoreTypes /\ DAGInv /\ TaskInv /\ IncludeInv
    BY DEF IInv, TypeOK, RunTypes, StoreTypes
  <1>b. transactionState \in [Transaction -> {"Pending", "Accepted", "Rejected"}]
        /\ acceptedEvents \in [Transaction -> Nat]
    BY <1>a DEF StoreTypes
  <1>1. ASSUME NEW g \in Goroutine, TriggerAcceptedEvent(g)
        PROVE  \/ transactionState'[t] = transactionState[t] /\ acceptedEvents'[t] = acceptedEvents[t]
               \/ /\ running[g].tx = t
                  /\ transactionState[t] # "Accepted" /\ transactionState'[t] = "Accepted"
                  /\ inclusionEpoch[t] # 0
                  /\ acceptedEvents'[t] = acceptedEvents[t] + 1
    BY <1>b, <1>1 DEF TriggerAcceptedEvent
  <1>2. ASSUME NEW g \in Goroutine, TriggerRejectedEvent(g)
        PROVE  \/ transactionState'[t] = transactionState[t] /\ acceptedEvents'[t] = acceptedEvents[t]
               \/ /\ running[g].tx = t /\ transactionState'[t] = "Rejected"
                  /\ HasRejected(t) /\ acceptedEvents'[t] = acceptedEvents[t]
    <2>1. running[g].at = "reject"
      BY <1>2 DEF TriggerRejectedEvent, At
    <2>2. PICK c \in Transaction : g = <<"reject", c, 0>>
      BY <1>a, <2>1, Rejecters
    <2>3. running[g].tx = t => HasRejected(t)
      BY <1>a, <2>1, <2>2 DEF TaskInv, Meets
    <2> QED
      BY <1>b, <1>2, <2>3 DEF TriggerRejectedEvent
  <1>3. ASSUME NEW g \in Goroutine, Proceed(g), ~TriggerAcceptedEvent(g), ~TriggerRejectedEvent(g)
        PROVE  UNCHANGED <<transactionState, acceptedEvents>>
    BY <1>3 DEF Proceed, AcceptOutputs, StoreTransaction, ReadSpentEpoch, StoreSpentOutputs,
       ReadCreatedEpoch, StoreCreatedOutputs, ReadInclusionEpoch, AddAcceptedTransaction,
       PropagateAcceptance, RejectOutputs, PropagateRejection, states
  <1>4. ASSUME NEW g \in Goroutine, SetTransactionInclusionEpoch(g)
        PROVE  UNCHANGED <<transactionState, acceptedEvents>>
    BY <1>4 DEF SetTransactionInclusionEpoch, SetInclusionEpoch, SetOutputsInclusionEpoch,
       MoveTransactionToOtherEpoch, UpdateTransactionInclusion, AcceptIfConflictsAccepted, states
  <1>5. ASSUME NEW u \in Transaction, SetConflictAccepted(u)
        PROVE  UNCHANGED <<transactionState, acceptedEvents>>
    BY <1>5 DEF SetConflictAccepted, states
  <1>6. CASE UNCHANGED vars
    BY <1>6 DEF vars, states
  <1> QED
    BY <1>1, <1>2, <1>3, <1>4, <1>5, <1>6 DEF Next

LEMMA StateStep ==
  ASSUME IInv, [Next]_vars
  PROVE  StateInv'
  <1>a. RunTypes /\ StoreTypes /\ DAGInv /\ TaskInv /\ IncludeInv /\ StateInv
    BY DEF IInv, TypeOK, RunTypes, StoreTypes
  <1>b. \A t \in Transaction : inclusionEpoch[t] # 0 => inclusionEpoch'[t] # 0
    BY <1>a, EarlierEpochs
  <1>1. ASSUME NEW t \in Transaction
        PROVE  /\ transactionState'[t] = "Accepted" => inclusionEpoch'[t] # 0
               /\ transactionState'[t] = "Rejected" => HasRejected(t)'
    BY <1>a, <1>b, StateChanges, DecisionsStay DEF StateInv
  <1>2. ASSUME NEW g \in Goroutine
        PROVE  /\ running'[g].at \in Announcing => inclusionEpoch'[running'[g].tx] # 0
               /\ running'[g].at \in {"storeSpent", "add"} =>
                    running'[g].read \in InclusionEpochs[running'[g].tx]
               /\ running'[g].at = "storeCreated" =>
                    running'[g].read \in InclusionEpochs[running'[g].tx] \union {0}
    <2>1. /\ running[g].at \in Announcing => inclusionEpoch[running[g].tx] # 0
          /\ running[g].at \in {"storeSpent", "add"} =>
               running[g].read \in InclusionEpochs[running[g].tx]
          /\ running[g].at = "storeCreated" =>
               running[g].read \in InclusionEpochs[running[g].tx] \union {0}
      BY <1>a DEF StateInv
    <2>2. running[g].at \notin {"idle", "done"} => running[g].tx \in Transaction
      BY <1>a DEF RunTypes, LocalState
    <2>3. CASE running'[g] = running[g]
      <3>1. running[g].at \in Announcing => running[g].tx \in Transaction
        BY <2>2 DEF Announcing
      <3> QED
        BY <1>b, <2>1, <2>3, <3>1
    <2>4. CASE TriggerAcceptedEvent(g)
      <3>1. running[g].tx \in Transaction
        BY <2>2, <2>4 DEF TriggerAcceptedEvent, At
      <3>2. \/ running'[g].at \in {"done", "walk"}
            \/ /\ running'[g].at = "acceptOutputs" /\ running'[g].tx = running[g].tx
               /\ inclusionEpoch[running[g].tx] # 0
        BY <1>a, <2>4, Proceeds DEF Becomes, Continue
      <3> QED
        BY <1>b, <3>1, <3>2 DEF Announcing
    <2>a. running[g].tx \in Transaction =>
            /\ inclusionEpoch[running[g].tx] \in InclusionEpochs[running[g].tx] \union {0}
            /\ outputEpoch[running[g].tx] \in InclusionEpochs[running[g].tx] \union {0}
      BY <1>a DEF StoreTypes
    <2>5. CASE AcceptOutputs(g)
      <3>1. running[g].at = "acceptOutputs"
        BY <2>5 DEF AcceptOutputs, At
      <3>2. running'[g].at = "readSpent" /\ running'[g].tx = running[g].tx
        BY <1>a, <2>5, Proceeds DEF Becomes
      <3> QED
        BY <1>b, <2>1, <2>2, <3>1, <3>2 DEF Announcing
    <2>b. CASE StoreTransaction(g)
      <3>1. running[g].at \in Storing /\ running'[g].tx = running[g].tx /\ running[g].tx \in Transaction
        BY <1>a, <2>2, <2>b, StoringSteps DEF Storing
      <3>2. inclusionEpoch[running[g].tx] # 0 /\ inclusionEpoch'[running[g].tx] # 0
        BY <1>b, <2>1, <3>1 DEF Storing, Announcing
      <3>3. CASE running'[g].at = "storeSpent"
        <4>1. running'[g].read = inclusionEpoch[running[g].tx]
          BY <1>a, <2>b, <3>3, StoringSteps
        <4> QED
          BY <2>a, <3>1, <3>2, <3>3, <4>1
      <3>4. CASE running'[g].at = "storeCreated"
        <4>1. running'[g].read = outputEpoch[running[g].tx]
          BY <1>a, <2>b, <3>4, StoringSteps
        <4> QED
          BY <2>a, <3>1, <3>2, <3>4, <4>1
      <3>5. running'[g].at # "add"
        BY <1>a, <2>b, StoringSteps
      <3> QED
        BY <3>1, <3>2, <3>3, <3>4, <3>5
    <2>6. CASE ReadInclusionEpoch(g)
      <3>1. running[g].at = "read" /\ running[g].tx \in Transaction
        BY <2>2, <2>6 DEF ReadInclusionEpoch, At
      <3>2. /\ running'[g].at = "add" /\ running'[g].tx = running[g].tx
            /\ running'[g].read = inclusionEpoch[running[g].tx]
        BY <1>a, <2>6, Proceeds DEF Becomes
      <3>3. inclusionEpoch[running[g].tx] # 0
        BY <2>1, <3>1 DEF Announcing
      <3> QED
        BY <1>b, <2>a, <3>1, <3>2, <3>3
    <2>7. CASE AddAcceptedTransaction(g) \/ PropagateAcceptance(g) \/ TriggerRejectedEvent(g)
                 \/ RejectOutputs(g) \/ PropagateRejection(g)
      <3>1. running'[g].at \in {"done", "walk", "accept", "reject", "rejectOutputs"}
        BY <1>a, <2>7, Proceeds DEF Becomes, Continue
      <3> QED
        BY <3>1 DEF Announcing
    <2>8. ASSUME NEW t \in Transaction, NEW i \in InclusionEpochs[t],
                 \/ SetInclusionEpoch(g, t, i) \/ SetOutputsInclusionEpoch(g, t, i)
                 \/ MoveTransactionToOtherEpoch(g, t, i) \/ UpdateTransactionInclusion(g, t, i)
                 \/ AcceptIfConflictsAccepted(g, t, i)
          PROVE  /\ running'[g].at \in Announcing => inclusionEpoch'[running'[g].tx] # 0
                 /\ running'[g].at \notin {"storeSpent", "add", "storeCreated"}
      <3>1. running'[g].at \in {"outputs", "decide", "move", "readSpent", "update", "accept", "done"}
        BY <1>a, <2>8, IncludeRuns
      <3>2. g = <<"include", t, i>>
        BY <2>8 DEF SetInclusionEpoch, SetOutputsInclusionEpoch, MoveTransactionToOtherEpoch,
                    UpdateTransactionInclusion, AcceptIfConflictsAccepted
      <3>3. running'[g].at \notin {"idle", "done"} => running'[g].tx = t /\ inclusionEpoch'[t] # 0
        BY <3>2, IncludeStep DEF IncludeInv
      <3> QED
        BY <3>1, <3>3 DEF Announcing
    <2>9. CASE StepOf(g)
      <3>1. CASE SetTransactionInclusionEpoch(g)
        <4>1. \E t \in Transaction : \E i \in InclusionEpochs[t] :
                 \/ SetInclusionEpoch(g, t, i) \/ SetOutputsInclusionEpoch(g, t, i)
                 \/ MoveTransactionToOtherEpoch(g, t, i) \/ UpdateTransactionInclusion(g, t, i)
                 \/ AcceptIfConflictsAccepted(g, t, i)
          BY <3>1 DEF SetTransactionInclusionEpoch
        <4> QED
          BY <2>8, <4>1
      <3> QED
        BY <2>4, <2>5, <2>b, <2>6, <2>7, <2>9, <3>1 DEF StepOf, Proceed
    <2>10. ASSUME NEW h \in Goroutine, StepOf(h)
           PROVE  running'[g] = running[g] \/ StepOf(g)
      BY <1>a, <2>10, OthersWait
    <2>11. ASSUME NEW u \in Transaction, SetConflictAccepted(u)
           PROVE  running'[g] = running[g] \/ running'[g].at \in {"accept", "reject"}
      BY <1>a, <2>11, DecisionRuns
    <2>12. CASE UNCHANGED vars
      BY <2>3, <2>12 DEF vars
    <2> QED
      BY <2>3, <2>9, <2>10, <2>11, <2>12 DEF Next, StepOf, Announcing
  <1> QED
    BY <1>1, <1>2 DEF StateInv


-----------------------------------------------------------------------------
(* Somebody will look at the other fact until the transaction is accepted. *)
Awaited(t) ==
  \/ transactionState[t] = "Accepted"
  \/ Busy(<<"accept", t, 0>>, {"accept"}, t)
  \/ \E i \in InclusionEpochs[t] :
       \/ running[<<"include", t, i>>].at \in {"decide", "accept"}
       \/ running[<<"include", t, i>>].at = "outputs" /\ running[<<"include", t, i>>].epoch = 0

LEMMA AwaitedStep ==
  ASSUME IInv, [Next]_vars, NEW t \in Transaction, Awaited(t),
         inclusionEpoch[t] # 0, ConflictsAccepted(t)
  PROVE  Awaited(t)'
  <1>a. RunTypes /\ StoreTypes /\ DAGInv /\ TaskInv /\ IncludeInv
    BY DEF IInv, TypeOK, RunTypes, StoreTypes
  <1>b. transactionState[t] = "Accepted" => transactionState'[t] = "Accepted"
    BY StateChanges, AcceptedOrRejected
  <1>c. ASSUME NEW g \in Goroutine, TriggerAcceptedEvent(g), running[g].tx = t
        PROVE  transactionState'[t] = "Accepted"
    BY <1>a, <1>c DEF TriggerAcceptedEvent, StoreTypes
  <1>1. CASE transactionState[t] = "Accepted"
    BY <1>b, <1>1 DEF Awaited
  <1>2. CASE Busy(<<"accept", t, 0>>, {"accept"}, t)
    <2> DEFINE a == <<"accept", t, 0>>
    <2>1. a \in Goroutine /\ a[1] = "accept" /\ running[a].at = "accept" /\ running[a].tx = t
      BY <1>2, Goroutines DEF Busy
    <2> SUFFICES running'[a] = running[a] \/ transactionState'[t] = "Accepted"
      BY <1>2 DEF Awaited, Busy
    <2> HIDE DEF a
    <2>2. CASE StepOf(a)
      <3>1. TriggerAcceptedEvent(a)
        BY <2>1, <2>2 DEF StepOf, SetTransactionInclusionEpoch, SetInclusionEpoch,
           SetOutputsInclusionEpoch, MoveTransactionToOtherEpoch, UpdateTransactionInclusion,
           AcceptIfConflictsAccepted, Proceed, AcceptOutputs, StoreTransaction, ReadSpentEpoch,
           StoreSpentOutputs, ReadCreatedEpoch, StoreCreatedOutputs, ReadInclusionEpoch,
           AddAcceptedTransaction, PropagateAcceptance, TriggerRejectedEvent, RejectOutputs,
           PropagateRejection, At
      <3> QED
        BY <1>c, <2>1, <3>1
    <2>3. ASSUME NEW h \in Goroutine, StepOf(h)
          PROVE  running'[a] = running[a] \/ StepOf(a)
      BY <1>a, <2>1, <2>3, OthersWait
    <2>4. ASSUME NEW u \in Transaction, SetConflictAccepted(u)
          PROVE  running'[a] = running[a]
      BY <1>a, <2>1, <2>4, DecisionStarts DEF a
    <2> QED
      BY <2>2, <2>3, <2>4 DEF Next, StepOf, vars
  <1>3. ASSUME NEW i \in InclusionEpochs[t], NEW g, g = <<"include", t, i>>,
               \/ running[g].at \in {"decide", "accept"}
               \/ running[g].at = "outputs" /\ running[g].epoch = 0
        PROVE  Awaited(t)'
    <2>1. g \in Goroutine /\ running[g].tx = t
      BY <1>a, <1>3, Goroutines DEF IncludeInv
    <2>2. CASE \/ running'[g] = running[g]
               \/ running'[g].at \in {"decide", "accept"}
               \/ transactionState'[t] = "Accepted"
      BY <1>3, <2>2 DEF Awaited
    <2>3. CASE Proceed(g)
      <3>1. TriggerAcceptedEvent(g)
        BY <1>3, <2>3 DEF Proceed, AcceptOutputs, StoreTransaction, ReadSpentEpoch,
           StoreSpentOutputs, ReadCreatedEpoch, StoreCreatedOutputs, ReadInclusionEpoch,
           AddAcceptedTransaction, PropagateAcceptance, TriggerRejectedEvent, RejectOutputs,
           PropagateRejection, At
      <3> QED
        BY <1>c, <2>1, <2>2, <3>1
    <2>4. CASE SetTransactionInclusionEpoch(g)
      <3>1. SetOutputsInclusionEpoch(g, t, i) \/ AcceptIfConflictsAccepted(g, t, i)
        <4>1. \/ SetInclusionEpoch(g, t, i) \/ SetOutputsInclusionEpoch(g, t, i)
              \/ MoveTransactionToOtherEpoch(g, t, i) \/ UpdateTransactionInclusion(g, t, i)
              \/ AcceptIfConflictsAccepted(g, t, i)
          BY <1>3, <2>4, IncludeSteps
        <4> QED
          BY <1>3, <4>1 DEF SetInclusionEpoch, MoveTransactionToOtherEpoch, UpdateTransactionInclusion, At
      <3>2. running'[g].at \in {"decide", "accept"}
        BY <1>a, <1>3, <2>1, <3>1
        DEF SetOutputsInclusionEpoch, AcceptIfConflictsAccepted, At, Go, RunTypes, LocalState
      <3> QED
        BY <2>2, <3>2
    <2>5. ASSUME NEW h \in Goroutine, StepOf(h)
          PROVE  running'[g] = running[g] \/ StepOf(g)
      BY <1>a, <2>1, <2>5, OthersWait
    <2>6. ASSUME NEW u \in Transaction, SetConflictAccepted(u)
          PROVE  running'[g] = running[g]
      BY <1>a, <1>3, <2>6, DecisionStarts
    <2>7. CASE UNCHANGED vars
      BY <2>2, <2>7 DEF vars
    <2> QED
      BY <2>2, <2>3, <2>4, <2>5, <2>6, <2>7 DEF Next, StepOf
  <1> QED
    BY <1>1, <1>2, <1>3 DEF Awaited

LEMMA MeetStep ==
  ASSUME IInv, [Next]_vars
  PROVE  MeetInv'
  <1>a. RunTypes /\ StoreTypes /\ DAGInv /\ TaskInv /\ IncludeInv
    BY DEF IInv, TypeOK, RunTypes, StoreTypes
  <1> SUFFICES ASSUME NEW t \in Transaction, inclusionEpoch'[t] # 0,
                      ConflictsAccepted(t)', ConflictIDs[t] \subseteq {t}
               PROVE  Awaited(t)'
    BY DEF MeetInv, Awaited
  <1>1. CASE inclusionEpoch[t] # 0 /\ ConflictsAccepted(t)
    <2>1. Awaited(t)
      BY <1>1 DEF IInv, MeetInv, Awaited
    <2> QED
      BY <1>1, <2>1, AwaitedStep
  <1>2. CASE inclusionEpoch[t] = 0
    <2>1. ASSUME NEW u \in Transaction, NEW i \in InclusionEpochs[u], NEW g \in Goroutine,
                 SetInclusionEpoch(g, u, i)
          PROVE  Awaited(t)'
      <3>1. u = t /\ g = <<"include", t, i>>
        BY <1>a, <1>2, <2>1 DEF SetInclusionEpoch, StoreTypes
      <3>2. running' = [running EXCEPT ![g] =
               [NotRunning EXCEPT !.at = "outputs", !.tx = t, !.epoch = inclusionEpoch[t]]]
        BY <1>2, <2>1, <3>1 DEF SetInclusionEpoch
      <3>3. running'[g].at = "outputs" /\ running'[g].epoch = 0
        BY <1>a, <1>2, <3>2 DEF RunTypes, NotRunning
      <3> QED
        BY <3>1, <3>3 DEF Awaited
    <2>2. ASSUME NEW u \in Transaction, NEW i \in InclusionEpochs[u], NEW g,
                 \/ SetOutputsInclusionEpoch(g, u, i) \/ MoveTransactionToOtherEpoch(g, u, i)
                 \/ UpdateTransactionInclusion(g, u, i) \/ AcceptIfConflictsAccepted(g, u, i)
          PROVE  UNCHANGED inclusionEpoch
      BY <2>2 DEF SetOutputsInclusionEpoch, MoveTransactionToOtherEpoch,
         UpdateTransactionInclusion, AcceptIfConflictsAccepted, metadata
    <2>3. ASSUME NEW g \in Goroutine, Proceed(g)
          PROVE  UNCHANGED inclusionEpoch
      BY <2>3 DEF Proceed, TriggerAcceptedEvent, AcceptOutputs, StoreTransaction,
         ReadSpentEpoch, StoreSpentOutputs, ReadCreatedEpoch, StoreCreatedOutputs,
         ReadInclusionEpoch, AddAcceptedTransaction, PropagateAcceptance, TriggerRejectedEvent,
         RejectOutputs, PropagateRejection, metadata
    <2>4. ASSUME NEW u \in Transaction, SetConflictAccepted(u)
          PROVE  UNCHANGED inclusionEpoch
      BY <2>4 DEF SetConflictAccepted, metadata
    <2> QED
      BY <1>2, <2>1, <2>2, <2>3, <2>4, Steps, Goroutines DEF vars, metadata
  <1>3. CASE ~ConflictsAccepted(t)
    <2>1. PICK c \in ConflictIDs[t] : ~DAG!IsAccepted(c)
      BY <1>3 DEF ConflictsAccepted
    <2>2. c = t /\ (DAG!IsAccepted(t))'
      BY <2>1 DEF ConflictsAccepted
    <2>3. ASSUME NEW u \in Transaction, SetConflictAccepted(u)
          PROVE  Awaited(t)'
      <3>1. t \in DAG!NewlyAccepted(u)
        BY <1>a, <2>1, <2>2, <2>3, Decision
      <3>2. running'[<<"accept", t, 0>>] = [NotRunning EXCEPT !.at = "accept", !.tx = t]
        BY <1>a, <2>3, <3>1, DecisionStarts
      <3> QED
        BY <3>2 DEF Awaited, Busy, NotRunning
    <2>4. CASE UNCHANGED conflictDAG
      BY <2>1, <2>2, <2>4, UndecidedStep
    <2>5. ASSUME NEW g \in Goroutine, StepOf(g)
          PROVE  UNCHANGED conflictDAG
      BY <2>5 DEF StepOf, SetTransactionInclusionEpoch, SetInclusionEpoch,
         SetOutputsInclusionEpoch, MoveTransactionToOtherEpoch, UpdateTransactionInclusion,
         AcceptIfConflictsAccepted, Proceed, TriggerAcceptedEvent, AcceptOutputs,
         StoreTransaction, ReadSpentEpoch, StoreSpentOutputs, ReadCreatedEpoch,
         StoreCreatedOutputs, ReadInclusionEpoch, AddAcceptedTransaction, PropagateAcceptance,
         TriggerRejectedEvent, RejectOutputs, PropagateRejection
    <2>6. CASE UNCHANGED vars
      BY <2>4, <2>6 DEF vars, conflictDAG
    <2> QED
      BY <2>3, <2>4, <2>5, <2>6 DEF Next, StepOf
  <1> QED
    BY <1>1, <1>2, <1>3

-----------------------------------------------------------------------------
(* The inclusion epoch changes when a block is included, and only then.    *)
LEMMA EpochSet ==
  ASSUME StoreTypes, [Next]_vars, NEW t \in Transaction, inclusionEpoch'[t] # inclusionEpoch[t]
  PROVE  \E i \in InclusionEpochs[t] :
           /\ SetInclusionEpoch(<<"include", t, i>>, t, i) /\ inclusionEpoch'[t] = i
           /\ running' = [running EXCEPT ![<<"include", t, i>>] =
                [NotRunning EXCEPT !.at = "outputs", !.tx = t, !.epoch = inclusionEpoch[t]]]
  <1>1. ASSUME NEW u \in Transaction, NEW i \in InclusionEpochs[u], NEW g,
               SetInclusionEpoch(g, u, i)
        PROVE  u = t /\ g = <<"include", u, i>>
    BY <1>1 DEF SetInclusionEpoch, StoreTypes
  <1>2. ASSUME NEW u \in Transaction, NEW i \in InclusionEpochs[u], NEW g,
               \/ SetOutputsInclusionEpoch(g, u, i) \/ MoveTransactionToOtherEpoch(g, u, i)
               \/ UpdateTransactionInclusion(g, u, i) \/ AcceptIfConflictsAccepted(g, u, i)
        PROVE  UNCHANGED inclusionEpoch
    BY <1>2 DEF SetOutputsInclusionEpoch, MoveTransactionToOtherEpoch,
       UpdateTransactionInclusion, AcceptIfConflictsAccepted, metadata
  <1>3. ASSUME NEW g \in Goroutine, Proceed(g)
        PROVE  UNCHANGED inclusionEpoch
    BY <1>3 DEF Proceed, TriggerAcceptedEvent, AcceptOutputs, StoreTransaction, ReadSpentEpoch,
       StoreSpentOutputs, ReadCreatedEpoch, StoreCreatedOutputs, ReadInclusionEpoch,
       AddAcceptedTransaction, PropagateAcceptance, TriggerRejectedEvent, RejectOutputs,
       PropagateRejection, metadata
  <1>4. ASSUME NEW u \in Transaction, SetConflictAccepted(u)
        PROVE  UNCHANGED inclusionEpoch
    BY <1>4 DEF SetConflictAccepted, metadata
  <1>5. PICK i \in InclusionEpochs[t] : SetInclusionEpoch(<<"include", t, i>>, t, i)
    BY <1>1, <1>2, <1>3, <1>4, Steps DEF vars, metadata
  <1> QED
    BY <1>5 DEF SetInclusionEpoch, StoreTypes

(* The outputs get the epoch of a block from its goroutine.                *)
LEMMA OutputEpochSet ==
  ASSUME StoreTypes, [Next]_vars, NEW t \in Transaction, outputEpoch'[t] # outputEpoch[t]
  PROVE  \E i \in InclusionEpochs[t] :
           /\ SetOutputsInclusionEpoch(<<"include", t, i>>, t, i)
           /\ UNCHANGED inclusionEpoch /\ outputEpoch'[t] = i
  <1>1. ASSUME NEW u \in Transaction, NEW i \in InclusionEpochs[u], NEW g,
               SetOutputsInclusionEpoch(g, u, i)
        PROVE  u = t /\ g = <<"include", u, i>> /\ UNCHANGED inclusionEpoch /\ outputEpoch'[t] = i
    BY <1>1 DEF SetOutputsInclusionEpoch, StoreTypes
  <1>2. ASSUME NEW u \in Transaction, NEW i \in InclusionEpochs[u], NEW g,
               \/ SetInclusionEpoch(g, u, i) \/ MoveTransactionToOtherEpoch(g, u, i)
               \/ UpdateTransactionInclusion(g, u, i) \/ AcceptIfConflictsAccepted(g, u, i)
        PROVE  UNCHANGED outputEpoch
    BY <1>2 DEF SetInclusionEpoch, MoveTransactionToOtherEpoch,
       UpdateTransactionInclusion, AcceptIfConflictsAccepted, metadata
  <1>3. ASSUME NEW g \in Goroutine, Proceed(g)
        PROVE  UNCHANGED outputEpoch
    BY <1>3 DEF Proceed, TriggerAcceptedEvent, AcceptOutputs, StoreTransaction, ReadSpentEpoch,
       StoreSpentOutputs, ReadCreatedEpoch, StoreCreatedOutputs, ReadInclusionEpoch,
       AddAcceptedTransaction, PropagateAcceptance, TriggerRejectedEvent, RejectOutputs,
       PropagateRejection, metadata
  <1>4. ASSUME NEW u \in Transaction, SetConflictAccepted(u)
        PROVE  UNCHANGED outputEpoch
    BY <1>4 DEF SetConflictAccepted, metadata
  <1> QED
    BY <1>1, <1>2, <1>3, <1>4, Steps DEF vars, metadata

(* A goroutine of a block begins with the inclusion epoch, and never again. *)
LEMMA IncluderSteps ==
  ASSUME IInv, [Next]_vars, NEW t \in Transaction, NEW i \in InclusionEpochs[t],
         NEW g, g = <<"include", t, i>>
  PROVE  /\ \/ running'[g] = running[g]
            \/ SetInclusionEpoch(g, t, i)
            \/ /\ running[g].at \notin {"idle", "done"} /\ running'[g].at \notin {"idle", "outputs"}
               /\ UNCHANGED inclusionEpoch
  <1>a. RunTypes /\ StoreTypes /\ DAGInv /\ TaskInv /\ IncludeInv /\ g \in Goroutine
    BY Goroutines DEF IInv, TypeOK, RunTypes, StoreTypes
  <1>1. CASE Proceed(g)
    <2>1. running[g].at \notin {"idle", "done"}
      BY <1>1 DEF Proceed, TriggerAcceptedEvent, AcceptOutputs, StoreTransaction, ReadSpentEpoch,
         StoreSpentOutputs, ReadCreatedEpoch, StoreCreatedOutputs, ReadInclusionEpoch,
         AddAcceptedTransaction, PropagateAcceptance, TriggerRejectedEvent, RejectOutputs,
         PropagateRejection, At
    <2>2. StoreTransaction(g) => running'[g].at \notin {"idle", "outputs"}
      BY <1>a, StoringSteps
    <2>3. PropagateAcceptance(g) \/ PropagateRejection(g) => running'[g].at \notin {"idle", "outputs"}
      BY <1>a, Proceeds DEF Becomes
    <2>4. ~(StoreTransaction(g) \/ PropagateAcceptance(g) \/ PropagateRejection(g)) =>
            running'[g].at \notin {"idle", "outputs"}
      BY <1>a, <1>1, Proceeds DEF Proceed, Becomes, Continue
    <2>5. UNCHANGED inclusionEpoch
      BY <1>1 DEF Proceed, TriggerAcceptedEvent, AcceptOutputs, StoreTransaction, ReadSpentEpoch,
         StoreSpentOutputs, ReadCreatedEpoch, StoreCreatedOutputs, ReadInclusionEpoch,
         AddAcceptedTransaction, PropagateAcceptance, TriggerRejectedEvent, RejectOutputs,
         PropagateRejection, metadata
    <2> QED
      BY <2>1, <2>2, <2>3, <2>4, <2>5
  <1>2. CASE \/ SetOutputsInclusionEpoch(g, t, i) \/ MoveTransactionToOtherEpoch(g, t, i)
             \/ UpdateTransactionInclusion(g, t, i) \/ AcceptIfConflictsAccepted(g, t, i)
    <2>1. running[g].at \notin {"idle", "done"} /\ UNCHANGED inclusionEpoch
      BY <1>2 DEF SetOutputsInclusionEpoch, MoveTransactionToOtherEpoch,
         UpdateTransactionInclusion, AcceptIfConflictsAccepted, At, metadata
    <2>2. \A at : Go(g, at) => running'[g].at = at
      BY <1>a DEF Go, RunTypes, LocalState
    <2>3. running'[g].at \notin {"idle", "outputs"}
      BY <1>2, <2>2, Zenon DEF SetOutputsInclusionEpoch, MoveTransactionToOtherEpoch,
         UpdateTransactionInclusion, AcceptIfConflictsAccepted
    <2> QED
      BY <2>1, <2>3
  <1>3. CASE StepOf(g)
    BY <1>1, <1>2, <1>3, IncludeSteps DEF StepOf
  <1>4. ASSUME NEW h \in Goroutine, StepOf(h)
        PROVE  running'[g] = running[g] \/ StepOf(g)
    BY <1>a, <1>4, OthersWait
  <1>5. ASSUME NEW u \in Transaction, SetConflictAccepted(u)
        PROVE  running'[g] = running[g]
    BY <1>a, <1>5, DecisionStarts
  <1> QED
    BY <1>3, <1>4, <1>5 DEF Next, StepOf, vars

LEMMA OutputStep ==
  ASSUME IInv, [Next]_vars
  PROVE  OutputInv'
  <1>a. RunTypes /\ StoreTypes /\ OutputInv
    BY DEF IInv, TypeOK, RunTypes, StoreTypes
  <1>1. ASSUME NEW t \in Transaction, inclusionEpoch'[t] = 0
        PROVE  /\ outputEpoch'[t] = 0
               /\ \A i \in InclusionEpochs[t] : running'[<<"include", t, i>>].at = "idle"
    <2>1. inclusionEpoch[t] = 0
      BY <1>a, <1>1, EarlierEpochs
    <2>2. /\ outputEpoch[t] = 0
          /\ \A i \in InclusionEpochs[t] : running[<<"include", t, i>>].at = "idle"
      BY <1>a, <2>1 DEF OutputInv
    <2>3. outputEpoch'[t] = outputEpoch[t]
      BY <1>a, <2>2, OutputEpochSet DEF SetOutputsInclusionEpoch, At
    <2>4. ASSUME NEW i \in InclusionEpochs[t], NEW g, g = <<"include", t, i>>
          PROVE  running'[g].at = "idle"
      <3>1. SetInclusionEpoch(g, t, i) => inclusionEpoch'[t] = i
        BY <1>a, <2>1 DEF SetInclusionEpoch, StoreTypes
      <3>2. ~SetInclusionEpoch(g, t, i)
        BY <1>1, <3>1, Epochs
      <3> QED
        BY <2>2, <2>4, <3>2, IncluderSteps
    <2> QED
      BY <2>2, <2>3, <2>4
  <1>2. ASSUME NEW t \in Transaction, NEW i \in InclusionEpochs[t], NEW g, g = <<"include", t, i>>,
               inclusionEpoch'[t] = i
        PROVE  /\ running'[g].at # "idle"
               /\ running'[g].at = "outputs" /\ running'[g].epoch = 0 =>
                    /\ outputEpoch'[t] = 0
                    /\ \A j \in InclusionEpochs[t] \ {i} :
                         running'[<<"include", t, j>>].at \in {"idle", "done"}
    <2>a. g \in Goroutine /\ \A j \in InclusionEpochs[t] : <<"include", t, j>> \in Goroutine
      BY <1>2, Goroutines
    <2>1. CASE inclusionEpoch[t] # i
      <3>1. /\ SetInclusionEpoch(g, t, i)
            /\ running' = [running EXCEPT ![g] =
                 [NotRunning EXCEPT !.at = "outputs", !.tx = t, !.epoch = inclusionEpoch[t]]]
        BY <1>a, <1>2, <2>1, EpochSet
      <3>2. running'[g].at = "outputs" /\ running'[g].epoch = inclusionEpoch[t]
        BY <1>a, <2>a, <3>1 DEF RunTypes, NotRunning
      <3>3. UNCHANGED outputEpoch
        BY <3>1 DEF SetInclusionEpoch
      <3>4. \A j \in InclusionEpochs[t] \ {i} : running'[<<"include", t, j>>] = running[<<"include", t, j>>]
        <4> SUFFICES ASSUME NEW j \in InclusionEpochs[t] \ {i}
                     PROVE  running'[<<"include", t, j>>] = running[<<"include", t, j>>]
          OBVIOUS
        <4>1. <<"include", t, j>> # g /\ <<"include", t, j>> \in Goroutine
          BY <1>2, <2>a
        <4> QED
          BY <1>a, <3>1, <4>1 DEF RunTypes
      <3>5. inclusionEpoch[t] = 0 =>
              outputEpoch[t] = 0 /\ \A j \in InclusionEpochs[t] : running[<<"include", t, j>>].at = "idle"
        BY <1>a DEF OutputInv
      <3> QED
        BY <3>2, <3>3, <3>4, <3>5
    <2>2. CASE inclusionEpoch[t] = i
      <3>1. /\ running[g].at # "idle"
            /\ running[g].at = "outputs" /\ running[g].epoch = 0 =>
                 /\ outputEpoch[t] = 0
                 /\ \A j \in InclusionEpochs[t] \ {i} :
                      running[<<"include", t, j>>].at \in {"idle", "done"}
        BY <1>a, <1>2, <2>2 DEF OutputInv
      <3>2. \/ running'[g] = running[g]
            \/ running'[g].at \notin {"idle", "outputs"}
        <4>1. ~SetInclusionEpoch(g, t, i)
          BY <3>1 DEF SetInclusionEpoch, At
        <4> QED
          BY <1>2, <4>1, IncluderSteps
      <3>3. ASSUME running'[g].at = "outputs", running'[g].epoch = 0
            PROVE  /\ outputEpoch'[t] = 0
                   /\ \A j \in InclusionEpochs[t] \ {i} :
                        running'[<<"include", t, j>>].at \in {"idle", "done"}
        <4>1. running'[g] = running[g]
          BY <3>2, <3>3
        <4>2. /\ outputEpoch[t] = 0
              /\ \A j \in InclusionEpochs[t] \ {i} :
                   running[<<"include", t, j>>].at \in {"idle", "done"}
          BY <3>1, <3>3, <4>1
        <4>3. ~SetOutputsInclusionEpoch(g, t, i)
          <5>1. SetOutputsInclusionEpoch(g, t, i) => Go(g, "decide") \/ Go(g, "move")
            BY DEF SetOutputsInclusionEpoch
          <5>2. \A at : Go(g, at) => running'[g].at = at
            BY <1>a, <2>a DEF Go, RunTypes, LocalState
          <5> QED
            BY <3>3, <5>1, <5>2
        <4>4. ASSUME NEW j \in InclusionEpochs[t] PROVE ~SetOutputsInclusionEpoch(<<"include", t, j>>, t, j)
          <5>1. CASE j = i
            BY <1>2, <4>3, <5>1
          <5>2. CASE j # i
            BY <4>2, <5>2 DEF SetOutputsInclusionEpoch, At
          <5> QED
            BY <5>1, <5>2
        <4>5. outputEpoch'[t] = 0
          BY <1>a, <4>2, <4>4, OutputEpochSet
        <4>6. ASSUME NEW j \in InclusionEpochs[t] \ {i}, NEW h, h = <<"include", t, j>>
              PROVE  running'[h].at \in {"idle", "done"}
          <5>1. running[h].at \in {"idle", "done"}
            BY <4>2, <4>6
          <5>2. CASE SetInclusionEpoch(h, t, j)
            <6>1. inclusionEpoch' # [inclusionEpoch EXCEPT ![t] = j]
              BY <1>a, <1>2, <4>6 DEF StoreTypes
            <6>2. Go(h, "done")
              BY <5>2, <6>1 DEF SetInclusionEpoch
            <6> QED
              BY <1>a, <2>a, <4>6, <6>2 DEF Go, RunTypes, LocalState
          <5> QED
            BY <4>6, <5>1, <5>2, IncluderSteps
        <4> QED
          BY <4>5, <4>6
      <3> QED
        BY <3>1, <3>2, <3>3
    <2> QED
      BY <2>1, <2>2
  <1> QED
    BY <1>1, <1>2 DEF OutputInv

LEMMA Inductive == Spec => []IInv
  <1>1. Init => IInv
    BY InitInv DEF SoundInv
  <1>2. IInv /\ [Next]_vars => IInv'
    <2> SUFFICES ASSUME IInv, [Next]_vars
                 PROVE  IInv'
      OBVIOUS
    <2>1. DAGInv'
      BY DecisionsStay DEF IInv
    <2> QED
      BY <2>1, TypeStep, IncludeStep, TaskStep, StateStep, MeetStep, OutputStep DEF IInv
  <1> QED
    BY <1>1, <1>2, PTL DEF Spec

-----------------------------------------------------------------------------
(* The type invariant: only epochs of blocks are stored, and a goroutine   *)
(* that has begun knows its transaction.                                   *)
THEOREM TypeCorrect == Spec => []TypeOK
  <1>1. IInv => TypeOK
    BY DEF IInv
  <1> QED
    BY <1>1, Inductive, PTL

(* The inclusion and the acceptance of a conflict meet, whichever comes    *)
(* first (SetTransactionInclusionEpoch, triggerAcceptedEvent).             *)
THEOREM InclusionMeetsAcceptance == Spec => []IncludedConflictsAccepted
  <1>1. IInv => IncludedConflictsAccepted
    <2> SUFFICES ASSUME IInv, Quiet, NEW t \in Transaction,
                        inclusionEpoch[t] # 0 /\ ConflictsAccepted(t) /\ ConflictIDs[t] \subseteq {t}
                 PROVE  transactionState[t] = "Accepted"
      BY DEF IncludedConflictsAccepted
    <2>1. Awaited(t)
      BY DEF IInv, MeetInv, Awaited
    <2>2. ~Busy(<<"accept", t, 0>>, {"accept"}, t)
      BY Goroutines DEF Busy, Quiet
    <2>3. \A i \in InclusionEpochs[t] : running[<<"include", t, i>>].at \in {"idle", "done"}
      BY Goroutines DEF Quiet
    <2> QED
      BY <2>1, <2>2, <2>3 DEF Awaited
  <1> QED
    BY <1>1, Inductive, PTL


-----------------------------------------------------------------------------
(* From here on only what is accepted is announced.                        *)
LEMMA NothingRevives ==
  ASSUME IInv, [Next]_vars, OnlyAcceptedTransactions, OnlyAcceptedTransactions',
         NEW t \in Transaction
  PROVE  /\ transactionState[t] = "Accepted" => transactionState'[t] = "Accepted"
         /\ transactionState[t] = "Rejected" => transactionState'[t] = "Rejected"
  <1>1. CASE transactionState[t] = "Accepted"
    <2>1. ~HasRejected(t)
      BY <1>1, AcceptedOrRejected DEF OnlyAcceptedTransactions
    <2> QED
      BY <1>1, <2>1, StateChanges
  <1>2. CASE transactionState[t] = "Rejected"
    <2>1. HasRejected(t)
      BY <1>2 DEF IInv, StateInv
    <2>2. HasRejected(t)'
      BY <2>1, DecisionsStay DEF IInv
    <2>3. ~(ConflictsAccepted(t)')
      BY <2>2 DEF ConflictsAccepted, HasRejected, DAG!IsAccepted, DAG!IsRejected, DAG!Accepted,
                  DAG!Rejected
    <2>4. transactionState'[t] # "Accepted"
      BY <2>3 DEF OnlyAcceptedTransactions
    <2> QED
      BY <1>2, <2>4, StateChanges
  <1> QED
    BY <1>1, <1>2

LEMMA EventStep ==
  ASSUME IInv, EventInv, [Next]_vars, OnlyAcceptedTransactions, OnlyAcceptedTransactions'
  PROVE  EventInv'
  <1>a. RunTypes /\ StoreTypes /\ DAGInv /\ TaskInv /\ IncludeInv
    BY DEF IInv, TypeOK, RunTypes, StoreTypes
  <1>1. ASSUME NEW t \in Transaction
        PROVE  acceptedEvents'[t] = IF transactionState'[t] = "Accepted" THEN 1 ELSE 0
    <2>1. acceptedEvents[t] = IF transactionState[t] = "Accepted" THEN 1 ELSE 0
      BY DEF EventInv
    <2>2. transactionState[t] = "Accepted" => transactionState'[t] = "Accepted"
      BY NothingRevives
    <2> QED
      BY <2>1, <2>2, StateChanges
  <1>2. ASSUME NEW g \in Goroutine, running'[g].at = "acceptOutputs"
        PROVE  transactionState'[running'[g].tx] = "Accepted"
    <2>1. CASE /\ running[g].at = "acceptOutputs"
               /\ running'[g].tx = running[g].tx
      <3>1. running[g].tx \in Transaction
        BY <1>a, <2>1 DEF RunTypes, LocalState
      <3> QED
        BY <2>1, <3>1, NothingRevives DEF EventInv
    <2>2. CASE running'[g] = running[g]
      BY <1>2, <2>1, <2>2
    <2>3. CASE TriggerAcceptedEvent(g)
      <3>1. running[g].tx \in Transaction
        BY <1>a, <2>3 DEF RunTypes, LocalState, TriggerAcceptedEvent, At
      <3>2. running'[g].tx = running[g].tx /\ running'[g].at \in {"done", "walk", "acceptOutputs"}
        BY <1>a, <2>3, Proceeds DEF Becomes, Continue
      <3>3. ~Go(g, Continue(g))
        <4>1. Go(g, Continue(g)) => running'[g].at = Continue(g)
          BY <1>a DEF Go, RunTypes, LocalState
        <4>2. Continue(g) \in {"done", "walk"}
          BY DEF Continue
        <4> QED
          BY <1>2, <4>1, <4>2
      <3>4. transactionState' = [transactionState EXCEPT ![running[g].tx] = "Accepted"]
        BY <2>3, <3>3 DEF TriggerAcceptedEvent
      <3>5. transactionState'[running[g].tx] = "Accepted"
        <4> DEFINE t == running[g].tx
        <4>1. t \in Transaction /\ transactionState' = [transactionState EXCEPT ![t] = "Accepted"]
          BY <3>1, <3>4
        <4>2. transactionState \in [Transaction -> {"Pending", "Accepted", "Rejected"}]
          BY <1>a DEF StoreTypes
        <4> HIDE DEF t
        <4>3. transactionState'[t] = "Accepted"
          BY <4>1, <4>2
        <4> QED
          BY <4>3 DEF t
      <3> QED
        BY <3>2, <3>5
    <2>4. CASE AcceptOutputs(g) \/ StoreTransaction(g) \/ ReadInclusionEpoch(g)
      <3>1. running'[g].at # "acceptOutputs"
        BY <1>a, <2>4, Proceeds, StoringSteps DEF Becomes
      <3> QED
        BY <1>2, <3>1
    <2>5. CASE AddAcceptedTransaction(g) \/ PropagateAcceptance(g) \/ TriggerRejectedEvent(g)
                 \/ RejectOutputs(g) \/ PropagateRejection(g)
      <3>1. running'[g].at \in {"done", "walk", "accept", "reject", "rejectOutputs"}
        BY <1>a, <2>5, Proceeds DEF Becomes, Continue
      <3> QED
        BY <1>2, <3>1
    <2>6. ASSUME NEW t \in Transaction, NEW i \in InclusionEpochs[t],
                 \/ SetInclusionEpoch(g, t, i) \/ SetOutputsInclusionEpoch(g, t, i)
                 \/ MoveTransactionToOtherEpoch(g, t, i) \/ UpdateTransactionInclusion(g, t, i)
                 \/ AcceptIfConflictsAccepted(g, t, i)
          PROVE  running'[g].at # "acceptOutputs"
      BY <1>a, <2>6, IncludeRuns
    <2>7. CASE StepOf(g)
      BY <1>2, <2>3, <2>4, <2>5, <2>6, <2>7 DEF StepOf, Proceed, SetTransactionInclusionEpoch
    <2>8. ASSUME NEW h \in Goroutine, StepOf(h)
          PROVE  running'[g] = running[g] \/ StepOf(g)
      BY <1>a, <2>8, OthersWait
    <2>9. ASSUME NEW u \in Transaction, SetConflictAccepted(u)
          PROVE  running'[g] = running[g] \/ running'[g].at \in {"accept", "reject"}
      BY <1>a, <2>9, DecisionRuns
    <2>10. CASE UNCHANGED vars
      BY <2>2, <2>10 DEF vars
    <2> QED
      BY <1>2, <2>2, <2>7, <2>8, <2>9, <2>10 DEF Next, StepOf
  <1> QED
    BY <1>1, <1>2 DEF EventInv

(* What is in the stores stays, but for the epochs that are replaced.      *)
LEMMA StoreChanges ==
  ASSUME IInv, [Next]_vars, NEW t \in Transaction
  PROVE  /\ inclusionEpoch[t] \in spentOutputs[t] => inclusionEpoch[t] \in spentOutputs'[t]
         /\ inclusionEpoch[t] \in createdOutputs[t] => inclusionEpoch[t] \in createdOutputs'[t]
         /\ 0 \in createdOutputs[t] => 0 \in createdOutputs'[t]
         /\ \/ mutations[t] \subseteq mutations'[t]
            \/ \E i \in InclusionEpochs[t] :
                 /\ UpdateTransactionInclusion(<<"include", t, i>>, t, i)
                 /\ mutations'[t] = (mutations[t] \ {running[<<"include", t, i>>].epoch}) \union {i}
  <1>a. /\ RunTypes /\ StoreTypes /\ IncludeInv
        /\ spentOutputs \in [Transaction -> SUBSET Nat] /\ createdOutputs \in [Transaction -> SUBSET Nat]
        /\ mutations \in [Transaction -> SUBSET Nat] /\ inclusionEpoch[t] \in Nat
    BY DEF IInv, TypeOK, RunTypes, StoreTypes
  <1> DEFINE kept == spentOutputs[t] \subseteq spentOutputs'[t]
                     /\ createdOutputs[t] \subseteq createdOutputs'[t]
             goal ==
               /\ inclusionEpoch[t] \in spentOutputs[t] => inclusionEpoch[t] \in spentOutputs'[t]
               /\ inclusionEpoch[t] \in createdOutputs[t] => inclusionEpoch[t] \in createdOutputs'[t]
               /\ 0 \in createdOutputs[t] => 0 \in createdOutputs'[t]
               /\ \/ mutations[t] \subseteq mutations'[t]
                  \/ \E i \in InclusionEpochs[t] :
                       /\ UpdateTransactionInclusion(<<"include", t, i>>, t, i)
                       /\ mutations'[t] = (mutations[t] \ {running[<<"include", t, i>>].epoch}) \union {i}
  <1>1. kept /\ mutations[t] \subseteq mutations'[t] => goal
    OBVIOUS
  <1>2. UNCHANGED stores => kept /\ mutations[t] \subseteq mutations'[t]
    BY DEF stores, diffs
  <1>3. ASSUME NEW u \in Transaction, SetConflictAccepted(u)
        PROVE  UNCHANGED stores
    BY <1>3 DEF SetConflictAccepted
  <1>4. ASSUME NEW u \in Transaction, NEW i \in InclusionEpochs[u], NEW g, g = <<"include", u, i>>,
               \/ SetInclusionEpoch(g, u, i) \/ SetOutputsInclusionEpoch(g, u, i)
               \/ AcceptIfConflictsAccepted(g, u, i)
        PROVE  UNCHANGED stores
    BY <1>4 DEF SetInclusionEpoch, SetOutputsInclusionEpoch, AcceptIfConflictsAccepted
  <1>5. ASSUME NEW u \in Transaction, NEW i \in InclusionEpochs[u], NEW g, g = <<"include", u, i>>,
               MoveTransactionToOtherEpoch(g, u, i)
        PROVE  goal
    <2>1. CASE UNCHANGED diffs
      BY <1>1, <1>5, <2>1 DEF MoveTransactionToOtherEpoch, diffs
    <2>2. CASE /\ spentOutputs' = [spentOutputs EXCEPT ![u] = @ \ {running[g].epoch}]
               /\ createdOutputs' = [createdOutputs EXCEPT ![u] = @ \ {running[g].epoch}]
      <3>1. running[g].at = "move"
        BY <1>5 DEF MoveTransactionToOtherEpoch, At
      <3>2. running[g].epoch # 0 /\ inclusionEpoch[u] <= i /\ running[g].epoch > i
        BY <1>a, <1>5, <3>1 DEF IncludeInv
      <3>3. i \in Nat /\ running[g].epoch \in Nat /\ inclusionEpoch[u] \in Nat
        BY <1>a, <1>5, Epochs, Goroutines DEF RunTypes, LocalState, StoreTypes
      <3>4. running[g].epoch # 0 /\ running[g].epoch # inclusionEpoch[u]
        BY <3>2, <3>3
      <3>5. UNCHANGED mutations
        BY <1>5 DEF MoveTransactionToOtherEpoch
      <3>6. CASE u = t
        BY <1>a, <2>2, <3>4, <3>5, <3>6
      <3>7. CASE u # t
        BY <1>a, <2>2, <3>5, <3>7
      <3> QED
        BY <3>6, <3>7
    <2> QED
      BY <1>5, <2>1, <2>2 DEF MoveTransactionToOtherEpoch
  <1>6. ASSUME NEW u \in Transaction, NEW i \in InclusionEpochs[u], NEW g, g = <<"include", u, i>>,
               UpdateTransactionInclusion(g, u, i)
        PROVE  goal
    <2>1. kept /\ mutations' = [mutations EXCEPT ![u] = (@ \ {running[g].epoch}) \union {i}]
      BY <1>6 DEF UpdateTransactionInclusion, diffs
    <2>2. CASE u = t
      <3>1. mutations'[t] = (mutations[t] \ {running[g].epoch}) \union {i}
        BY <1>a, <2>1, <2>2
      <3> QED
        BY <1>6, <2>1, <2>2, <3>1
    <2>3. CASE u # t
      BY <1>1, <1>a, <2>1, <2>3
    <2> QED
      BY <2>2, <2>3
  <1>7. ASSUME NEW g \in Goroutine, running[g].at \notin {"idle", "done"}
        PROVE  \A store \in [Transaction -> SUBSET Nat] : store[t] \subseteq Store(store, g)[t]
    <2>1. running[g].tx \in Transaction
      BY <1>a, <1>7 DEF RunTypes, LocalState
    <2>2. ASSUME NEW store \in [Transaction -> SUBSET Nat]
          PROVE  store[t] \subseteq Store(store, g)[t]
      <3> HIDE DEF goal, kept
      <3>1. Store(store, g)[t] = IF t = running[g].tx THEN store[t] \union {running[g].read}
                                                     ELSE store[t]
        <4>1. RunTypes
          BY <1>a
        <4> QED
          BY <1>7, <2>1, <2>2, <4>1, EpochsStored
      <3> QED
        BY <3>1
    <2> QED
      BY <2>2
  <1>8. ASSUME NEW g \in Goroutine, StoreTransaction(g)
        PROVE  goal
    <2>1. /\ \/ UNCHANGED stores
             \/ spentOutputs' = Store(spentOutputs, g) /\ UNCHANGED <<createdOutputs, mutations>>
             \/ createdOutputs' = Store(createdOutputs, g) /\ UNCHANGED <<spentOutputs, mutations>>
          /\ running[g].at \notin {"idle", "done"}
      BY <1>a, <1>8, StoringSteps DEF Storing
    <2> QED
      BY <1>a, <1>1, <1>2, <1>7, <2>1
  <1>9. ASSUME NEW g \in Goroutine, AddAcceptedTransaction(g)
        PROVE  goal
    <2>1. running[g].at = "add" /\ mutations' = Store(mutations, g) /\ kept
      BY <1>9 DEF AddAcceptedTransaction, At, diffs
    <2> QED
      BY <1>a, <1>1, <1>7, <2>1
  <1>10. ASSUME NEW g \in Goroutine, Proceed(g), ~StoreTransaction(g), ~AddAcceptedTransaction(g)
         PROVE  UNCHANGED stores
    BY <1>10 DEF Proceed, TriggerAcceptedEvent, AcceptOutputs, ReadInclusionEpoch,
       PropagateAcceptance, TriggerRejectedEvent, RejectOutputs, PropagateRejection
  <1>11. UNCHANGED vars => UNCHANGED stores
    BY DEF vars
  <1> HIDE DEF goal, kept
  <1>12. goal
    BY <1>1, <1>2, <1>3, <1>4, <1>5, <1>6, <1>8, <1>9, <1>10, <1>11, Steps
  <1> QED
    BY <1>12 DEF goal

(* Who announces an acceptance stores it.                                  *)
LEMMA AnnouncerStores ==
  ASSUME IInv, [Next]_vars, NEW t \in Transaction, NEW g \in Goroutine, Busy(g, Announcing, t)
  PROVE  \/ running'[g] = running[g]
         \/ /\ running'[g].tx = t /\ running'[g].epoch = running[g].epoch /\ UNCHANGED metadata
            /\ \/ running[g].at = "acceptOutputs" /\ running'[g].at = "readSpent"
               \/ /\ running[g].at = "readSpent" /\ running'[g].at = "storeSpent"
                  /\ running'[g].read = inclusionEpoch[t]
               \/ /\ running[g].at = "storeSpent" /\ running'[g].at = "readCreated"
                  /\ running[g].read \in spentOutputs'[t]
               \/ /\ running[g].at = "readCreated" /\ running'[g].at = "storeCreated"
                  /\ running'[g].read = outputEpoch[t]
               \/ /\ running[g].at = "storeCreated"
                  /\ running'[g].at = IF Moves(g) THEN "update" ELSE "read"
                  /\ running[g].read \in createdOutputs'[t]
               \/ /\ running[g].at = "read" /\ running'[g].at = "add"
                  /\ running'[g].read = inclusionEpoch[t]
               \/ running[g].at = "add" /\ running[g].read \in mutations'[t]
  <1>a. RunTypes /\ StoreTypes /\ DAGInv /\ TaskInv /\ IncludeInv
    BY DEF IInv, TypeOK, RunTypes, StoreTypes
  <1>b. running[g].at \in Announcing /\ running[g].tx = t
    BY DEF Busy
  <1>c. ASSUME NEW store \in [Transaction -> SUBSET Nat]
        PROVE  running[g].read \in Store(store, g)[t]
    <2>1. Store(store, g)[t] = IF t = running[g].tx THEN store[t] \union {running[g].read}
                                                   ELSE store[t]
      BY <1>a, <1>b, <1>c, EpochsStored
    <2> QED
      BY <1>b, <2>1
  <1>d. /\ spentOutputs \in [Transaction -> SUBSET Nat] /\ createdOutputs \in [Transaction -> SUBSET Nat]
        /\ mutations \in [Transaction -> SUBSET Nat]
    BY <1>a DEF StoreTypes
  <1>e. Proceed(g) => running'[g].epoch = running[g].epoch
    BY <1>a, EpochStays
  <1>1. CASE AcceptOutputs(g)
    BY <1>a, <1>b, <1>e, <1>1, Proceeds DEF Becomes, AcceptOutputs, At, Proceed
  <1>2. CASE StoreTransaction(g)
    <2>1. /\ UNCHANGED metadata /\ running'[g].tx = t /\ running'[g].epoch = running[g].epoch
      BY <1>a, <1>b, <1>2, StoringSteps
    <2> QED
      BY <1>a, <1>b, <1>c, <1>d, <1>2, <2>1, StoringSteps
  <1>3. CASE ReadInclusionEpoch(g)
    BY <1>a, <1>b, <1>e, <1>3, Proceeds DEF Becomes, ReadInclusionEpoch, At, Proceed
  <1>4. CASE AddAcceptedTransaction(g)
    <2>1. running[g].at = "add" /\ mutations' = Store(mutations, g) /\ UNCHANGED metadata
      BY <1>4 DEF AddAcceptedTransaction, At
    <2>2. running'[g].tx = t
      BY <1>a, <1>b, <1>4, Proceeds DEF Becomes
    <2> QED
      BY <1>c, <1>d, <1>e, <1>4, <2>1, <2>2 DEF Proceed
  <1>5. CASE StepOf(g)
    <2>1. ~SetTransactionInclusionEpoch(g)
      BY <1>b DEF Announcing, SetTransactionInclusionEpoch, SetInclusionEpoch,
         SetOutputsInclusionEpoch, MoveTransactionToOtherEpoch, UpdateTransactionInclusion,
         AcceptIfConflictsAccepted, At
    <2>2. ~(TriggerAcceptedEvent(g) \/ PropagateAcceptance(g) \/ TriggerRejectedEvent(g)
            \/ RejectOutputs(g) \/ PropagateRejection(g))
      BY <1>b DEF Announcing, TriggerAcceptedEvent, PropagateAcceptance, TriggerRejectedEvent,
         RejectOutputs, PropagateRejection, At
    <2> QED
      BY <1>1, <1>2, <1>3, <1>4, <1>5, <2>1, <2>2 DEF StepOf, Proceed
  <1>6. ASSUME NEW h \in Goroutine, StepOf(h)
        PROVE  running'[g] = running[g] \/ StepOf(g)
    BY <1>a, <1>6, OthersWait
  <1>7. ASSUME NEW u \in Transaction, SetConflictAccepted(u)
        PROVE  running'[g] = running[g]
    BY <1>a, <1>b, <1>7, DecisionRuns DEF Announcing
  <1> QED
    BY <1>5, <1>6, <1>7 DEF Next, StepOf, vars

(* The goroutine of the current epoch moves what is accepted to it.        *)
LEMMA IncluderMoves ==
  ASSUME IInv, [Next]_vars, NEW t \in Transaction, ConflictsAccepted(t),
         NEW i \in InclusionEpochs[t], i = inclusionEpoch[t], NEW g, g = <<"include", t, i>>,
         running[g].epoch # 0, running[g].at \in {"outputs", "move", "update"} \union Storing
  PROVE  \/ running'[g] = running[g]
         \/ /\ running'[g].epoch # 0 /\ running'[g].tx = t
            /\ \/ running[g].at = "outputs" /\ running'[g].at = "move"
               \/ running[g].at = "move" /\ running'[g].at = "readSpent"
               \/ running[g].at \in Storing /\ running'[g].at \in Storing \union {"update"}
         \/ running[g].at = "update" /\ inclusionEpoch[t] \in mutations'[t]
  <1>a. RunTypes /\ StoreTypes /\ DAGInv /\ TaskInv /\ IncludeInv
    BY DEF IInv, TypeOK, RunTypes, StoreTypes
  <1>b. g \in Goroutine /\ running[g].tx = t
    BY <1>a, Goroutines DEF IncludeInv, Storing
  <1>c. \A at : Go(g, at) => /\ running'[g].at = at /\ running'[g].tx = running[g].tx
                             /\ running'[g].epoch = running[g].epoch
    BY <1>a, <1>b DEF Go, RunTypes, LocalState
  <1>1. CASE SetOutputsInclusionEpoch(g, t, i)
    BY <1>b, <1>c, <1>1 DEF SetOutputsInclusionEpoch, At
  <1>2. CASE MoveTransactionToOtherEpoch(g, t, i)
    BY <1>b, <1>c, <1>2 DEF MoveTransactionToOtherEpoch, At
  <1>3. CASE UpdateTransactionInclusion(g, t, i)
    BY <1>a, <1>3 DEF UpdateTransactionInclusion, At, StoreTypes
  <1>4. CASE StoreTransaction(g)
    BY <1>a, <1>b, <1>4, StoringSteps DEF Storing, Moves
  <1>5. CASE StepOf(g)
    <2>1. Proceed(g) => StoreTransaction(g)
      BY DEF Storing, Proceed, TriggerAcceptedEvent, AcceptOutputs, ReadInclusionEpoch,
         AddAcceptedTransaction, PropagateAcceptance, TriggerRejectedEvent, RejectOutputs,
         PropagateRejection, At
    <2>2. ~(SetInclusionEpoch(g, t, i) \/ AcceptIfConflictsAccepted(g, t, i))
      BY DEF Storing, SetInclusionEpoch, AcceptIfConflictsAccepted, At
    <2> QED
      BY <1>1, <1>2, <1>3, <1>4, <1>5, <2>1, <2>2, IncludeSteps DEF StepOf
  <1>6. ASSUME NEW h \in Goroutine, StepOf(h)
        PROVE  running'[g] = running[g] \/ StepOf(g)
    BY <1>a, <1>b, <1>6, OthersWait
  <1>7. ASSUME NEW u \in Transaction, SetConflictAccepted(u)
        PROVE  running'[g] = running[g]
    BY <1>a, <1>7, DecisionStarts
  <1> QED
    BY <1>5, <1>6, <1>7 DEF Next, StepOf, vars

(* What is created follows while the epoch of the transaction stays.       *)
LEMMA CreatedStep ==
  ASSUME IInv, [Next]_vars, NEW t \in Transaction, ConflictsAccepted(t), inclusionEpoch[t] # 0,
         CreatedFollows(t), inclusionEpoch'[t] = inclusionEpoch[t]
  PROVE  CreatedFollows(t)'
  <1>a. RunTypes /\ StoreTypes /\ IncludeInv /\ OutputInv
    BY DEF IInv, TypeOK, RunTypes, StoreTypes
  <1> DEFINE i == inclusionEpoch[t]
             G == <<"include", t, i>>
  <1>b. i \in InclusionEpochs[t] /\ G \in Goroutine
    BY <1>a, Goroutines DEF StoreTypes
  <1>c. running'[G] = running[G] \/ running'[G].at \notin {"idle", "outputs"}
    <2>1. running[G].at # "idle"
      BY <1>a, <1>b DEF OutputInv
    <2>2. ~SetInclusionEpoch(G, t, i)
      BY <2>1 DEF SetInclusionEpoch, At
    <2> QED
      BY <1>b, <2>2, IncluderSteps
  <1> HIDE DEF i, G
  <1>d. i = inclusionEpoch[t] /\ i = inclusionEpoch'[t] /\ G = <<"include", t, i>>
    BY DEF i, G
  <1>1. CASE i \in createdOutputs[t] \/ 0 \in createdOutputs[t]
    BY <1>d, <1>1, StoreChanges DEF CreatedFollows
  <1>2. CASE Apart(t)
    <2>1. outputEpoch[t] # i /\ running[G].at # "outputs"
      BY <1>2, <1>d DEF Apart
    <2>2. ~SetOutputsInclusionEpoch(G, t, i)
      BY <2>1 DEF SetOutputsInclusionEpoch, At
    <2>3. outputEpoch'[t] # i
      BY <1>a, <1>d, <2>1, <2>2, OutputEpochSet
    <2>4. Apart(t)'
      BY <1>b, <1>c, <1>d, <2>1, <2>3 DEF Apart
    <2> QED
      BY <2>4 DEF CreatedFollows
  <1>3. ASSUME NEW g \in Goroutine,
               \/ Busy(g, {"acceptOutputs", "readSpent", "storeSpent", "readCreated"}, t)
               \/ Busy(g, {"storeCreated"}, t) /\ running[g].read \in {i, 0}
        PROVE  CreatedFollows(t)'
    <2>1. Busy(g, Announcing, t)
      BY <1>3 DEF Busy, Announcing
    <2>2. CASE running'[g] = running[g]
      BY <1>d, <1>3, <2>2 DEF Busy, CreatedFollows
    <2>3. CASE Busy(g, {"readSpent", "storeSpent", "readCreated"}, t)'
      BY <2>3 DEF Busy, CreatedFollows
    <2>4. CASE running[g].at = "storeCreated" /\ running[g].read \in createdOutputs'[t]
      BY <1>d, <1>3, <2>4 DEF Busy, CreatedFollows
    <2>5. CASE /\ Busy(g, {"storeCreated"}, t)' /\ UNCHANGED metadata
               /\ running'[g].read = outputEpoch[t]
      <3>1. CASE outputEpoch[t] \in {i, 0}
        BY <1>d, <2>5, <3>1 DEF CreatedFollows
      <3>2. CASE outputEpoch[t] \notin {i, 0}
        <4>1. CASE running'[G].at # "outputs"
          <5>1. outputEpoch'[t] # i
            BY <2>5, <3>2 DEF metadata
          <5>2. Apart(t)'
            BY <1>b, <1>d, <4>1, <5>1 DEF Apart
          <5> QED
            BY <5>2 DEF CreatedFollows
        <4>2. CASE running'[G].at = "outputs"
          <5>1. running'[G] = running[G]
            BY <1>c, <4>2
          <5>2. running[G].epoch # 0
            BY <1>a, <1>b, <1>d, <3>2, <4>2, <5>1 DEF OutputInv
          <5>3. Moving(t, {"move"})'
            BY <1>b, <1>d, <4>2, <5>1, <5>2 DEF Moving
          <5> QED
            BY <5>3 DEF CreatedFollows
        <4> QED
          BY <4>1, <4>2
      <3> QED
        BY <3>1, <3>2
    <2> QED
      BY <1>3, <2>1, <2>2, <2>3, <2>4, <2>5, AnnouncerStores DEF Busy
  <1>4. CASE Moving(t, {"move"})
    <2>1. running[G].at = "move" \/ (running[G].at = "outputs" /\ running[G].epoch # 0)
      BY <1>4, <1>d DEF Moving
    <2>2. running[G].epoch # 0
      BY <1>a, <1>b, <1>d, <2>1 DEF IncludeInv
    <2>3. CASE running'[G] = running[G] \/ running'[G].at = "move"
      BY <1>4, <1>b, <1>d, <2>1, <2>3 DEF Moving, CreatedFollows
    <2>4. CASE running'[G].at = "readSpent" /\ running'[G].tx = t
      BY <1>b, <2>4 DEF Busy, CreatedFollows
    <2> QED
      BY <1>b, <1>d, <2>1, <2>2, <2>3, <2>4, IncluderMoves DEF Storing
  <1> QED
    BY <1>d, <1>1, <1>2, <1>3, <1>4 DEF CreatedFollows

(* So do what is spent and the mutations.                                  *)
LEMMA SpentStep ==
  ASSUME IInv, [Next]_vars, NEW t \in Transaction, ConflictsAccepted(t), inclusionEpoch[t] # 0,
         SpentFollows(t), inclusionEpoch'[t] = inclusionEpoch[t]
  PROVE  SpentFollows(t)'
  <1>a. RunTypes /\ StoreTypes /\ IncludeInv
    BY DEF IInv, TypeOK, RunTypes, StoreTypes
  <1>1. CASE inclusionEpoch[t] \in spentOutputs[t]
    BY <1>1, StoreChanges DEF SpentFollows
  <1>2. ASSUME NEW g \in Goroutine,
               \/ Busy(g, {"acceptOutputs", "readSpent"}, t)
               \/ Busy(g, {"storeSpent"}, t) /\ running[g].read = inclusionEpoch[t]
        PROVE  SpentFollows(t)'
    <2>1. Busy(g, Announcing, t)
      BY <1>2 DEF Busy, Announcing
    <2>2. CASE running'[g] = running[g]
      BY <1>2, <2>2 DEF Busy, SpentFollows
    <2>3. CASE Busy(g, {"readSpent"}, t)'
      BY <2>3 DEF Busy, SpentFollows
    <2>4. CASE Busy(g, {"storeSpent"}, t)' /\ running'[g].read = inclusionEpoch[t]
      BY <2>4 DEF SpentFollows
    <2>5. CASE running[g].at = "storeSpent" /\ running[g].read \in spentOutputs'[t]
      BY <1>2, <2>5 DEF Busy, SpentFollows
    <2> QED
      BY <1>2, <2>1, <2>2, <2>3, <2>4, <2>5, AnnouncerStores DEF Busy
  <1>3. ASSUME NEW G, G = <<"include", t, inclusionEpoch[t]>>, Moving(t, {"move"})
        PROVE  SpentFollows(t)'
    <2>1. inclusionEpoch[t] \in InclusionEpochs[t] /\ G \in Goroutine
      BY <1>3, Goroutines DEF Moving
    <2>2. running[G].at = "move" \/ (running[G].at = "outputs" /\ running[G].epoch # 0)
      BY <1>3 DEF Moving
    <2>3. running[G].epoch # 0
      BY <1>a, <1>3, <2>1, <2>2 DEF IncludeInv
    <2>4. CASE running'[G] = running[G] \/ running'[G].at = "move"
      BY <1>3, <2>1, <2>2, <2>4 DEF Moving, SpentFollows
    <2>5. CASE running'[G].at = "readSpent" /\ running'[G].tx = t
      BY <2>1, <2>5 DEF Busy, SpentFollows
    <2> QED
      BY <1>3, <2>1, <2>2, <2>3, <2>4, <2>5, IncluderMoves DEF Storing
  <1> QED
    BY <1>1, <1>2, <1>3 DEF SpentFollows

LEMMA MutationStep ==
  ASSUME IInv, [Next]_vars, NEW t \in Transaction, ConflictsAccepted(t), inclusionEpoch[t] # 0,
         MutationFollows(t), inclusionEpoch'[t] = inclusionEpoch[t]
  PROVE  MutationFollows(t)'
  <1>a. RunTypes /\ StoreTypes /\ IncludeInv
    BY DEF IInv, TypeOK, RunTypes, StoreTypes
  <1>b. inclusionEpoch[t] \in InclusionEpochs[t] /\ inclusionEpoch[t] \in Nat
    BY <1>a DEF StoreTypes
  <1>1. CASE inclusionEpoch[t] \in mutations[t]
    <2>1. CASE mutations[t] \subseteq mutations'[t]
      BY <1>1, <2>1 DEF MutationFollows
    <2>2. ASSUME NEW i \in InclusionEpochs[t], NEW g, g = <<"include", t, i>>,
                 UpdateTransactionInclusion(g, t, i),
                 mutations'[t] = (mutations[t] \ {running[g].epoch}) \union {i}
          PROVE  MutationFollows(t)'
      <3>1. running[g].at = "update"
        BY <2>2 DEF UpdateTransactionInclusion, At
      <3>2. inclusionEpoch[t] <= i /\ (running[g].epoch = 0 \/ running[g].epoch > i)
        BY <1>a, <2>2, <3>1 DEF IncludeInv
      <3>3. i \in Nat /\ running[g].epoch \in Nat
        BY <1>a, <2>2, Epochs, Goroutines DEF RunTypes, LocalState
      <3>4. running[g].epoch # inclusionEpoch[t]
        BY <1>b, <3>2, <3>3
      <3>5. inclusionEpoch'[t] \in mutations'[t]
        BY <1>1, <2>2, <3>4
      <3> QED
        BY <3>5 DEF MutationFollows
    <2> QED
      BY <2>1, <2>2, StoreChanges
  <1>2. ASSUME NEW g \in Goroutine,
               \/ Busy(g, {"acceptOutputs", "read"} \union Storing, t) /\ ~Moves(g)
               \/ Busy(g, {"add"}, t) /\ running[g].read = inclusionEpoch[t]
        PROVE  MutationFollows(t)'
    <2>1. Busy(g, Announcing, t)
      BY <1>2 DEF Busy, Announcing, Storing
    <2>2. CASE running'[g] = running[g]
      BY <1>2, <2>2 DEF Busy, MutationFollows, Moves
    <2>3. CASE Busy(g, {"acceptOutputs", "read"} \union Storing, t)' /\ ~Moves(g)'
      BY <2>3 DEF MutationFollows
    <2>4. CASE Busy(g, {"add"}, t)' /\ running'[g].read = inclusionEpoch[t]
      BY <2>4 DEF MutationFollows
    <2>5. CASE running[g].at = "add" /\ running[g].read \in mutations'[t]
      BY <1>2, <2>5 DEF Busy, MutationFollows, Storing
    <2>6. running'[g].epoch = running[g].epoch => (Moves(g)' <=> Moves(g))
      BY DEF Moves
    <2> QED
      BY <1>2, <2>1, <2>2, <2>3, <2>4, <2>5, <2>6, AnnouncerStores DEF Busy, Storing
  <1>3. ASSUME NEW G, G = <<"include", t, inclusionEpoch[t]>>,
               Moving(t, {"move", "update"} \union Storing)
        PROVE  MutationFollows(t)'
    <2>1. G \in Goroutine
      BY <1>b, <1>3, Goroutines
    <2>2. \/ running[G].at \in {"move", "update"} \union Storing
          \/ running[G].at = "outputs" /\ running[G].epoch # 0
      BY <1>3 DEF Moving
    <2>3. CASE running[G].at \in Storing /\ running[G].epoch = 0
      <3>1. Busy(G, {"acceptOutputs", "read"} \union Storing, t) /\ ~Moves(G)
        BY <1>a, <1>b, <1>3, <2>3 DEF IncludeInv, Storing, Busy, Moves
      <3> QED
        BY <1>2, <2>1, <3>1
    <2>4. CASE ~(running[G].at \in Storing /\ running[G].epoch = 0)
      <3>1. running[G].epoch # 0
        BY <1>a, <1>b, <1>3, <2>2, <2>4 DEF IncludeInv
      <3>2. CASE \/ running'[G] = running[G]
                 \/ running'[G].at \in {"move", "update"} \union Storing
        BY <1>b, <1>3, <2>2, <3>2 DEF Moving, MutationFollows
      <3>3. CASE inclusionEpoch[t] \in mutations'[t]
        BY <3>3 DEF MutationFollows
      <3> QED
        BY <1>b, <1>3, <2>2, <3>1, <3>2, <3>3, IncluderMoves DEF Storing
    <2> QED
      BY <2>3, <2>4
  <1> QED
    BY <1>1, <1>2, <1>3 DEF MutationFollows

LEMMA StoredStep ==
  ASSUME IInv, EventInv, StoredInv, [Next]_vars, OnlyAcceptedTransactions, OnlyAcceptedTransactions'
  PROVE  StoredInv'
  <1>a. RunTypes /\ StoreTypes /\ DAGInv /\ TaskInv /\ IncludeInv
    BY DEF IInv, TypeOK, RunTypes, StoreTypes
  <1> SUFFICES ASSUME NEW t \in Transaction, transactionState'[t] = "Accepted"
               PROVE  SpentFollows(t)' /\ CreatedFollows(t)' /\ MutationFollows(t)'
    BY DEF StoredInv
  <1>1. CASE transactionState[t] # "Accepted"
    <2>1. PICK g \in Goroutine : TriggerAcceptedEvent(g) /\ running[g].tx = t
      BY <1>1, StateChanges
    <2>2. ~(Go(g, Continue(g)) /\ UNCHANGED <<transactionState, acceptedEvents>>)
      BY <1>1
    <2>3. Go(g, "acceptOutputs") /\ running[g].at = "accept"
      BY <2>1, <2>2 DEF TriggerAcceptedEvent, At
    <2>4. /\ running'[g].at = "acceptOutputs" /\ running'[g].tx = t
          /\ running'[g].epoch = running[g].epoch
      BY <1>a, <2>1, <2>3 DEF Go, RunTypes, LocalState
    <2>5. ~Moves(g)
      <3>1. CASE \E u \in Transaction : \E i \in InclusionEpochs[u] : g = <<"include", u, i>>
        BY <1>a, <2>3, <3>1 DEF IncludeInv, Moves
      <3>2. CASE \E u \in Transaction : g = <<"accept", u, 0>> \/ g = <<"reject", u, 0>>
        BY <3>2 DEF Moves
      <3> QED
        BY <3>1, <3>2, Goroutines
    <2>6. ~Moves(g)'
      BY <2>4, <2>5 DEF Moves
    <2>7. /\ Busy(g, {"acceptOutputs", "readSpent"}, t)'
          /\ Busy(g, {"acceptOutputs", "readSpent", "storeSpent", "readCreated"}, t)'
          /\ Busy(g, {"acceptOutputs", "read"} \union Storing, t)'
      BY <2>4 DEF Busy
    <2> QED
      BY <2>6, <2>7 DEF SpentFollows, CreatedFollows, MutationFollows
  <1>2. CASE transactionState[t] = "Accepted" /\ inclusionEpoch'[t] # inclusionEpoch[t]
    <2>1. inclusionEpoch[t] # 0
      BY <1>2 DEF IInv, StateInv
    <2>2. PICK i \in InclusionEpochs[t] :
            /\ inclusionEpoch'[t] = i
            /\ running' = [running EXCEPT ![<<"include", t, i>>] =
                 [NotRunning EXCEPT !.at = "outputs", !.tx = t, !.epoch = inclusionEpoch[t]]]
      BY <1>a, <1>2, EpochSet
    <2> DEFINE g == <<"include", t, i>>
    <2>3. g \in Goroutine
      BY Goroutines
    <2>4. running'[g].at = "outputs" /\ running'[g].epoch # 0
      BY <1>a, <2>1, <2>2, <2>3 DEF RunTypes, NotRunning
    <2>5. Moving(t, {"move"})' /\ Moving(t, {"move", "update"} \union Storing)'
      BY <2>2, <2>4 DEF Moving
    <2> QED
      BY <2>5 DEF SpentFollows, CreatedFollows, MutationFollows
  <1>3. CASE transactionState[t] = "Accepted" /\ inclusionEpoch'[t] = inclusionEpoch[t]
    <2>1. ConflictsAccepted(t) /\ SpentFollows(t) /\ CreatedFollows(t) /\ MutationFollows(t)
      BY <1>3 DEF OnlyAcceptedTransactions, StoredInv
    <2>2. inclusionEpoch[t] # 0
      BY <1>3 DEF IInv, StateInv
    <2> QED
      BY <1>3, <2>1, <2>2, SpentStep, CreatedStep, MutationStep
  <1> QED
    BY <1>1, <1>2, <1>3

-----------------------------------------------------------------------------
(* What the task of a rejected conflict does.                              *)
LEMMA RejecterSteps ==
  ASSUME IInv, [Next]_vars, NEW c \in Transaction, NEW r, r = <<"reject", c, 0>>
  PROVE  \/ running'[r] = running[r]
         \/ running[r].at = "idle" /\ Becomes(r, "reject", c, {}, {})
         \/ TriggerRejectedEvent(r) \/ RejectOutputs(r) \/ PropagateRejection(r)
  <1>a. RunTypes /\ DAGInv /\ TaskInv
    BY DEF IInv, TypeOK, RunTypes
  <1>b. r \in Goroutine /\ r[1] = "reject"
    BY Goroutines
  <1>c. running[r].at \in {"idle", "reject", "rejectOutputs", "walk", "done"}
    BY <1>a DEF TaskInv
  <1>1. CASE StepOf(r)
    <2>1. ~SetTransactionInclusionEpoch(r)
      BY <1>b DEF SetTransactionInclusionEpoch, SetInclusionEpoch, SetOutputsInclusionEpoch,
         MoveTransactionToOtherEpoch, UpdateTransactionInclusion, AcceptIfConflictsAccepted
    <2>2. ~(TriggerAcceptedEvent(r) \/ AcceptOutputs(r) \/ StoreTransaction(r)
            \/ ReadInclusionEpoch(r) \/ AddAcceptedTransaction(r) \/ PropagateAcceptance(r))
      BY <1>b, <1>c DEF TriggerAcceptedEvent, AcceptOutputs, StoreTransaction, ReadSpentEpoch,
         StoreSpentOutputs, ReadCreatedEpoch, StoreCreatedOutputs, ReadInclusionEpoch,
         AddAcceptedTransaction, PropagateAcceptance, At
    <2> QED
      BY <1>1, <2>1, <2>2 DEF StepOf, Proceed
  <1>2. ASSUME NEW h \in Goroutine, StepOf(h)
        PROVE  running'[r] = running[r] \/ StepOf(r)
    BY <1>a, <1>b, <1>2, OthersWait
  <1>3. ASSUME NEW u \in Transaction, SetConflictAccepted(u)
        PROVE  \/ running'[r] = running[r]
               \/ running[r].at = "idle" /\ Becomes(r, "reject", c, {}, {})
    BY <1>a, <1>3, DecisionStarts DEF Becomes, NotRunning
  <1> QED
    BY <1>1, <1>2, <1>3 DEF Next, StepOf, vars

(* The task of a conflict does not lose what it has to reject.             *)
LEMMA ReachedByStep ==
  ASSUME IInv, [Next]_vars, OnlyAcceptedTransactions, OnlyAcceptedTransactions',
         NEW c \in Transaction, NEW u \in Transaction, ReachedBy(c, u)
  PROVE  ReachedBy(c, u)'
  <1>a. RunTypes /\ StoreTypes /\ DAGInv /\ TaskInv
    BY DEF IInv, TypeOK, RunTypes, StoreTypes
  <1> DEFINE r == <<"reject", c, 0>>
  <1>b. r \in Goroutine
    BY Goroutines
  <1>c. ReachedBy(c, u) <=>
          \/ transactionState[u] = "Rejected"
          \/ running[r].at = "reject" /\ running[r].tx = u
          \/ u \in running[r].walk
    BY DEF ReachedBy, Busy
  <1>d. ReachedBy(c, u)' <=>
          \/ transactionState'[u] = "Rejected"
          \/ running'[r].at = "reject" /\ running'[r].tx = u
          \/ u \in running'[r].walk
    BY DEF ReachedBy, Busy
  <1>e. running[r].at \in {"idle", "done"} => running[r].walk = {}
    BY <1>a DEF TaskInv
  <1>f. \/ running'[r] = running[r]
        \/ running[r].at = "idle" /\ Becomes(r, "reject", c, {}, {})
        \/ TriggerRejectedEvent(r) \/ RejectOutputs(r) \/ PropagateRejection(r)
    BY RejecterSteps
  <1> HIDE DEF r
  <1>1. CASE transactionState[u] = "Rejected"
    BY <1>d, <1>1, NothingRevives
  <1>2. CASE running'[r] = running[r]
    BY <1>c, <1>d, <1>1, <1>2
  <1>3. CASE running[r].at = "idle" /\ Becomes(r, "reject", c, {}, {})
    BY <1>c, <1>e, <1>1, <1>3
  <1>4. CASE TriggerRejectedEvent(r)
    <2>1. running'[r].walk = running[r].walk
      BY <1>a, <1>b, <1>4, Proceeds DEF Becomes
    <2>2. running[r].tx = u => transactionState'[u] = "Rejected"
      BY <1>a, <1>4 DEF TriggerRejectedEvent, StoreTypes
    <2> QED
      BY <1>c, <1>d, <1>1, <2>1, <2>2
  <1>5. CASE RejectOutputs(r)
    <2>1. running'[r].walk = running[r].walk \union Unseen(r)
      BY <1>a, <1>b, <1>5, Proceeds DEF Becomes
    <2>2. running[r].at # "reject"
      BY <1>5 DEF RejectOutputs, At
    <2> QED
      BY <1>c, <1>d, <1>1, <2>1, <2>2
  <1>6. CASE PropagateRejection(r)
    <2>1. \/ running[r].walk = {}
          \/ \E d \in running[r].walk : Becomes(r, "reject", d, running[r].walk \ {d}, running[r].seen)
      BY <1>a, <1>b, <1>6, Proceeds
    <2>2. running[r].at # "reject"
      BY <1>6 DEF PropagateRejection, At
    <2> QED
      BY <1>c, <1>d, <1>1, <2>1, <2>2 DEF Becomes
  <1> QED
    BY <1>f, <1>2, <1>3, <1>4, <1>5, <1>6

LEMMA ReachedStep ==
  ASSUME IInv, [Next]_vars, OnlyAcceptedTransactions, OnlyAcceptedTransactions',
         NEW u \in Transaction, Reached(u)
  PROVE  Reached(u)'
  BY ReachedByStep DEF Reached

(* How the state of the outputs of a transaction changes.                  *)
LEMMA OutputStateChanges ==
  ASSUME StoreTypes, [Next]_vars, NEW t \in Transaction
  PROVE  \/ outputState'[t] = outputState[t]
         \/ \E g \in Goroutine : AcceptOutputs(g) /\ running[g].tx = t
         \/ outputState'[t] = "Rejected"
  <1>1. ASSUME NEW g \in Goroutine, Proceed(g), ~AcceptOutputs(g), ~RejectOutputs(g)
        PROVE  UNCHANGED outputState
    BY <1>1 DEF Proceed, TriggerAcceptedEvent, StoreTransaction, ReadSpentEpoch,
       StoreSpentOutputs, ReadCreatedEpoch, StoreCreatedOutputs, ReadInclusionEpoch,
       AddAcceptedTransaction, PropagateAcceptance, TriggerRejectedEvent, PropagateRejection,
       states
  <1>2. ASSUME NEW g \in Goroutine, SetTransactionInclusionEpoch(g)
        PROVE  UNCHANGED outputState
    BY <1>2 DEF SetTransactionInclusionEpoch, SetInclusionEpoch, SetOutputsInclusionEpoch,
       MoveTransactionToOtherEpoch, UpdateTransactionInclusion, AcceptIfConflictsAccepted, states
  <1>3. ASSUME NEW u \in Transaction, SetConflictAccepted(u)
        PROVE  UNCHANGED outputState
    BY <1>3 DEF SetConflictAccepted, states
  <1>4. ASSUME NEW g \in Goroutine, AcceptOutputs(g)
        PROVE  outputState'[t] = outputState[t] \/ running[g].tx = t
    BY <1>4 DEF AcceptOutputs, StoreTypes
  <1>5. ASSUME NEW g \in Goroutine, RejectOutputs(g)
        PROVE  outputState'[t] = outputState[t] \/ outputState'[t] = "Rejected"
    BY <1>5 DEF RejectOutputs, StoreTypes
  <1> QED
    BY SMTT(20), <1>1, <1>2, <1>3, <1>4, <1>5 DEF Next, vars, states


LEMMA WalkStep ==
  ASSUME IInv, EventInv, WalkInv, [Next]_vars, OnlyAcceptedTransactions, OnlyAcceptedTransactions'
  PROVE  WalkInv'
  <1>a. RunTypes /\ StoreTypes /\ DAGInv /\ TaskInv /\ IncludeInv
    BY DEF IInv, TypeOK, RunTypes, StoreTypes
  <1>1. ASSUME NEW c \in Transaction, (DAG!IsRejected(c))'
        PROVE  Reached(c)'
    <2>1. CASE DAG!IsRejected(c)
      BY <2>1, ReachedStep DEF WalkInv
    <2>2. ASSUME NEW t \in Transaction, SetConflictAccepted(t), c \in DAG!NewlyRejected(t)
          PROVE  Reached(c)'
      <3>1. running'[<<"reject", c, 0>>] = [NotRunning EXCEPT !.at = "reject", !.tx = c]
        BY <1>a, <2>2, DecisionStarts
      <3>2. Busy(<<"reject", c, 0>>, {"reject"}, c)'
        BY <3>1 DEF Busy, NotRunning
      <3> QED
        BY <3>2 DEF Reached, ReachedBy
    <2>3. CASE UNCHANGED conflictDAG
      BY <1>1, <2>1, <2>3, UndecidedStep
    <2>4. ASSUME NEW g \in Goroutine, StepOf(g)
          PROVE  UNCHANGED conflictDAG
      BY <2>4 DEF StepOf, SetTransactionInclusionEpoch, SetInclusionEpoch,
         SetOutputsInclusionEpoch, MoveTransactionToOtherEpoch, UpdateTransactionInclusion,
         AcceptIfConflictsAccepted, Proceed, TriggerAcceptedEvent, AcceptOutputs,
         StoreTransaction, ReadSpentEpoch, StoreSpentOutputs, ReadCreatedEpoch,
         StoreCreatedOutputs, ReadInclusionEpoch, AddAcceptedTransaction, PropagateAcceptance,
         TriggerRejectedEvent, RejectOutputs, PropagateRejection
    <2>5. ASSUME NEW t \in Transaction, SetConflictAccepted(t)
          PROVE  DAG!IsRejected(c) \/ c \in DAG!NewlyRejected(t)
      BY <1>a, <1>1, <2>5, Decision
    <2>6. CASE UNCHANGED vars
      BY <2>3, <2>6 DEF vars, conflictDAG
    <2> QED
      BY <2>1, <2>2, <2>3, <2>4, <2>5, <2>6 DEF Next, StepOf
  <1>2. ASSUME NEW c \in Transaction, NEW u \in running'[<<"reject", c, 0>>].seen
        PROVE  ReachedBy(c, u)'
    <2> DEFINE r == <<"reject", c, 0>>
    <2>a. r \in Goroutine
      BY Goroutines
    <2>b. u \in running'[r].walk => ReachedBy(c, u)'
      BY DEF ReachedBy
    <2>c. u \in running[r].seen => ReachedBy(c, u)'
      <3>1. running[r].seen \subseteq Transaction
        BY <1>a, <2>a DEF RunTypes, LocalState
      <3> QED
        BY <3>1, ReachedByStep DEF WalkInv
    <2>d. \/ running'[r] = running[r]
          \/ running[r].at = "idle" /\ Becomes(r, "reject", c, {}, {})
          \/ TriggerRejectedEvent(r) \/ RejectOutputs(r) \/ PropagateRejection(r)
      BY RejecterSteps
    <2> HIDE DEF r
    <2>1. u \in running[r].seen \/ u \in running'[r].walk
      <3>1. CASE running'[r] = running[r]
        BY <1>2, <3>1 DEF r
      <3>2. CASE running[r].at = "idle" /\ Becomes(r, "reject", c, {}, {})
        BY <1>2, <3>2 DEF r, Becomes
      <3>3. CASE TriggerRejectedEvent(r) \/ PropagateRejection(r)
        <4>1. running'[r].seen = running[r].seen
          BY <1>a, <2>a, <3>3, Proceeds DEF Becomes
        <4> QED
          BY <1>2, <4>1 DEF r
      <3>4. CASE RejectOutputs(r)
        <4>1. /\ running'[r].seen = running[r].seen \union Unseen(r)
              /\ running'[r].walk = running[r].walk \union Unseen(r)
          BY <1>a, <2>a, <3>4, Proceeds DEF Becomes
        <4> QED
          BY <1>2, <4>1 DEF r
      <3> QED
        BY <2>d, <3>1, <3>2, <3>3, <3>4
    <2> QED
      BY <2>1, <2>b, <2>c
  <1>3. ASSUME NEW t \in Transaction, transactionState'[t] = "Rejected"
        PROVE  \/ \E c \in Transaction : Busy(<<"reject", c, 0>>, {"rejectOutputs"}, t)'
               \/ outputState'[t] = "Rejected" /\ \A u \in Consumers(t) : Reached(u)'
    <2>1. CASE transactionState[t] # "Rejected"
      <3>1. PICK g \in Goroutine : TriggerRejectedEvent(g) /\ running[g].tx = t
        BY <1>3, <2>1, StateChanges
      <3>2. PICK c \in Transaction : g = <<"reject", c, 0>>
        BY <1>a, <3>1, Rejecters DEF TriggerRejectedEvent, At
      <3>3. running'[g].at = "rejectOutputs" /\ running'[g].tx = t
        BY <1>a, <2>1, <3>1, Proceeds DEF Becomes
      <3>4. Busy(<<"reject", c, 0>>, {"rejectOutputs"}, t)'
        BY <3>2, <3>3 DEF Busy
      <3> QED
        BY <3>4
    <2>2. ASSUME NEW c \in Transaction, Busy(<<"reject", c, 0>>, {"rejectOutputs"}, t)
          PROVE  \/ Busy(<<"reject", c, 0>>, {"rejectOutputs"}, t)'
                 \/ outputState'[t] = "Rejected" /\ \A u \in Consumers(t) : Reached(u)'
      <3> DEFINE r == <<"reject", c, 0>>
      <3>a. r \in Goroutine /\ running[r].at = "rejectOutputs" /\ running[r].tx = t
        BY <2>2, Goroutines DEF Busy
      <3>b. \/ running'[r] = running[r]
            \/ running[r].at = "idle" /\ Becomes(r, "reject", c, {}, {})
            \/ TriggerRejectedEvent(r) \/ RejectOutputs(r) \/ PropagateRejection(r)
        BY RejecterSteps
      <3>1. CASE running'[r] = running[r]
        BY <3>a, <3>1 DEF Busy
      <3>2. CASE RejectOutputs(r)
        <4>1. running'[r].seen = running[r].seen \union Unseen(r)
          BY <1>a, <3>a, <3>2, Proceeds DEF Becomes
        <4>2. \A u \in Consumers(t) : u \in running'[r].seen
          BY <3>a, <4>1 DEF Unseen
        <4>3. \A u \in Consumers(t) : Reached(u)'
          BY <1>2, <4>2 DEF Reached
        <4>4. outputState'[t] = "Rejected"
          BY <1>a, <3>a, <3>2 DEF RejectOutputs, StoreTypes
        <4> QED
          BY <4>3, <4>4
      <3>3. ~(TriggerRejectedEvent(r) \/ PropagateRejection(r)) /\ running[r].at # "idle"
        BY <3>a DEF TriggerRejectedEvent, PropagateRejection, At
      <3> QED
        BY <3>b, <3>1, <3>2, <3>3
    <2>3. CASE /\ transactionState[t] = "Rejected" /\ outputState[t] = "Rejected"
               /\ \A u \in Consumers(t) : Reached(u)
      <3>1. ~\E g \in Goroutine : AcceptOutputs(g) /\ running[g].tx = t
        BY <2>3 DEF EventInv, AcceptOutputs, At
      <3>2. outputState'[t] = "Rejected"
        BY <1>a, <2>3, <3>1, OutputStateChanges
      <3>3. \A u \in Consumers(t) : Reached(u)'
        BY <2>3, ReachedStep DEF Consumers
      <3> QED
        BY <3>2, <3>3
    <2> QED
      BY <2>1, <2>2, <2>3 DEF WalkInv
  <1> QED
    BY <1>1, <1>2, <1>3 DEF WalkInv

(* As long as only accepted transactions are announced, all of it holds.   *)
LEMMA SoundInductive == Spec /\ []OnlyAcceptedTransactions => []SoundInv
  <1>1. Init => SoundInv
    BY InitInv
  <1>2. SoundInv /\ [Next]_vars /\ OnlyAcceptedTransactions /\ OnlyAcceptedTransactions' => SoundInv'
    <2> SUFFICES ASSUME SoundInv, [Next]_vars, OnlyAcceptedTransactions, OnlyAcceptedTransactions'
                 PROVE  SoundInv'
      OBVIOUS
    <2>1. IInv /\ EventInv /\ StoredInv /\ WalkInv
      BY DEF SoundInv
    <2>2. IInv'
      BY <2>1, DecisionsStay, TypeStep, IncludeStep, TaskStep, StateStep, MeetStep, OutputStep DEF IInv
    <2> QED
      BY <2>1, <2>2, EventStep, StoredStep, WalkStep DEF SoundInv
  <1> QED
    BY <1>1, <1>2, PTL DEF Spec

-----------------------------------------------------------------------------
(* As long as TransactionAccepted is only triggered for accepted           *)
(* transactions, it is triggered once for each (triggerAcceptedEvent).     *)
THEOREM AnnouncedOnce == Spec /\ []OnlyAcceptedTransactions => []AcceptedOnce
  <1>1. SoundInv => AcceptedOnce
    BY DEF SoundInv, EventInv, AcceptedOnce
  <1> QED
    BY <1>1, SoundInductive, PTL

(* ... and the stores follow the inclusion epoch of what is accepted, for   *)
(* what is created as long as the outputs have the same epoch              *)
(* (storeTransaction, MoveTransactionToOtherEpoch,                         *)
(* UpdateTransactionInclusion).                                            *)
THEOREM StoresFollowInclusion == Spec /\ []OnlyAcceptedTransactions => []AcceptedIsStored
  <1>1. SoundInv => AcceptedIsStored
    <2> SUFFICES ASSUME SoundInv, Quiet, NEW t \in Transaction, transactionState[t] = "Accepted"
                 PROVE  /\ inclusionEpoch[t] \in spentOutputs[t] \intersect mutations[t]
                        /\ outputEpoch[t] = inclusionEpoch[t] /\ 0 \notin createdOutputs[t] =>
                             inclusionEpoch[t] \in createdOutputs[t]
      BY DEF AcceptedIsStored
    <2>1. SpentFollows(t) /\ CreatedFollows(t) /\ MutationFollows(t)
      BY DEF SoundInv, StoredInv
    <2>2. \A g \in Goroutine : running[g].at \in {"idle", "done"}
      BY DEF Quiet
    <2>3. ~Moving(t, {"move"}) /\ ~Moving(t, {"move", "update"} \union Storing)
      BY <2>2, Goroutines DEF Moving, Storing
    <2>4. outputEpoch[t] = inclusionEpoch[t] => ~Apart(t)
      BY DEF Apart
    <2> QED
      BY <2>1, <2>2, <2>3, <2>4 DEF SpentFollows, CreatedFollows, MutationFollows, Busy, Storing
  <1> QED
    BY <1>1, SoundInductive, PTL

(* ... and a rejection reaches whatever depends on the rejected conflict,  *)
(* and stays with it (triggerRejectedEvent,                                *)
(* propagatedRejectionToTransactions).                                     *)
THEOREM RejectionIsComplete == Spec /\ []OnlyAcceptedTransactions => []RejectionReachesFutureCone
  <1>1. SoundInv => RejectionReachesFutureCone
    <2> SUFFICES ASSUME SoundInv, Quiet, NEW t \in Transaction,
                        NEW c \in ConflictIDs[t], DAG!IsRejected(c)
                 PROVE  transactionState[t] = "Rejected" /\ outputState[t] = "Rejected"
      BY DEF RejectionReachesFutureCone
    <2>1. IInv /\ WalkInv /\ TaskInv
      BY DEF SoundInv, IInv
    <2>2. ASSUME NEW u \in Transaction, Reached(u)
          PROVE  transactionState[u] = "Rejected"
      <3>1. PICK d \in Transaction : ReachedBy(d, u)
        BY <2>2 DEF Reached
      <3>2. running[<<"reject", d, 0>>].at \in {"idle", "done"}
        BY Goroutines DEF Quiet
      <3>3. running[<<"reject", d, 0>>].walk = {}
        BY <2>1, <3>2 DEF TaskInv
      <3> QED
        BY <3>1, <3>2, <3>3 DEF ReachedBy, Busy
    <2>3. ASSUME NEW u \in Transaction, transactionState[u] = "Rejected"
          PROVE  outputState[u] = "Rejected" /\ \A v \in Consumers(u) : transactionState[v] = "Rejected"
      <3>1. ~\E d \in Transaction : Busy(<<"reject", d, 0>>, {"rejectOutputs"}, u)
        BY Goroutines DEF Busy, Quiet
      <3> QED
        BY <2>1, <2>2, <2>3, <3>1 DEF WalkInv, Consumers
    <2>4. c \in Transaction /\ transactionState[c] = "Rejected"
      BY <2>1, <2>2, InheritedConflicts DEF WalkInv
    <2>5. transactionState[t] = "Rejected"
      <3> DEFINE N == {u \in Transaction : transactionState[u] # "Rejected"}
      <3>1. N \in SUBSET Transaction
        OBVIOUS
      <3>2. \A p \in Transaction : \A d \in Consumers(p) : d \in N => p \in N
        BY <2>3
      <3>3. c \notin N
        BY <2>4
      <3>4. t \in N => ConflictIDs[t] \subseteq N
        <4> HIDE DEF N
        <4> QED
          BY <3>1, <3>2, ConflictsAreSpent
      <3> QED
        BY <3>3, <3>4
    <2> QED
      BY <2>3, <2>5
  <1> QED
    BY <1>1, SoundInductive, PTL


-----------------------------------------------------------------------------
(* Without any hypothesis: how far an acceptance may reach too early.      *)

(* A walk after an acceptance stays in the future cone of the conflict,    *)
(* and a block only accepts what has accepted conflicts.                   *)
ConeInv ==
  /\ AcceptedByThePast
  /\ \A c, t \in Transaction : Meets(<<"accept", c, 0>>, t) => t \in FutureCone(c)
  /\ \A t \in Transaction : \A i \in InclusionEpochs[t] :
       running[<<"include", t, i>>].at = "accept" => ConflictsAccepted(t)

LEMMA ConesAreClosed ==
  ASSUME NEW c \in Transaction
  PROVE  c \in FutureCone(c) /\ \A t \in FutureCone(c) : Consumers(t) \subseteq FutureCone(c)
  <1> DEFINE next == [t \in Transaction |-> Consumers(t)]
  <1>1. next \in [Transaction -> SUBSET Transaction] /\ {c} \in SUBSET Transaction
    BY DEF Consumers
  <1>2. FutureCone(c) = ConflictDAG!Closure({c}, next)
    BY DEF FutureCone, DAG!Closure, ConflictDAG!Closure
  <1>3. \A t \in Transaction : next[t] = Consumers(t)
    OBVIOUS
  <1> HIDE DEF next
  <1>4. c \in FutureCone(c) /\ FutureCone(c) \subseteq Transaction
    BY <1>1, <1>2, ConflictDAG!ClosureHoldsStart, ConflictDAG!ClosureOfIDs
  <1>5. \A t \in FutureCone(c) : next[t] \subseteq FutureCone(c)
    BY <1>1, <1>2, ConflictDAG!ClosureIsClosed
  <1> QED
    BY <1>3, <1>4, <1>5

(* The task of an accepted conflict is never taken back.                   *)
LEMMA AnnouncedStays ==
  ASSUME IInv, [Next]_vars, NEW c \in Transaction, Announced(c)
  PROVE  Announced(c)'
  <1> DEFINE a == <<"accept", c, 0>>
  <1>a. RunTypes /\ DAGInv /\ TaskInv /\ a \in Goroutine /\ a[1] = "accept"
    BY Goroutines DEF IInv, TypeOK, RunTypes
  <1> HIDE DEF a
  <1>1. running[a].at # "idle"
    BY DEF Announced, a
  <1>2. ASSUME StepOf(a)
        PROVE  running'[a].at # "idle"
    <2>1. ~SetTransactionInclusionEpoch(a)
      BY <1>a, OnlyBlocksInclude
    <2>2. StoreTransaction(a) => running'[a].at # "idle"
      BY <1>a, StoringSteps
    <2>3. PropagateAcceptance(a) \/ PropagateRejection(a) => running'[a].at # "idle"
      BY <1>a, Proceeds DEF Becomes
    <2> QED
      BY <1>a, <1>2, <2>1, <2>2, <2>3, Proceeds DEF StepOf, Proceed, Becomes, Continue
  <1>3. ASSUME NEW g \in Goroutine, StepOf(g)
        PROVE  running'[a] = running[a] \/ StepOf(a)
    BY <1>a, <1>3, OthersWait
  <1>4. ASSUME NEW u \in Transaction, SetConflictAccepted(u)
        PROVE  running'[a] = running[a]
    BY <1>a, <1>1, <1>4, DecisionRuns
  <1>5. running'[a].at # "idle"
    BY <1>1, <1>2, <1>3, <1>4 DEF Next, StepOf, vars
  <1> QED
    BY <1>5 DEF Announced, a

LEMMA ConeStep ==
  ASSUME IInv, ConeInv, [Next]_vars
  PROVE  ConeInv'
  <1>a. RunTypes /\ StoreTypes /\ DAGInv /\ TaskInv /\ IncludeInv
    BY DEF IInv, TypeOK, RunTypes, StoreTypes
  <1>1. ASSUME NEW t \in Transaction, transactionState'[t] = "Accepted"
        PROVE  \/ ConflictsAccepted(t)'
               \/ \E c \in Transaction : Announced(c)' /\ t \in FutureCone(c)
    <2>1. CASE transactionState[t] = "Accepted"
      BY <1>a, <2>1, DecisionsStay, AnnouncedStays DEF ConeInv, AcceptedByThePast
    <2>2. CASE transactionState[t] # "Accepted"
      <3>1. PICK g \in Goroutine : TriggerAcceptedEvent(g) /\ running[g].tx = t
        BY <1>1, <2>2, StateChanges
      <3>2. running[g].at = "accept"
        BY <3>1 DEF TriggerAcceptedEvent, At
      <3>3. CASE \E u \in Transaction : \E i \in InclusionEpochs[u] : g = <<"include", u, i>>
        <4>1. ConflictsAccepted(t)
          BY <1>a, <3>1, <3>2, <3>3 DEF ConeInv, IncludeInv
        <4> QED
          BY <1>a, <4>1, DecisionsStay
      <3>4. ASSUME NEW c \in Transaction, g = <<"accept", c, 0>>
            PROVE  Announced(c)' /\ t \in FutureCone(c)
        <4>1. Announced(c) /\ Meets(<<"accept", c, 0>>, t)
          BY <3>1, <3>2, <3>4 DEF Announced, Meets
        <4> QED
          BY <4>1, AnnouncedStays DEF ConeInv
      <3>5. ~\E c \in Transaction : g = <<"reject", c, 0>>
        BY <1>a, <3>2 DEF TaskInv
      <3> QED
        BY <3>3, <3>4, <3>5, Goroutines
    <2> QED
      BY <2>1, <2>2
  <1>2. ASSUME NEW c \in Transaction, NEW a, a = <<"accept", c, 0>>, NEW t \in Transaction, Meets(a, t)'
        PROVE  t \in FutureCone(c)
    <2>a. a \in Goroutine /\ a[1] = "accept"
      BY <1>2, Goroutines
    <2>b. \A u \in Transaction : Meets(a, u) => u \in FutureCone(c)
      BY <1>2 DEF ConeInv
    <2>c. /\ running[a].seen \subseteq Transaction /\ running[a].walk \subseteq running[a].seen
          /\ running[a].at \notin {"idle", "done"} => running[a].tx \in Transaction
      BY <1>a, <2>a DEF RunTypes, LocalState
    <2>1. CASE running'[a] = running[a]
      BY <1>2, <2>b, <2>1 DEF Meets
    <2>2. CASE Proceed(a)
      <3>1. running[a].at \notin {"idle", "done"}
        BY <2>2 DEF Proceed, TriggerAcceptedEvent, AcceptOutputs, StoreTransaction, ReadSpentEpoch,
           StoreSpentOutputs, ReadCreatedEpoch, StoreCreatedOutputs, ReadInclusionEpoch,
           AddAcceptedTransaction, PropagateAcceptance, TriggerRejectedEvent, RejectOutputs,
           PropagateRejection, At
      <3>2. running[a].at \notin {"reject", "rejectOutputs"}
        BY <1>a, <1>2 DEF TaskInv, Announcing
      <3>3. \A u \in running[a].seen \union {running[a].tx} : u \in FutureCone(c)
        BY <2>b, <2>c, <3>1 DEF Meets
      <3>4. \A u \in Unseen(a) : u \in FutureCone(c)
        BY <3>3, ConesAreClosed DEF Unseen
      <3>5. \/ /\ running'[a].tx = running[a].tx
               /\ running'[a].seen \in {running[a].seen, running[a].seen \union Unseen(a)}
            \/ running'[a].tx \in running[a].walk /\ running'[a].seen = running[a].seen
        <4>1. ~(TriggerRejectedEvent(a) \/ RejectOutputs(a) \/ PropagateRejection(a))
          BY <2>a, <3>2 DEF TriggerRejectedEvent, RejectOutputs, PropagateRejection, At
        <4> QED
          BY <1>a, <2>a, <2>2, <4>1, Proceeds DEF Proceed, StoreTransaction, Becomes
      <3> QED
        BY SMTT(20), <1>2, <2>c, <3>3, <3>4, <3>5 DEF Meets
    <2>3. ~SetTransactionInclusionEpoch(a)
      BY <2>a, OnlyBlocksInclude
    <2>4. ASSUME NEW g \in Goroutine, StepOf(g)
          PROVE  running'[a] = running[a] \/ StepOf(a)
      BY <1>a, <2>a, <2>4, OthersWait
    <2>5. ASSUME NEW u \in Transaction, SetConflictAccepted(u)
          PROVE  running'[a] = running[a] \/ (running'[a].tx = c /\ running'[a].seen = {})
      BY <1>a, <1>2, <2>5, DecisionStarts DEF NotRunning
    <2>6. CASE running'[a].tx = c /\ running'[a].seen = {}
      BY <1>2, <2>6, ConesAreClosed DEF Meets
    <2> QED
      BY <2>1, <2>2, <2>3, <2>4, <2>5, <2>6 DEF Next, StepOf, vars
  <1>3. ASSUME NEW t \in Transaction, NEW i \in InclusionEpochs[t], NEW g, g = <<"include", t, i>>,
               running'[g].at = "accept"
        PROVE  ConflictsAccepted(t)'
    <2>a. g \in Goroutine
      BY <1>3, Goroutines
    <2>1. CASE running'[g] = running[g]
      BY <1>a, <1>3, <2>1, DecisionsStay DEF ConeInv
    <2>2. ~Proceed(g)
      <3>1. ~PropagateAcceptance(g)
        BY <1>3 DEF PropagateAcceptance
      <3>2. ~PropagateRejection(g)
        BY <1>3 DEF PropagateRejection
      <3>3. ~StoreTransaction(g)
        BY <1>a, <1>3, <2>a, StoringSteps
      <3> QED
        BY <1>a, <1>3, <2>a, <3>1, <3>2, <3>3, Proceeds DEF Proceed, Becomes, Continue
    <2>3. CASE SetTransactionInclusionEpoch(g)
      <3>1. \A at : Go(g, at) => running'[g].at = at
        BY <1>a, <2>a DEF Go, RunTypes, LocalState
      <3>2. SetInclusionEpoch(g, t, i) => running'[g].at # "accept"
        BY <1>a, <2>a, <3>1 DEF SetInclusionEpoch, RunTypes, NotRunning
      <3>3. AcceptIfConflictsAccepted(g, t, i)
        <4>1. ~(\/ SetOutputsInclusionEpoch(g, t, i) \/ MoveTransactionToOtherEpoch(g, t, i)
                \/ UpdateTransactionInclusion(g, t, i))
          BY <1>3, <3>1
          DEF SetOutputsInclusionEpoch, MoveTransactionToOtherEpoch, UpdateTransactionInclusion
        <4> QED
          BY <1>3, <2>3, <3>2, <4>1, IncludeSteps
      <3>4. ConflictsAccepted(t)
        BY <1>3, <3>1, <3>3 DEF AcceptIfConflictsAccepted
      <3> QED
        BY <1>a, <3>4, DecisionsStay
    <2>4. ASSUME NEW h \in Goroutine, StepOf(h)
          PROVE  running'[g] = running[g] \/ StepOf(g)
      BY <1>a, <2>a, <2>4, OthersWait
    <2>5. ASSUME NEW u \in Transaction, SetConflictAccepted(u)
          PROVE  running'[g] = running[g]
      BY <1>a, <1>3, <2>5, DecisionStarts
    <2> QED
      BY <2>1, <2>2, <2>3, <2>4, <2>5 DEF Next, StepOf, vars
  <1>4. AcceptedByThePast'
    BY <1>1 DEF AcceptedByThePast
  <1>5. \A c, t \in Transaction : Meets(<<"accept", c, 0>>, t)' => t \in FutureCone(c)
    BY <1>2
  <1> QED
    BY <1>3, <1>4, <1>5 DEF ConeInv

(* A transaction is accepted too early only in the future cone of an       *)
(* announced conflict: one with undecided conflicts and no accepted past   *)
(* waits (SetTransactionInclusionEpoch, triggerAcceptedEvent,              *)
(* propagateAcceptanceToIncludedTransactions).                             *)
THEOREM AcceptanceComesFromThePast == Spec => []AcceptedByThePast
  <1>1. Init => ConeInv
    <2> SUFFICES ASSUME Init
                 PROVE  ConeInv
      OBVIOUS
    <2>1. \A g \in Goroutine : running[g] = NotRunning
      BY DEF Init
    <2> QED
      BY <2>1, Goroutines DEF Init, ConeInv, AcceptedByThePast, Meets, NotRunning
  <1>2. IInv /\ ConeInv /\ [Next]_vars => ConeInv'
    BY ConeStep
  <1>3. ConeInv => AcceptedByThePast
    BY DEF ConeInv
  <1> QED
    BY <1>1, <1>2, <1>3, Inductive, PTL DEF Spec
=============================================================================
