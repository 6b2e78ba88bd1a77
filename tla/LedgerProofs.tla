---------------------------- MODULE LedgerProofs ----------------------------
(***************************************************************************)
(* Theorems about the ledger, for any set of transactions and any          *)
(* interleaving: it implements the ConflictDAG, every double spend is      *)
(* noticed, none is accepted, and before the first decision every future   *)
(* cone inherits the forks of its past.                                    *)
(*                                                                         *)
(* The argument.  Whoever spends an output after somebody else creates its *)
(* own conflict and forks the first spender before it is booked            *)
(* (Noticed), and only booked transactions are accepted.  So whenever the  *)
(* ledger adds an accepted conflict to another conflict set, the accepted  *)
(* members of that set compete with it already; and forks only move        *)
(* conflicts along the inputs, from which no cycle arises.  These two are  *)
(* what the module ConflictDAG assumes of its caller.                      *)
(***************************************************************************)
EXTENDS Ledger, TLAPS

ConflictDAG == INSTANCE ConflictDAGProofs WITH
  ConflictID <- TransactionID, ResourceID <- OutputID

-----------------------------------------------------------------------------
(* The first spender a goroutine is forking.                               *)
Forked(t) == Head(booking[t].consumersToFork)

Forking(t) == Running(t, "update") \/ Running(t, "propagate")

(* A goroutine that runs holds the entry of its transaction; while it      *)
(* updates the transaction it forks it holds that entry too.               *)
LockInv ==
  \A t \in TransactionID :
    /\ Running(t, "idle") <=> mutex[t] # t
    /\ mutex[t] \notin {t, EmptyTransactionID} =>
         Running(mutex[t], "update") /\ Forked(mutex[t]) = t
    /\ Running(t, "idle") \/ Running(t, "check") =>
         booking[t] = [NotRunning EXCEPT !.at = booking[t].at]
    /\ ~Running(t, "idle") => t \in stored /\ t \notin booked
    /\ Forking(t) => booking[t].consumersToFork # <<>> /\ Forked(t) \in booked
    /\ Running(t, "update") => mutex[Forked(t)] = t

-----------------------------------------------------------------------------
(* The past cone of a transaction, itself included.                        *)
PastOf(t) == Ancestors[t] \union {t}

(* Conflicts are inherited along the inputs, and only from what is booked. *)
KnownConflicts == {c \in booked : DAG!Exists(c)}

ConeInv ==
  /\ \A o \in OutputID : \A c \in consumers[o] : c \in stored /\ o \in InputIDs(c)
  /\ \A t \in TransactionID :
       /\ conflictIDs[t] \subseteq PastOf(t) \intersect KnownConflicts
       /\ parents[t] \subseteq Ancestors[t] \intersect booked
       /\ conflictSetIDs[t] \subseteq InputIDs(t)
       /\ DAG!IsAccepted(t) => t \in booked
       /\ booking[t].parentConflicts \subseteq Ancestors[t] \intersect KnownConflicts
  /\ \A o \in OutputID : \A c \in outputConflictIDs[o] :
       c \in KnownConflicts /\ \E t \in TransactionID : o \in Outputs[t] /\ c \in PastOf(t)

(* The walk of a fork stays in the future cone of what is forked.          *)
WalkInv ==
  \A t \in TransactionID : Running(t, "propagate") =>
    /\ \A c \in booking[t].visiting : Forked(t) \in Ancestors[c]
    /\ \A o \in booking[t].walk :
         \E c \in TransactionID : o \in Outputs[c] /\ Forked(t) \in PastOf(c)

-----------------------------------------------------------------------------
(* The first spender of an output is known, and if it is another one, both *)
(* are conflicts.                                                          *)
Noticed(t, o) ==
  /\ firstConsumer[o] # EmptyTransactionID
  /\ firstConsumer[o] = t \/ {t, firstConsumer[o]} \subseteq members[o]

(* The first spenders that a goroutine has not forked yet.                 *)
ToFork(t) ==
  ToSet(IF Forking(t) THEN Tail(booking[t].consumersToFork) ELSE booking[t].consumersToFork)

SpenderInv ==
  /\ \A o \in OutputID : firstConsumer[o] # EmptyTransactionID =>
       /\ o \in InputIDs(firstConsumer[o])
       /\ \/ firstConsumer[o] \in booked
          \/ booking[firstConsumer[o]].at \notin {"idle", "check"}
  /\ \A t \in booked : \A o \in InputIDs(t) : Noticed(t, o)

(* What a goroutine has registered, and has to fork.                       *)
Registered(t) ==
  /\ booking[t].registered <= Len(Inputs[t])
  /\ \A i \in 1..booking[t].registered :
       /\ firstConsumer[Inputs[t][i]] # EmptyTransactionID
       /\ firstConsumer[Inputs[t][i]] = t \/ Inputs[t][i] \in booking[t].conflictingInputs
  /\ \A o \in booking[t].conflictingInputs :
       /\ o \in InputIDs(t) /\ firstConsumer[o] # EmptyTransactionID
       /\ firstConsumer[o] \in ToFork(t) \/ firstConsumer[o] \in members[o]
       /\ Running(t, "register") \/ t \in members[o]
  /\ \A f \in ToSet(booking[t].consumersToFork) :
       \E o \in booking[t].conflictingInputs : firstConsumer[o] = f
  /\ Running(t, "register") \/ /\ booking[t].registered = Len(Inputs[t])
                               /\ booking[t].conflictingInputs # {}

RegisterInv ==
  \A t \in TransactionID : booking[t].at \notin {"idle", "check"} => Registered(t)

(* The transaction that is forked is a conflict, and a new one until its   *)
(* metadata is updated.                                                    *)
ForkInv ==
  \A t \in TransactionID :
    /\ Forking(t) => DAG!Exists(Forked(t)) /\ Forked(t) \notin booking[t].previousParents
    /\ Running(t, "update") => Forked(t) \notin conflictIDs[Forked(t)]

IInv ==
  /\ TypeOK /\ LockInv
  /\ DAG!ReferencesMirrored /\ DAG!AtMostOneAccepted
  /\ ConeInv /\ WalkInv /\ SpenderInv /\ RegisterInv /\ ForkInv

-----------------------------------------------------------------------------
(* Facts about sequences.                                                  *)
LEMMA SequenceFacts ==
  ASSUME NEW S, NEW s \in Seq(S)
  PROVE  /\ ToSet(s) \subseteq S
         /\ s # <<>> => /\ Head(s) \in S /\ Tail(s) \in Seq(S)
                       /\ ToSet(s) = {Head(s)} \union ToSet(Tail(s))
  <1>1. ToSet(s) \subseteq S
    BY DEF ToSet
  <1>2. ASSUME s # <<>>
        PROVE  /\ Head(s) \in S /\ Tail(s) \in Seq(S)
               /\ ToSet(s) = {Head(s)} \union ToSet(Tail(s))
    <2>1. /\ Head(s) \in S /\ Tail(s) \in Seq(S)
          /\ Len(s) >= 1 /\ Len(Tail(s)) = Len(s) - 1
          /\ DOMAIN Tail(s) = 1..Len(Tail(s))
      BY <1>2
    <2>2. ToSet(s) \subseteq {Head(s)} \union ToSet(Tail(s))
      <3> SUFFICES ASSUME NEW i \in 1..Len(s), i # 1
                   PROVE  s[i] \in ToSet(Tail(s))
        BY <2>1 DEF ToSet
      <3>1. i - 1 \in 1..Len(Tail(s)) /\ Tail(s)[i - 1] = s[i]
        BY <2>1
      <3> QED
        BY <3>1, <2>1, Zenon DEF ToSet
    <2>3. {Head(s)} \union ToSet(Tail(s)) \subseteq ToSet(s)
      <3>1. \A i \in 1..Len(Tail(s)) : Tail(s)[i] = s[i + 1] /\ i + 1 \in 1..Len(s)
        BY <2>1
      <3> QED
        BY <3>1, <2>1 DEF ToSet
    <2> QED
      BY <2>1, <2>2, <2>3
  <1> QED
    BY <1>1, <1>2

LEMMA AppendFacts ==
  ASSUME NEW S, NEW s \in Seq(S), NEW x \in S
  PROVE  /\ Append(s, x) \in Seq(S)
         /\ ToSet(Append(s, x)) = ToSet(s) \union {x}
         /\ Contains(s, x) => x \in ToSet(s)
  <1>1. Append(s, x) \in Seq(S) /\ Len(Append(s, x)) = Len(s) + 1
    OBVIOUS
  <1>2. \A i \in 1..Len(s) : Append(s, x)[i] = s[i]
    OBVIOUS
  <1>3. Append(s, x)[Len(s) + 1] = x
    OBVIOUS
  <1>4. ToSet(Append(s, x)) = ToSet(s) \union {x}
    BY <1>1, <1>2, <1>3 DEF ToSet
  <1>5. Contains(s, x) => x \in ToSet(s)
    BY DEF Contains, ToSet
  <1> QED
    BY <1>1, <1>4, <1>5

LEMMA InputsAreOutputs ==
  ASSUME NEW t \in TransactionID
  PROVE  Inputs[t] \in Seq(OutputID) /\ InputIDs(t) \subseteq OutputID
  BY LedgerConstants, SequenceFacts DEF InputIDs

(* A walk visits what every set visits that holds its start and is closed. *)
LEMMA WalkIsIntersection ==
  ASSUME NEW start \in SUBSET TransactionID,
         NEW succ \in [TransactionID -> SUBSET TransactionID]
  PROVE  DAG!Closure(start, succ) =
           {c \in TransactionID : \A S \in SUBSET TransactionID :
              start \subseteq S /\ (\A x \in S : succ[x] \subseteq S) => c \in S}
  <1>1. DAG!Closure(start, succ) = ConflictDAG!Closure(start, succ)
    BY DEF DAG!Closure, ConflictDAG!Closure
  <1> QED
    BY <1>1, ConflictDAG!ClosureIsIntersection

-----------------------------------------------------------------------------
(* The past cones.                                                         *)
LEMMA AncestorFacts ==
  /\ Ancestors \in [TransactionID -> SUBSET TransactionID]
  /\ \A t \in TransactionID : t \notin Ancestors[t]
  /\ \A t, u \in TransactionID : t \in Ancestors[u] => Ancestors[t] \subseteq Ancestors[u]
  /\ \A t, u \in TransactionID : \A o \in OutputID :
       o \in Outputs[t] /\ o \in InputIDs(u) => t \in Ancestors[u]
  <1> DEFINE succ == [u \in TransactionID |-> Predecessors(u)]
  <1>0. /\ succ \in [TransactionID -> SUBSET TransactionID]
        /\ \A u \in TransactionID : Predecessors(u) \in SUBSET TransactionID
    BY DEF Predecessors
  <1>1. Ancestors \in [TransactionID -> SUBSET TransactionID]
    BY <1>0, WalkIsIntersection DEF Ancestors
  <1>2. \A t \in TransactionID : t \notin Ancestors[t]
    BY InputsAreOlder
  <1>3. ASSUME NEW t \in TransactionID
        PROVE  Ancestors[t] = {c \in TransactionID : \A S \in SUBSET TransactionID :
                 Predecessors(t) \subseteq S /\ (\A x \in S : Predecessors(x) \subseteq S)
                   => c \in S}
    <2>1. Ancestors[t] = DAG!Closure(Predecessors(t), succ)
      BY DEF Ancestors
    <2>2. \A x \in TransactionID : succ[x] = Predecessors(x)
      OBVIOUS
    <2> HIDE DEF succ
    <2>3. Predecessors(t) \in SUBSET TransactionID
      BY <1>0
    <2>4. \A S \in SUBSET TransactionID :
            (\A x \in S : succ[x] \subseteq S) <=> (\A x \in S : Predecessors(x) \subseteq S)
      BY <2>2
    <2> QED
      BY <1>0, <2>1, <2>3, <2>4, WalkIsIntersection
  <1>4. ASSUME NEW t \in TransactionID, NEW u \in TransactionID, t \in Ancestors[u]
        PROVE  Ancestors[t] \subseteq Ancestors[u]
    <2> SUFFICES ASSUME NEW c \in Ancestors[t], NEW S \in SUBSET TransactionID,
                        Predecessors(u) \subseteq S,
                        \A x \in S : Predecessors(x) \subseteq S
                 PROVE  c \in S
      BY <1>3, <1>1
    <2>1. t \in S
      BY <1>3, <1>4
    <2> QED
      BY <1>3, <2>1
  <1>5. ASSUME NEW t \in TransactionID, NEW u \in TransactionID, NEW o \in OutputID,
               o \in Outputs[t], o \in InputIDs(u)
        PROVE  t \in Ancestors[u]
    <2>1. t \in Predecessors(u)
      BY <1>5 DEF Predecessors
    <2> QED
      BY <1>3, <2>1
  <1> QED
    BY <1>1, <1>2, <1>4, <1>5

-----------------------------------------------------------------------------
(* What the goroutine of t is about to fork.                               *)
LEMMA ForkedFacts ==
  ASSUME TypeOK, NEW t \in TransactionID, booking[t].consumersToFork # <<>>
  PROVE  /\ Forked(t) \in TransactionID
         /\ Forked(t) \in ToSet(booking[t].consumersToFork)
         /\ Tail(booking[t].consumersToFork) \in Seq(TransactionID)
         /\ ToSet(booking[t].consumersToFork) =
              {Forked(t)} \union ToSet(Tail(booking[t].consumersToFork))
  <1>1. booking[t].consumersToFork \in Seq(TransactionID)
    BY DEF TypeOK, Goroutine
  <1> QED
    BY <1>1, SequenceFacts DEF Forked

(* A transaction that is about to be forked, its entry being free, is      *)
(* booked and was the first to spend an input in dispute.                  *)
LEMMA ForkedIsBooked ==
  ASSUME IInv, NEW t \in TransactionID, Running(t, "fork"),
         booking[t].consumersToFork # <<>>,
         mutex[Forked(t)] = EmptyTransactionID
  PROVE  /\ Forked(t) \in TransactionID /\ Forked(t) \in booked /\ Forked(t) # t
         /\ \E o \in booking[t].conflictingInputs :
              o \in InputIDs(Forked(t)) /\ firstConsumer[o] = Forked(t)
  <1>1. /\ Forked(t) \in TransactionID
        /\ Forked(t) \in ToSet(booking[t].consumersToFork)
    BY ForkedFacts DEF IInv
  <1>2. PICK o \in booking[t].conflictingInputs : firstConsumer[o] = Forked(t)
    BY <1>1 DEF IInv, RegisterInv, Registered, Running
  <1>3. o \in OutputID
    BY <1>2 DEF IInv, TypeOK, Goroutine
  <1>4. o \in InputIDs(Forked(t)) /\ (Forked(t) \in booked \/ ~Running(Forked(t), "idle"))
    BY <1>1, <1>2, <1>3, LedgerConstants DEF IInv, SpenderInv, Running
  <1>5. mutex[Forked(t)] # Forked(t)
    BY <1>1, LedgerConstants
  <1>6. Running(Forked(t), "idle")
    BY <1>1, <1>5 DEF IInv, LockInv
  <1>7. Forked(t) # t
    BY <1>6 DEF Running
  <1> QED
    BY <1>1, <1>2, <1>4, <1>6, <1>7

(* A fork moves a conflict below one of its past cone: no cycle.           *)
LEMMA ForksFollowInputs ==
  ASSUME IInv, NEW c \in TransactionID, NEW f \in TransactionID, f \in Ancestors[c]
  PROVE  f \notin DAG!Closure({c}, children)
  <1> DEFINE S == {x \in TransactionID : x = c \/ c \in Ancestors[x]}
  <1>1. f \notin S
    BY AncestorFacts
  <1>2. ASSUME NEW x \in S, NEW y \in children[x]
        PROVE  y \in S
    <2>1. y \in TransactionID
      BY DEF IInv, TypeOK, DAG!TypeOK
    <2>2. x \in Ancestors[y]
      BY <2>1 DEF IInv, DAG!ReferencesMirrored, ConeInv
    <2> QED
      BY <2>1, <2>2, AncestorFacts
  <1>3. \A x \in S : children[x] \subseteq S
    BY <1>2
  <1>4. {c} \subseteq S /\ S \in SUBSET TransactionID
    OBVIOUS
  <1>5. children \in [TransactionID -> SUBSET TransactionID]
    BY DEF IInv, TypeOK, DAG!TypeOK
  <1>6. {c} \in SUBSET TransactionID
    OBVIOUS
  <1> HIDE DEF S
  <1>7. DAG!Closure({c}, children) \subseteq S
    BY <1>3, <1>4, <1>5, <1>6, WalkIsIntersection
  <1> QED
    BY <1>1, <1>7

-----------------------------------------------------------------------------
(* The steps that change the ConflictDAG, the references to consumers, the *)
(* first consumers, the metadata and the set of booked transactions.       *)
LEMMA WhoChangesWhat ==
  ASSUME NEW t \in TransactionID, Store(t) \/ Process(t) \/ EventLoop(t) \/ AcceptConflict(t)
  PROVE  /\ \/ UNCHANGED conflictVars
            \/ CreateOwnConflict(t) \/ ForkTransaction(t) \/ JoinConflictSets(t)
            \/ UpdateForkedTransaction(t) \/ PropagateToConsumer(t) \/ AcceptConflict(t)
         /\ \/ UNCHANGED <<conflictIDs, outputConflictIDs>>
            \/ UpdateForkedTransaction(t) \/ PropagateToConsumer(t) \/ BookTransaction(t)
         /\ UNCHANGED firstConsumer \/ RegisterBookedConsumer(t)
         /\ UNCHANGED <<stored, consumers>> \/ Store(t)
         /\ UNCHANGED booked \/ BookTransaction(t)
         /\ stored \subseteq stored' /\ booked \subseteq booked'
  <1> USE DEF metadataVars
  <1>1. CASE Store(t)
    BY <1>1, Zenon DEF Store
  <1>2. CASE Unsolid(t) \/ InheritConflictIDs(t)
    BY <1>2, Zenon DEF Unsolid, InheritConflictIDs
  <1>3. CASE RegisterBookedConsumer(t)
    BY <1>3, Zenon DEF RegisterBookedConsumer
  <1>4. CASE CreateOwnConflict(t) \/ ForkTransaction(t) \/ JoinConflictSets(t)
    BY <1>4, Zenon DEF CreateOwnConflict, ForkTransaction, JoinConflictSets
  <1>5. CASE UpdateForkedTransaction(t) \/ PropagateToConsumer(t)
    BY <1>5, Zenon DEF UpdateForkedTransaction, PropagateToConsumer
  <1>6. CASE VisitOutput(t) \/ FinishFork(t)
    BY <1>6, Zenon DEF VisitOutput, FinishFork
  <1>7. CASE BookTransaction(t)
    BY <1>7, Zenon DEF BookTransaction
  <1>8. CASE ProcessConsumingTransactions(t) \/ ProcessTransaction(t)
    BY <1>8, Zenon DEF ProcessConsumingTransactions, ProcessTransaction
  <1>9. CASE AcceptConflict(t)
    BY <1>9, Zenon DEF AcceptConflict
  <1> QED
    BY <1>1, <1>2, <1>3, <1>4, <1>5, <1>6, <1>7, <1>8, <1>9, Zenon DEF Process, EventLoop

-----------------------------------------------------------------------------
(* The calls of the ledger are calls the ConflictDAG expects.              *)

(* The parents of a new conflict are stored conflicts, and it competes for *)
(* an input at least.                                                      *)
LEMMA OwnConflictIsCreated ==
  ASSUME IInv, NEW t \in TransactionID, CreateOwnConflict(t)
  PROVE  DAG!Create
  <1>1. booking[t].parentConflicts \in SUBSET DAG!Stored
    BY DEF IInv, ConeInv, KnownConflicts, DAG!Stored, TypeOK
  <1>2. booking[t].conflictingInputs \in (SUBSET OutputID) \ {{}}
    BY DEF IInv, TypeOK, Goroutine, CreateOwnConflict
  <1>3. DAG!CreateConflict(t, booking[t].parentConflicts, booking[t].conflictingInputs)
    BY DEF CreateOwnConflict
  <1> QED
    BY <1>1, <1>2, <1>3 DEF DAG!Create

LEMMA ForkedConflictIsCreated ==
  ASSUME IInv, NEW t \in TransactionID, ForkTransaction(t)
  PROVE  DAG!Create
  <1>1. /\ Forked(t) \in TransactionID
        /\ InputIDs(Forked(t)) \intersect booking[t].conflictingInputs # {}
    BY ForkedIsBooked DEF ForkTransaction, Forked
  <1>2. conflictIDs[Forked(t)] \in SUBSET DAG!Stored
    BY <1>1 DEF IInv, ConeInv, KnownConflicts, DAG!Stored, TypeOK
  <1>3. InputIDs(Forked(t)) \intersect booking[t].conflictingInputs \in (SUBSET OutputID) \ {{}}
    BY <1>1, InputsAreOutputs
  <1>4. DAG!CreateConflict(Forked(t), conflictIDs[Forked(t)],
                           InputIDs(Forked(t)) \intersect booking[t].conflictingInputs)
    BY DEF ForkTransaction, Forked
  <1> QED
    BY <1>1, <1>2, <1>3, <1>4 DEF DAG!Create

(* Two booked spenders of an output, one of which is a member of its       *)
(* conflict set, are both members.                                         *)
LEMMA BothAreMembers ==
  ASSUME IInv, NEW t \in booked, NEW u \in booked, NEW o \in OutputID,
         o \in InputIDs(t), o \in InputIDs(u), t # u
  PROVE  t \in members[o] /\ u \in members[o]
  BY DEF IInv, SpenderInv, Noticed

(* An accepted conflict that joins a conflict set finds no accepted member *)
(* there: that one is booked, and by then both had been told apart.        *)
LEMMA JoinedSetsAreGuarded ==
  ASSUME IInv, NEW t \in TransactionID, JoinConflictSets(t)
  PROVE  DAG!ForkResources
  <1> DEFINE f == Forked(t)
             resourceIDs == InputIDs(f) \intersect booking[t].conflictingInputs
  <1>1. f \in TransactionID /\ f \in booked /\ resourceIDs # {}
    BY ForkedIsBooked DEF JoinConflictSets, Forked
  <1>2. resourceIDs \in (SUBSET OutputID) \ {{}}
    BY <1>1, InputsAreOutputs
  <1>3. DAG!UpdateConflictingResources(f, resourceIDs)
    BY DEF JoinConflictSets, Forked
  <1>4. f \in DAG!Stored
    BY <1>1, <1>3 DEF DAG!UpdateConflictingResources, DAG!Stored
  <1>5. ASSUME DAG!IsAccepted(f), NEW r \in resourceIDs, NEW c \in members[r] \ {f},
               DAG!IsAccepted(c)
        PROVE  FALSE
    <2>1. r \in OutputID /\ r \in InputIDs(f)
      BY <1>2
    <2>2. c \in TransactionID /\ r \in conflictSetIDs[c]
      BY <1>5, <2>1 DEF IInv, TypeOK, DAG!TypeOK, DAG!ReferencesMirrored
    <2>3. c \in booked /\ r \in InputIDs(c)
      BY <1>5, <2>2 DEF IInv, ConeInv
    <2>4. f \in members[r]
      BY <1>1, <1>5, <2>1, <2>3, BothAreMembers
    <2>5. f \in DAG!Conflicting(c)
      BY <1>1, <1>5, <2>2, <2>4 DEF DAG!Conflicting
    <2> QED
      BY <1>5, <2>2, <2>5 DEF IInv, DAG!AtMostOneAccepted
  <1> QED
    BY <1>2, <1>3, <1>4, <1>5 DEF DAG!ForkResources

(* The forked transaction itself never has its parents updated.            *)
LEMMA ForkedKeepsParents ==
  ASSUME IInv, NEW t \in TransactionID, UpdateForkedTransaction(t)
  PROVE  /\ UNCHANGED conflictVars
         /\ UpdatesConflictIDs(Forked(t), Forked(t))
  <1>1. Running(t, "update")
    BY DEF UpdateForkedTransaction
  <1>2. Forked(t) \notin conflictIDs[Forked(t)]
    BY <1>1 DEF IInv, ForkInv
  <1>3. ~IsConflicting(Forked(t))
    BY <1>2 DEF IsConflicting
  <1> QED
    BY <1>2, <1>3 DEF UpdateForkedTransaction, UpdateConflictsAfterFork,
                      UpdatesConflictIDs, Forked

(* A fork moves a conflict below a conflict of its past cone.              *)
LEMMA PropagationFollowsInputs ==
  ASSUME IInv, NEW t \in TransactionID, PropagateToConsumer(t)
  PROVE  UNCHANGED conflictVars \/ DAG!ForkParents
  <1>1. Running(t, "propagate") /\ Forking(t)
    BY DEF PropagateToConsumer, Forking
  <1>2. PICK c \in booking[t].visiting :
          UpdateConflictsAfterFork(c, Forked(t), booking[t].previousParents)
    BY DEF PropagateToConsumer, Forked
  <1>3. SUFFICES ASSUME DAG!UpdateConflictParents(c, booking[t].previousParents, Forked(t))
                 PROVE  DAG!ForkParents
    BY <1>2 DEF UpdateConflictsAfterFork
  <1>4. c \in TransactionID /\ booking[t].previousParents \subseteq TransactionID
    BY DEF IInv, TypeOK, Goroutine
  <1>5. Forked(t) \in TransactionID
    BY <1>1, ForkedFacts DEF IInv, LockInv
  <1>6. DAG!Exists(Forked(t)) /\ Forked(t) \notin booking[t].previousParents
    BY <1>1 DEF IInv, ForkInv
  <1>7. Forked(t) \notin DAG!Closure({c}, children)
    BY <1>1, <1>4, <1>5, ForksFollowInputs DEF IInv, WalkInv
  <1>8. c \in DAG!Stored /\ Forked(t) \in DAG!Stored
    BY <1>3, <1>4, <1>5, <1>6 DEF DAG!UpdateConflictParents, DAG!Stored
  <1> QED
    BY <1>3, <1>4, <1>6, <1>7, <1>8 DEF DAG!ForkParents

(* Every step of the ledger is a step of the ConflictDAG or leaves it      *)
(* alone.                                                                  *)
LEMMA DAGStep ==
  IInv /\ [Next]_vars => UNCHANGED conflictVars \/ DAG!Next
  <1> SUFFICES ASSUME IInv, Next
               PROVE  UNCHANGED conflictVars \/ DAG!Next
    BY DEF vars
  <1>1. PICK t \in TransactionID :
          Store(t) \/ Process(t) \/ EventLoop(t) \/ AcceptConflict(t)
    BY DEF Next
  <1>2. CASE CreateOwnConflict(t)
    BY <1>2, OwnConflictIsCreated DEF DAG!Next
  <1>3. CASE ForkTransaction(t)
    BY <1>3, ForkedConflictIsCreated DEF DAG!Next
  <1>4. CASE JoinConflictSets(t)
    BY <1>4, JoinedSetsAreGuarded DEF DAG!Next
  <1>5. CASE UpdateForkedTransaction(t)
    BY <1>5, ForkedKeepsParents
  <1>6. CASE PropagateToConsumer(t)
    BY <1>6, PropagationFollowsInputs DEF DAG!Next
  <1>7. CASE AcceptConflict(t)
    <2>1. DAG!SetConflictAccepted(t)
      BY <1>7, Zenon DEF AcceptConflict
    <2>2. t \in DAG!Stored
      BY <2>1 DEF DAG!SetConflictAccepted, DAG!Stored
    <2> QED
      BY <2>1, <2>2 DEF DAG!Accept, DAG!Next
  <1> QED
    BY <1>1, <1>2, <1>3, <1>4, <1>5, <1>6, <1>7, WhoChangesWhat

-----------------------------------------------------------------------------
(* The theorems about the ConflictDAG speak of the ledger's.               *)
LEMMA SameStates ==
  /\ DAG!Undefined = ConflictDAG!Undefined /\ DAG!Rejected = ConflictDAG!Rejected
  /\ DAG!Pending = ConflictDAG!Pending /\ DAG!Accepted = ConflictDAG!Accepted
  BY DEF DAG!Undefined, ConflictDAG!Undefined, DAG!Rejected, ConflictDAG!Rejected,
         DAG!Pending, ConflictDAG!Pending, DAG!Accepted, ConflictDAG!Accepted

LEMMA SameInvariants ==
  /\ DAG!TypeOK <=> ConflictDAG!TypeOK
  /\ DAG!ReferencesMirrored <=> ConflictDAG!ReferencesMirrored
  /\ DAG!AtMostOneAccepted <=> ConflictDAG!AtMostOneAccepted
  /\ DAG!TypeOK' <=> ConflictDAG!TypeOK'
  /\ DAG!ReferencesMirrored' <=> ConflictDAG!ReferencesMirrored'
  /\ DAG!AtMostOneAccepted' <=> ConflictDAG!AtMostOneAccepted'
  BY SameStates
  DEF DAG!TypeOK, ConflictDAG!TypeOK, DAG!Exists, ConflictDAG!Exists, DAG!Stored,
      ConflictDAG!Stored, DAG!ReferencesMirrored, ConflictDAG!ReferencesMirrored,
      DAG!IsAccepted, ConflictDAG!IsAccepted, DAG!Conflicting, ConflictDAG!Conflicting,
      DAG!AtMostOneAccepted, ConflictDAG!AtMostOneAccepted

LEMMA SameSteps ==
  [DAG!Next]_conflictVars <=> [ConflictDAG!Next]_(ConflictDAG!vars)
  <1> USE SameStates DEF DAG!Stored, ConflictDAG!Stored, DAG!Exists, ConflictDAG!Exists,
          DAG!IsAccepted, ConflictDAG!IsAccepted, DAG!Closure, ConflictDAG!Closure
  <1>1. DAG!Create <=> ConflictDAG!Create
    BY DEF DAG!Create, ConflictDAG!Create, DAG!CreateConflict, ConflictDAG!CreateConflict,
           DAG!RejectedAtCreation, ConflictDAG!RejectedAtCreation, DAG!IsRejected,
           ConflictDAG!IsRejected
  <1>2. DAG!ForkParents <=> ConflictDAG!ForkParents
    BY DEF DAG!ForkParents, ConflictDAG!ForkParents, DAG!UpdateConflictParents,
           ConflictDAG!UpdateConflictParents
  <1>3. DAG!ForkResources <=> ConflictDAG!ForkResources
    BY DEF DAG!ForkResources, ConflictDAG!ForkResources, DAG!UpdateConflictingResources,
           ConflictDAG!UpdateConflictingResources
  <1>4. DAG!Accept <=> ConflictDAG!Accept
    BY DEF DAG!Accept, ConflictDAG!Accept, DAG!SetConflictAccepted,
           ConflictDAG!SetConflictAccepted, DAG!NewlyAccepted, ConflictDAG!NewlyAccepted,
           DAG!NewlyRejected, ConflictDAG!NewlyRejected, DAG!IsRejected,
           ConflictDAG!IsRejected, DAG!Conflicting, ConflictDAG!Conflicting
  <1> QED
    BY <1>1, <1>2, <1>3, <1>4 DEF DAG!Next, ConflictDAG!Next, conflictVars, ConflictDAG!vars

LEMMA DAGInvStep ==
  IInv /\ [Next]_vars => DAG!TypeOK' /\ DAG!ReferencesMirrored' /\ DAG!AtMostOneAccepted'
  <1> SUFFICES ASSUME IInv, [Next]_vars
               PROVE  DAG!TypeOK' /\ DAG!ReferencesMirrored' /\ DAG!AtMostOneAccepted'
    OBVIOUS
  <1>1. [ConflictDAG!Next]_(ConflictDAG!vars)
    BY DAGStep, SameSteps
  <1>2. ConflictDAG!TypeOK /\ ConflictDAG!ReferencesMirrored /\ ConflictDAG!AtMostOneAccepted
    BY SameInvariants DEF IInv, TypeOK
  <1>3. ConflictDAG!TypeOK' /\ ConflictDAG!ReferencesMirrored' /\ ConflictDAG!AtMostOneAccepted'
    BY <1>1, <1>2, ConflictDAG!TypeStep, ConflictDAG!ReferencesStep,
       ConflictDAG!AtMostOneAcceptedStep
  <1> QED
    BY <1>3, SameInvariants

-----------------------------------------------------------------------------
(* Conflicts and the members of conflict sets stay.                        *)
LEMMA ConflictsStay ==
  ASSUME IInv, [Next]_vars
  PROVE  /\ \A o \in OutputID : members[o] \subseteq members'[o]
         /\ \A c \in TransactionID : DAG!Exists(c) => DAG!Exists(c)'
  <1>1. CASE UNCHANGED conflictVars
    BY <1>1 DEF conflictVars, DAG!Exists
  <1>2. CASE DAG!Create
    BY <1>2 DEF DAG!Create, DAG!CreateConflict, DAG!Exists, IInv, TypeOK, DAG!TypeOK,
                DAG!Rejected, DAG!Pending, DAG!Undefined
  <1>3. CASE DAG!ForkParents
    BY <1>3 DEF DAG!ForkParents, DAG!UpdateConflictParents, DAG!Exists
  <1>4. CASE DAG!ForkResources
    BY <1>4 DEF DAG!ForkResources, DAG!UpdateConflictingResources, DAG!Exists
  <1>5. CASE DAG!Accept
    BY <1>5 DEF DAG!Accept, DAG!SetConflictAccepted, DAG!Exists, DAG!Rejected, DAG!Accepted,
                DAG!Undefined
  <1> QED
    BY <1>1, <1>2, <1>3, <1>4, <1>5, DAGStep DEF DAG!Next

(* A step moves one goroutine only, to a local state of its type.          *)
LEMMA OneGoroutineMoves ==
  ASSUME IInv, NEW t \in TransactionID,
         Store(t) \/ Process(t) \/ EventLoop(t) \/ AcceptConflict(t)
  PROVE  /\ booking' = [booking EXCEPT ![t] = booking'[t]]
         /\ booking'[t] \in Goroutine
  <1>1. booking \in [TransactionID -> Goroutine] /\ booking[t] \in Goroutine
    BY DEF IInv, TypeOK
  <1>2. CASE Store(t)
    BY <1>1, <1>2 DEF Store, Goroutine
  <1>3. CASE Unsolid(t) \/ BookTransaction(t)
    <2>1. NotRunning \in Goroutine
      BY DEF NotRunning, Goroutine
    <2> QED
      BY <1>1, <1>3, <2>1 DEF Unsolid, BookTransaction
  <1>4. CASE InheritConflictIDs(t)
    <2> DEFINE inherited ==
          DAG!UnconfirmedConflicts(UNION {outputConflictIDs[o] : o \in InputIDs(t)})
    <2>1. inherited \subseteq TransactionID
      BY InputsAreOutputs DEF IInv, TypeOK, DAG!UnconfirmedConflicts
    <2>2. booking' = [booking EXCEPT ![t].at = "register", ![t].parentConflicts = inherited]
      BY <1>4 DEF InheritConflictIDs
    <2> HIDE DEF inherited
    <2> QED
      BY <1>1, <2>1, <2>2 DEF Goroutine
  <1>5. CASE RegisterBookedConsumer(t)
    <2> DEFINE i == booking[t].registered + 1
               o == Inputs[t][i]
    <2>1. booking[t].registered \in Nat /\ i \in Nat
          /\ booking[t].consumersToFork \in Seq(TransactionID)
          /\ booking[t].conflictingInputs \subseteq OutputID
      BY <1>1 DEF Goroutine
    <2>2. o \in OutputID
      <3>1. Inputs[t] \in Seq(OutputID)
        BY InputsAreOutputs
      <3>2. i <= Len(Inputs[t]) /\ 1 <= i
        <4>1. i <= Len(Inputs[t])
          BY <1>5, Zenon DEF RegisterBookedConsumer
        <4> QED
          BY <2>1, <4>1
      <3> HIDE DEF i
      <3> QED
        BY <2>1, <3>1, <3>2
    <2>3. CASE booking' = [booking EXCEPT ![t].registered = i]
      <3> HIDE DEF i
      <3> QED
        BY <1>1, <2>1, <2>3 DEF Goroutine
    <2>4. ASSUME NEW toFork \in Seq(TransactionID), NEW conflicting \in SUBSET OutputID,
                 booking' = [booking EXCEPT ![t].registered = i,
                               ![t].conflictingInputs = conflicting,
                               ![t].consumersToFork = toFork]
          PROVE  /\ booking' = [booking EXCEPT ![t] = booking'[t]]
                 /\ booking'[t] \in Goroutine
      <3> HIDE DEF i
      <3> QED
        BY <1>1, <2>1, <2>4 DEF Goroutine
    <2>5. CASE firstConsumer[o] # EmptyTransactionID
      <3> DEFINE conflicting == booking[t].conflictingInputs \union {o}
                 toFork == IF Contains(booking[t].consumersToFork, firstConsumer[o])
                           THEN booking[t].consumersToFork
                           ELSE Append(booking[t].consumersToFork, firstConsumer[o])
      <3>1. firstConsumer[o] \in TransactionID
        BY <2>2, <2>5 DEF IInv, TypeOK
      <3>2. toFork \in Seq(TransactionID) /\ conflicting \in SUBSET OutputID
        BY <2>1, <2>2, <3>1
      <3>3. booking' = [booking EXCEPT ![t].registered = i,
                          ![t].conflictingInputs = conflicting, ![t].consumersToFork = toFork]
        BY <1>5, <2>5 DEF RegisterBookedConsumer
      <3> QED
        BY <2>4, <3>2, <3>3
    <2> QED
      BY <1>5, <2>3, <2>5 DEF RegisterBookedConsumer
  <1>6. CASE CreateOwnConflict(t)
    BY <1>1, <1>6 DEF CreateOwnConflict, Goroutine
  <1>7. CASE ForkTransaction(t)
    <2>1. conflictIDs[Forked(t)] \subseteq TransactionID
      BY <1>7, ForkedFacts DEF ForkTransaction, IInv, TypeOK
    <2> HIDE DEF Forked
    <2>2. booking' = [booking EXCEPT ![t].at = "update",
                                     ![t].previousParents = conflictIDs[Forked(t)]]
      BY <1>7 DEF ForkTransaction, Forked
    <2> QED
      BY <1>1, <2>1, <2>2 DEF Goroutine
  <1>8. CASE JoinConflictSets(t) \/ FinishFork(t)
    <2> DEFINE rest == Tail(booking[t].consumersToFork)
    <2>1. rest \in Seq(TransactionID)
      BY <1>8, ForkedFacts DEF JoinConflictSets, FinishFork, Forking, IInv, LockInv
    <2>2. \/ booking' = [booking EXCEPT ![t].consumersToFork = rest]
          \/ booking' = [booking EXCEPT ![t].at = "fork", ![t].consumersToFork = rest,
                                        ![t].previousParents = {}, ![t].seen = {}]
      BY <1>8 DEF JoinConflictSets, FinishFork
    <2> HIDE DEF rest
    <2>3. CASE booking' = [booking EXCEPT ![t].consumersToFork = rest]
      BY <1>1, <2>1, <2>3 DEF Goroutine
    <2>4. CASE booking' = [booking EXCEPT ![t].at = "fork", ![t].consumersToFork = rest,
                                          ![t].previousParents = {}, ![t].seen = {}]
      BY <1>1, <2>1, <2>4 DEF Goroutine
    <2> QED
      BY <2>2, <2>3, <2>4
  <1>9. CASE UpdateForkedTransaction(t)
    <2> DEFINE outputs == OutputIDs(Forked(t))
    <2>1. outputs \subseteq OutputID
      BY <1>9, ForkedFacts, LedgerConstants
      DEF UpdateForkedTransaction, Forking, IInv, LockInv, OutputIDs
    <2>2. booking' = [booking EXCEPT ![t].at = "propagate", ![t].walk = outputs,
                                     ![t].visiting = {}, ![t].seen = {}]
      BY <1>9 DEF UpdateForkedTransaction, Forked
    <2> HIDE DEF outputs
    <2> QED
      BY <1>1, <2>1, <2>2 DEF Goroutine
  <1>10. CASE VisitOutput(t)
    <2>1. PICK o \in booking[t].walk :
            booking' = [booking EXCEPT ![t].walk = @ \ {o},
                                       ![t].visiting = consumers[o] \ booking[t].seen,
                                       ![t].seen = @ \union consumers[o]]
      BY <1>10 DEF VisitOutput
    <2>2. consumers[o] \subseteq TransactionID
      BY <1>1 DEF IInv, TypeOK, Goroutine
    <2> QED
      BY <1>1, <2>1, <2>2 DEF Goroutine
  <1>11. CASE PropagateToConsumer(t)
    <2>1. PICK c \in booking[t].visiting :
            booking' = [booking EXCEPT
              ![t].visiting = @ \ {c},
              ![t].walk = IF UpdatesConflictIDs(c, Forked(t)) THEN @ \union OutputIDs(c) ELSE @]
      BY <1>11 DEF PropagateToConsumer, Forked
    <2>2. OutputIDs(c) \subseteq OutputID
      BY <1>1, LedgerConstants DEF Goroutine, OutputIDs
    <2> QED
      BY <1>1, <2>1, <2>2 DEF Goroutine
  <1>12. CASE ProcessTransaction(t)
    <2>1. CASE UNCHANGED booking
      BY <1>1, <2>1
    <2>2. CASE booking' = [booking EXCEPT ![t].at = "check"]
      BY <1>1, <2>2 DEF Goroutine
    <2> QED
      BY <1>12, <2>1, <2>2 DEF ProcessTransaction
  <1>13. CASE ProcessConsumingTransactions(t) \/ AcceptConflict(t)
    BY <1>1, <1>13 DEF ProcessConsumingTransactions, AcceptConflict
  <1> QED
    BY <1>2, <1>3, <1>4, <1>5, <1>6, <1>7, <1>8, <1>9, <1>10, <1>11,
       <1>12, <1>13 DEF Process, EventLoop

(* Every step respects the types.                                          *)
LEMMA TypeStep == IInv /\ [Next]_vars => TypeOK'
  <1> SUFFICES ASSUME IInv, [Next]_vars
               PROVE  TypeOK'
    OBVIOUS
  <1>1. DAG!TypeOK'
    BY DAGInvStep
  <1>2. TypeOK
    BY DEF IInv
  <1>3. CASE UNCHANGED vars
    BY <1>1, <1>2, <1>3 DEF TypeOK, vars, metadataVars
  <1>4. SUFFICES ASSUME NEW t \in TransactionID,
                        Store(t) \/ Process(t) \/ EventLoop(t) \/ AcceptConflict(t)
                 PROVE  TypeOK'
    BY <1>3 DEF Next
  <1>5. booking' \in [TransactionID -> Goroutine]
    BY <1>2, <1>4, OneGoroutineMoves DEF TypeOK
  <1> USE <1>1, <1>2, <1>5 DEF TypeOK, metadataVars
  <1>6. CASE Store(t)
    BY <1>6 DEF Store
  <1>7. CASE Unsolid(t) \/ InheritConflictIDs(t)
    BY <1>7 DEF Unsolid, InheritConflictIDs
  <1>8. CASE RegisterBookedConsumer(t)
    BY <1>8 DEF RegisterBookedConsumer
  <1>9. CASE CreateOwnConflict(t) \/ JoinConflictSets(t) \/ VisitOutput(t) \/ FinishFork(t)
    BY <1>9 DEF CreateOwnConflict, JoinConflictSets, VisitOutput, FinishFork
  <1>10. CASE ForkTransaction(t)
    BY <1>10 DEF ForkTransaction
  <1>11. ASSUME NEW c \in TransactionID, NEW f \in TransactionID, NEW previous,
                UpdateConflictsAfterFork(c, f, previous)
         PROVE  /\ conflictIDs' \in [TransactionID -> SUBSET TransactionID]
                /\ outputConflictIDs' \in [OutputID -> SUBSET TransactionID]
    BY <1>11 DEF UpdateConflictsAfterFork, DAG!UnconfirmedConflicts
  <1>12. CASE UpdateForkedTransaction(t)
    <2>1. Forked(t) \in TransactionID
      BY <1>12, ForkedFacts DEF UpdateForkedTransaction, Forking, IInv, LockInv
    <2> QED
      BY <1>11, <1>12, <2>1 DEF UpdateForkedTransaction, Forked
  <1>13. CASE PropagateToConsumer(t)
    <2>1. Forked(t) \in TransactionID
      BY <1>13, ForkedFacts DEF PropagateToConsumer, Forking, IInv, LockInv
    <2>2. booking[t].visiting \subseteq TransactionID
      BY DEF Goroutine
    <2> QED
      BY <1>11, <1>13, <2>1, <2>2 DEF PropagateToConsumer, Forked
  <1>14. CASE BookTransaction(t)
    <2>1. t \in stored
      BY <1>14 DEF BookTransaction, ReadyToBook, RegisteredAll, Running, IInv, LockInv
    <2>2. booking[t].parentConflicts \subseteq TransactionID
      BY DEF Goroutine
    <2> DEFINE inherited ==
          IF booking[t].conflictingInputs = {} THEN booking[t].parentConflicts ELSE {t}
    <2>3. inherited \subseteq TransactionID
      BY <2>2
    <2>4. /\ conflictIDs' = [conflictIDs EXCEPT ![t] = inherited]
          /\ outputConflictIDs' = [o \in OutputID |->
               IF o \in Outputs[t] THEN inherited ELSE outputConflictIDs[o]]
          /\ mutex' = [mutex EXCEPT ![t] = EmptyTransactionID]
          /\ available' = available \union Outputs[t]
          /\ booked' = booked \union {t} /\ bookedEvents' = bookedEvents \union {t}
          /\ UNCHANGED <<stored, consumers, firstConsumer, tasks>>
      BY <1>14 DEF BookTransaction
    <2> HIDE DEF inherited
    <2> QED
      BY <2>1, <2>3, <2>4, LedgerConstants
  <1>15. CASE ProcessConsumingTransactions(t)
    <2>1. \A o \in OutputID : consumers[o] \subseteq stored
      BY DEF IInv, ConeInv
    <2>2. tasks' \subseteq stored
      BY <1>15, <2>1, LedgerConstants DEF ProcessConsumingTransactions
    <2> QED
      BY <1>15, <2>2 DEF ProcessConsumingTransactions
  <1>16. CASE ProcessTransaction(t)
    BY <1>16 DEF ProcessTransaction
  <1>17. CASE AcceptConflict(t)
    BY <1>17 DEF AcceptConflict
  <1> QED
    BY <1>4, <1>6, <1>7, <1>8, <1>9, <1>10, <1>12, <1>13, <1>14, <1>15, <1>16, <1>17
    DEF Process, EventLoop

(* The goroutines that do not move.                                        *)
LEMMA OthersStand ==
  ASSUME IInv, NEW t \in TransactionID,
         Store(t) \/ Process(t) \/ EventLoop(t) \/ AcceptConflict(t),
         NEW u \in TransactionID, u # t
  PROVE  booking'[u] = booking[u]
  BY OneGoroutineMoves DEF IInv, TypeOK

(* One registration: the transaction is the first consumer of the input,   *)
(* or the input is in dispute and its first consumer is to be forked.      *)
LEMMA Registration ==
  ASSUME IInv, NEW t \in TransactionID, RegisterBookedConsumer(t),
         NEW o, o = Inputs[t][booking[t].registered + 1]
  PROVE  /\ booking[t].registered + 1 \in 1..Len(Inputs[t]) /\ o \in OutputID
         /\ booking[t].at = "register" /\ booking'[t].at = "register"
         /\ booking'[t].registered = booking[t].registered + 1
         /\ booking'[t].parentConflicts = booking[t].parentConflicts
         /\ \/ /\ firstConsumer[o] = EmptyTransactionID
               /\ firstConsumer' = [firstConsumer EXCEPT ![o] = t]
               /\ booking'[t].conflictingInputs = booking[t].conflictingInputs
               /\ booking'[t].consumersToFork = booking[t].consumersToFork
            \/ /\ firstConsumer[o] # EmptyTransactionID /\ UNCHANGED firstConsumer
               /\ booking'[t].conflictingInputs = booking[t].conflictingInputs \union {o}
               /\ ToSet(booking'[t].consumersToFork) =
                    ToSet(booking[t].consumersToFork) \union {firstConsumer[o]}
  <1> DEFINE i == booking[t].registered + 1
  <1>1. /\ booking \in [TransactionID -> Goroutine] /\ booking[t] \in Goroutine
        /\ booking[t].registered \in Nat
        /\ booking[t].consumersToFork \in Seq(TransactionID)
    BY DEF IInv, TypeOK, Goroutine
  <1>2. /\ i \in 1..Len(Inputs[t]) /\ booking[t].at = "register"
    BY <1>1, InputsAreOutputs DEF RegisterBookedConsumer, Running
  <1>3. o \in OutputID
    BY <1>2, InputsAreOutputs
  <1>4. CASE firstConsumer[o] = EmptyTransactionID
    <2>1. /\ firstConsumer' = [firstConsumer EXCEPT ![o] = t]
          /\ booking' = [booking EXCEPT ![t].registered = i]
      BY <1>4 DEF RegisterBookedConsumer
    <2> HIDE DEF i
    <2>2. /\ booking'[t].at = booking[t].at /\ booking'[t].registered = i
          /\ booking'[t].parentConflicts = booking[t].parentConflicts
          /\ booking'[t].conflictingInputs = booking[t].conflictingInputs
          /\ booking'[t].consumersToFork = booking[t].consumersToFork
      BY <1>1, <2>1, SMTT(30) DEF Goroutine
    <2> QED
      BY <1>2, <1>3, <1>4, <2>1, <2>2 DEF i
  <1>5. CASE firstConsumer[o] # EmptyTransactionID
    <2> DEFINE first == firstConsumer[o]
               conflicting == booking[t].conflictingInputs \union {o}
               toFork == IF Contains(booking[t].consumersToFork, first)
                         THEN booking[t].consumersToFork
                         ELSE Append(booking[t].consumersToFork, first)
    <2>1. /\ UNCHANGED firstConsumer
          /\ booking' = [booking EXCEPT ![t].registered = i,
               ![t].conflictingInputs = conflicting, ![t].consumersToFork = toFork]
      BY <1>5 DEF RegisterBookedConsumer
    <2>2. first \in TransactionID
      BY <1>3, <1>5 DEF IInv, TypeOK
    <2>3. ToSet(toFork) = ToSet(booking[t].consumersToFork) \union {first}
      <3>1. ToSet(Append(booking[t].consumersToFork, first)) =
              ToSet(booking[t].consumersToFork) \union {first}
        BY <1>1, <2>2, AppendFacts
      <3>2. Contains(booking[t].consumersToFork, first) =>
              first \in ToSet(booking[t].consumersToFork)
        BY <1>1, <2>2, AppendFacts
      <3> QED
        BY <3>1, <3>2
    <2> HIDE DEF conflicting, toFork, i
    <2>4. /\ booking'[t].at = booking[t].at /\ booking'[t].registered = i
          /\ booking'[t].parentConflicts = booking[t].parentConflicts
          /\ booking'[t].conflictingInputs = conflicting
          /\ booking'[t].consumersToFork = toFork
      BY <1>1, <2>1 DEF Goroutine
    <2> QED
      BY <1>2, <1>3, <1>5, <2>1, <2>3, <2>4 DEF conflicting, toFork, i
  <1> QED
    BY <1>4, <1>5

-----------------------------------------------------------------------------
(* Locking.  A goroutine takes the entry of the transaction it forks when  *)
(* it is free, and gives it back with the next step.                       *)
LEMMA GoroutineGoesOn ==
  ASSUME TypeOK, LockInv, UNCHANGED <<stored, booked, mutex>>,
         NEW t \in TransactionID,
         \A u \in TransactionID : u # t => booking'[u] = booking[u],
         booking[t].at \notin {"idle", "check", "update"},
         booking'[t].at \notin {"idle", "check", "update"},
         Running(t, "propagate")' =>
           booking'[t].consumersToFork # <<>> /\ Forked(t)' \in booked
  PROVE  LockInv'
  <1>1. mutex \in [TransactionID -> TransactionID \union {EmptyTransactionID}]
    BY DEF TypeOK
  <1>2. ASSUME NEW u \in TransactionID, mutex[u] \notin {u, EmptyTransactionID}
        PROVE  Running(mutex[u], "update")' /\ Forked(mutex[u])' = u
    <2>1. Running(mutex[u], "update") /\ Forked(mutex[u]) = u
      BY <1>2, Zenon DEF LockInv
    <2>2. mutex[u] # t /\ mutex[u] \in TransactionID
      BY <1>1, <1>2, <2>1 DEF Running
    <2> QED
      BY <2>1, <2>2 DEF Running, Forked
  <1>3. ASSUME NEW u \in TransactionID, u # t
        PROVE  /\ Running(u, "idle")' <=> mutex[u] # u
               /\ Running(u, "idle")' \/ Running(u, "check")' =>
                    booking'[u] = [NotRunning EXCEPT !.at = booking'[u].at]
               /\ ~Running(u, "idle")' => u \in stored /\ u \notin booked
               /\ Forking(u)' => booking'[u].consumersToFork # <<>> /\ Forked(u)' \in booked
               /\ Running(u, "update")' => mutex[Forked(u)'] = u
    BY <1>3 DEF LockInv, Running, Forked, Forking
  <1>4. /\ Running(t, "idle")' <=> mutex[t] # t
        /\ ~Running(t, "idle")' /\ ~Running(t, "check")' /\ ~Running(t, "update")'
        /\ t \in stored /\ t \notin booked
        /\ Forking(t)' => booking'[t].consumersToFork # <<>> /\ Forked(t)' \in booked
    BY DEF LockInv, Running, Forking
  <1> QED
    BY <1>2, <1>3, <1>4 DEF LockInv

(* The entry of the transaction that is forked is taken, or given back.    *)
LEMMA EntryPasses ==
  ASSUME TypeOK, LockInv, NEW t \in TransactionID,
         Forked(t) \in TransactionID, Forked(t) \in booked, Forked(t) # t,
         booking[t].consumersToFork # <<>>, UNCHANGED <<stored, booked>>,
         \A u \in TransactionID : u # t => booking'[u] = booking[u],
         booking'[t].consumersToFork = booking[t].consumersToFork,
         \/ /\ booking[t].at = "fork" /\ booking'[t].at = "update"
            /\ mutex[Forked(t)] = EmptyTransactionID /\ mutex' = [mutex EXCEPT ![Forked(t)] = t]
         \/ /\ booking[t].at = "update" /\ booking'[t].at = "propagate"
            /\ mutex[Forked(t)] = t /\ mutex' = [mutex EXCEPT ![Forked(t)] = EmptyTransactionID]
  PROVE  LockInv'
  <1>0. EmptyTransactionID \notin TransactionID
    BY LedgerConstants
  <1>1. /\ mutex \in [TransactionID -> TransactionID \union {EmptyTransactionID}]
        /\ booked \subseteq TransactionID
    BY DEF TypeOK
  <1>2. Forked(t)' = Forked(t) /\ \A u \in TransactionID : u # t => Forked(u)' = Forked(u)
    BY DEF Forked
  <1>3. /\ mutex'[Forked(t)] = IF booking[t].at = "fork" THEN t ELSE EmptyTransactionID
        /\ mutex[Forked(t)] = IF booking[t].at = "fork" THEN EmptyTransactionID ELSE t
        /\ booking'[t].at = IF booking[t].at = "fork" THEN "update" ELSE "propagate"
        /\ booking[t].at \in {"fork", "update"}
    BY <1>1
  <1>4. \A u \in TransactionID : u # Forked(t) => mutex'[u] = mutex[u]
    BY <1>1
  <1>5. mutex[t] = t /\ t \in stored /\ t \notin booked
    <2>1. ~Running(t, "idle")
      BY <1>3 DEF Running
    <2> QED
      BY <2>1, Zenon DEF LockInv
  <1>6. ASSUME NEW u \in TransactionID, u # t, u # Forked(t), mutex[u] = t PROVE FALSE
    <2>1. mutex[u] \notin {u, EmptyTransactionID}
      BY <1>0, <1>6
    <2>2. Running(mutex[u], "update") /\ Forked(mutex[u]) = u
      BY <2>1, Zenon DEF LockInv
    <2> QED
      BY <1>6, <2>2
  <1>7. ASSUME NEW u \in TransactionID, u # t
        PROVE  /\ booking'[u].at = "idle" <=> mutex'[u] # u
               /\ mutex'[u] \notin {u, EmptyTransactionID} =>
                    /\ booking'[mutex'[u]].at = "update"
                    /\ Head(booking'[mutex'[u]].consumersToFork) = u
               /\ booking'[u].at = "idle" \/ booking'[u].at = "check" =>
                    booking'[u] = [NotRunning EXCEPT !.at = booking'[u].at]
               /\ booking'[u].at # "idle" => u \in stored' /\ u \notin booked'
               /\ Forking(u)' => booking'[u].consumersToFork # <<>> /\ Forked(u)' \in booked'
               /\ booking'[u].at = "update" => mutex'[Forked(u)'] = u
    <2>1. booking'[u] = booking[u] /\ Forked(u)' = Forked(u)
      BY <1>2, <1>7
    <2>2. /\ booking[u].at = "idle" <=> mutex[u] # u
          /\ mutex[u] \notin {u, EmptyTransactionID} =>
               booking[mutex[u]].at = "update" /\ Forked(mutex[u]) = u
          /\ booking[u].at = "idle" \/ booking[u].at = "check" =>
               booking[u] = [NotRunning EXCEPT !.at = booking[u].at]
          /\ booking[u].at # "idle" => u \in stored /\ u \notin booked
          /\ Forking(u) => booking[u].consumersToFork # <<>> /\ Forked(u) \in booked
          /\ booking[u].at = "update" => mutex[Forked(u)] = u
      BY Zenon DEF LockInv, Running
    <2>3. booking'[u].at = "idle" <=> mutex'[u] # u
      <3>1. CASE u = Forked(t)
        BY <1>0, <1>3, <1>7, <2>1, <2>2, <3>1
      <3>2. CASE u # Forked(t)
        BY <1>4, <2>1, <2>2, <3>2
      <3> QED
        BY <3>1, <3>2
    <2>4. ASSUME mutex'[u] \notin {u, EmptyTransactionID}
          PROVE  /\ booking'[mutex'[u]].at = "update"
                 /\ Head(booking'[mutex'[u]].consumersToFork) = u
      <3>1. CASE u = Forked(t)
        BY <1>3, <2>4, <3>1 DEF Forked
      <3>2. CASE u # Forked(t)
        <4>1. /\ mutex'[u] = mutex[u] /\ mutex[u] \in TransactionID /\ mutex[u] # t
              /\ booking[mutex[u]].at = "update" /\ Forked(mutex[u]) = u
          BY <1>1, <1>4, <1>6, <1>7, <2>2, <2>4, <3>2
        <4>2. booking'[mutex[u]] = booking[mutex[u]]
          BY <4>1
        <4> QED
          BY <4>1, <4>2 DEF Forked
      <3> QED
        BY <3>1, <3>2
    <2>5. booking'[u].at = "update" => mutex'[Forked(u)'] = u
      <3>1. booking[u].at = "update" => Forked(u) \in booked /\ mutex[Forked(u)] = u
        BY <2>2 DEF Forking, Running
      <3>2. mutex[Forked(t)] # u
        BY <1>0, <1>3, <1>7
      <3> QED
        BY <1>1, <1>4, <2>1, <3>1, <3>2
    <2> QED
      BY <2>1, <2>2, <2>3, <2>4, <2>5 DEF Forking, Running
  <1>8. /\ mutex'[t] = t
        /\ booking'[t].at = "update" => mutex'[Forked(t)'] = t
        /\ booking'[t].at \in {"update", "propagate"}
        /\ booking'[t].consumersToFork # <<>> /\ Forked(t)' \in booked'
        /\ t \in stored' /\ t \notin booked'
    BY <1>2, <1>3, <1>4, <1>5
  <1> QED
    BY <1>7, <1>8 DEF LockInv, Running, Forked

LEMMA LockStep == IInv /\ [Next]_vars => LockInv'
  <1> SUFFICES ASSUME IInv, [Next]_vars
               PROVE  LockInv'
    OBVIOUS
  <1>1. TypeOK /\ LockInv /\ TypeOK'
    BY TypeStep DEF IInv
  <1>2. CASE UNCHANGED vars
    BY <1>1, <1>2 DEF LockInv, vars, metadataVars, Running, Forked, Forking
  <1>3. SUFFICES ASSUME NEW t \in TransactionID,
                        Store(t) \/ Process(t) \/ EventLoop(t) \/ AcceptConflict(t)
                 PROVE  LockInv'
    BY <1>2 DEF Next
  <1>4. /\ \A u \in TransactionID : u # t => booking'[u] = booking[u]
        /\ booking[t] \in Goroutine /\ booking'[t] \in Goroutine
    BY <1>1, <1>3, OthersStand DEF TypeOK
  <1>5. EmptyTransactionID \notin TransactionID
    BY LedgerConstants
  <1> USE <1>1, <1>4, <1>5 DEF LockInv, Running, Forked, Forking
  <1>6. CASE Store(t)
    BY <1>6 DEF Store, NotRunning, TypeOK, metadataVars
  <1>7. CASE Unsolid(t)
    BY <1>7 DEF Unsolid, NotRunning, TypeOK, metadataVars
  <1>8. CASE InheritConflictIDs(t)
    BY <1>8 DEF InheritConflictIDs, TypeOK, metadataVars, NotRunning
  <1>9. CASE RegisterBookedConsumer(t)
    <2>1. booking[t].at = "register" /\ booking'[t].at = "register"
      BY <1>9, Registration, Zenon
    <2>2. UNCHANGED <<stored, booked, mutex>>
      BY <1>9, Zenon DEF RegisterBookedConsumer, metadataVars
    <2> QED
      BY <2>1, <2>2, GoroutineGoesOn
  <1>10. CASE CreateOwnConflict(t) \/ JoinConflictSets(t) \/ FinishFork(t)
    <2>1. booking[t].at \in {"register", "fork", "propagate"}
      <3>1. CreateOwnConflict(t) => booking[t].at = "register"
        BY Zenon DEF CreateOwnConflict, RegisteredAll
      <3>2. JoinConflictSets(t) => booking[t].at = "fork"
        BY Zenon DEF JoinConflictSets
      <3>3. FinishFork(t) => booking[t].at = "propagate"
        BY Zenon DEF FinishFork
      <3> QED
        BY <1>10, <3>1, <3>2, <3>3, Zenon
    <2>2. booking'[t].at = "fork"
      <3> HIDE DEF LockInv
      <3>1. /\ booking \in [TransactionID -> Goroutine]
            /\ booking[t] \in Goroutine
        BY DEF TypeOK
      <3>2. CASE CreateOwnConflict(t)
        BY <3>1, <3>2 DEF CreateOwnConflict, Goroutine
      <3>3. CASE JoinConflictSets(t)
        BY <3>1, <3>3 DEF JoinConflictSets, Goroutine
      <3>4. CASE FinishFork(t)
        BY <3>1, <3>4 DEF FinishFork, Goroutine
      <3> QED
        BY <1>10, <3>2, <3>3, <3>4, Zenon
    <2>3. UNCHANGED <<stored, booked, mutex>>
      BY <1>10, Zenon DEF CreateOwnConflict, JoinConflictSets, FinishFork, metadataVars
    <2>4. /\ booking[t].at \notin {"idle", "check", "update"}
          /\ booking'[t].at \notin {"idle", "check", "update"}
          /\ ~Running(t, "propagate")'
      BY <2>1, <2>2
    <2> HIDE DEF LockInv, Running, Forked, Forking
    <2> QED
      BY <2>3, <2>4, GoroutineGoesOn
  <1>11. CASE ForkTransaction(t)
    <2> HIDE <1>1, <1>4 DEF LockInv, Running, Forked, Forking
    <2>1. /\ booking[t].at = "fork" /\ booking[t].consumersToFork # <<>>
          /\ mutex[Forked(t)] = EmptyTransactionID /\ mutex' = [mutex EXCEPT ![Forked(t)] = t]
          /\ UNCHANGED <<stored, booked>>
      BY <1>11, Zenon DEF ForkTransaction, Forked, Running, metadataVars
    <2>2. booking'[t].at = "update" /\ booking'[t].consumersToFork = booking[t].consumersToFork
      <3>1. booking \in [TransactionID -> Goroutine]
        BY <1>1 DEF TypeOK
      <3> QED
        BY <1>11, <3>1 DEF ForkTransaction, Goroutine
    <2>3. Forked(t) \in TransactionID /\ Forked(t) \in booked /\ Forked(t) # t
      <3>1. Running(t, "fork")
        BY <2>1 DEF Running
      <3> QED
        BY <2>1, <3>1, ForkedIsBooked
    <2> QED
      BY <1>1, <1>4, <2>1, <2>2, <2>3, EntryPasses
  <1>12. CASE UpdateForkedTransaction(t)
    <2> HIDE <1>1, <1>4 DEF LockInv, Running, Forked, Forking
    <2>1. /\ booking[t].at = "update" /\ mutex' = [mutex EXCEPT ![Forked(t)] = EmptyTransactionID]
          /\ UNCHANGED <<stored, booked>>
      BY <1>12, Zenon DEF UpdateForkedTransaction, Forked, Running
    <2>2. booking'[t].at = "propagate" /\ booking'[t].consumersToFork = booking[t].consumersToFork
      <3>1. booking \in [TransactionID -> Goroutine]
        BY <1>1 DEF TypeOK
      <3> QED
        BY <1>12, <3>1 DEF UpdateForkedTransaction, Goroutine
    <2>3. Running(t, "update") /\ Forking(t) /\ ~Running(t, "idle")
      BY <2>1 DEF Running, Forking
    <2>4. /\ booking[t].consumersToFork # <<>> /\ Forked(t) \in booked /\ mutex[Forked(t)] = t
          /\ t \notin booked
      BY <1>1, <2>3, Zenon DEF LockInv
    <2>5. Forked(t) \in TransactionID /\ Forked(t) # t
      BY <1>1, <2>4, ForkedFacts
    <2> QED
      BY <1>1, <1>4, <2>1, <2>2, <2>4, <2>5, EntryPasses
  <1>13. CASE VisitOutput(t)
    <2> HIDE <1>1, <1>4 DEF LockInv, Running, Forked, Forking
    <2>1. booking[t].at = "propagate" /\ UNCHANGED <<stored, booked, mutex>>
      BY <1>13, Zenon DEF VisitOutput, Running, metadataVars
    <2>2. booking'[t].at = "propagate" /\ booking'[t].consumersToFork = booking[t].consumersToFork
      <3>1. booking \in [TransactionID -> Goroutine]
        BY <1>1 DEF TypeOK
      <3>2. ASSUME NEW w, NEW v, NEW s,
                   booking' = [booking EXCEPT ![t].walk = w, ![t].visiting = v, ![t].seen = s]
            PROVE  booking'[t].at = booking[t].at
                   /\ booking'[t].consumersToFork = booking[t].consumersToFork
        BY <3>1, <3>2 DEF Goroutine
      <3>3. PICK o \in booking[t].walk : booking' = [booking EXCEPT
                   ![t].walk = @ \ {o},
                   ![t].visiting = consumers[o] \ booking[t].seen,
                   ![t].seen = @ \union consumers[o]]
        BY <1>13, Zenon DEF VisitOutput
      <3> QED
        BY <2>1, <3>2, <3>3
    <2>3. booking[t].consumersToFork # <<>> /\ Forked(t) \in booked
      <3>1. Forking(t)
        BY <2>1 DEF Forking, Running
      <3> QED
        BY <1>1, <3>1, Zenon DEF LockInv
    <2>4. Forked(t)' \in booked
      BY <2>2, <2>3 DEF Forked
    <2> QED
      BY <1>1, <1>4, <2>1, <2>2, <2>3, <2>4, GoroutineGoesOn
  <1>14. CASE PropagateToConsumer(t)
    <2> HIDE <1>1, <1>4 DEF LockInv, Running, Forked, Forking
    <2>1. booking[t].at = "propagate" /\ UNCHANGED <<stored, booked, mutex>>
      BY <1>14, Zenon DEF PropagateToConsumer, Running
    <2>2. booking'[t].at = "propagate" /\ booking'[t].consumersToFork = booking[t].consumersToFork
      <3>1. booking \in [TransactionID -> Goroutine]
        BY <1>1 DEF TypeOK
      <3>2. ASSUME NEW v, NEW w, booking' = [booking EXCEPT ![t].visiting = v, ![t].walk = w]
            PROVE  booking'[t].at = booking[t].at
                   /\ booking'[t].consumersToFork = booking[t].consumersToFork
        BY <3>1, <3>2 DEF Goroutine
      <3>3. \E v, w : booking' = [booking EXCEPT ![t].visiting = v, ![t].walk = w]
        BY <1>14, Zenon DEF PropagateToConsumer
      <3> QED
        BY <2>1, <3>2, <3>3
    <2>3. booking[t].consumersToFork # <<>> /\ Forked(t) \in booked
      <3>1. Forking(t)
        BY <2>1 DEF Forking, Running
      <3> QED
        BY <1>1, <3>1, Zenon DEF LockInv
    <2>4. Forked(t)' \in booked
      BY <2>2, <2>3 DEF Forked
    <2> QED
      BY <1>1, <1>4, <2>1, <2>2, <2>3, <2>4, GoroutineGoesOn
  <1>15. CASE BookTransaction(t)
    BY <1>15 DEF BookTransaction, ReadyToBook, RegisteredAll, NotRunning, TypeOK
  <1>16. CASE ProcessConsumingTransactions(t)
    BY <1>16 DEF ProcessConsumingTransactions, TypeOK, metadataVars
  <1>17. CASE ProcessTransaction(t)
    BY <1>17 DEF ProcessTransaction, NotRunning, TypeOK, metadataVars
  <1>18. CASE AcceptConflict(t)
    BY <1>18 DEF AcceptConflict, metadataVars
  <1> QED
    BY <1>3, <1>6, <1>7, <1>8, <1>9, <1>10, <1>11, <1>12, <1>13, <1>14, <1>15, <1>16, <1>17,
       <1>18 DEF Process, EventLoop

-----------------------------------------------------------------------------
(* Cones.  What is stored, booked or known to be a conflict stays so.      *)
LEMMA KnowledgeGrows ==
  ASSUME IInv, [Next]_vars
  PROVE  stored \subseteq stored' /\ booked \subseteq booked' /\ KnownConflicts \subseteq KnownConflicts'
  <1>1. stored \subseteq stored' /\ booked \subseteq booked'
    <2>1. CASE UNCHANGED vars
      BY <2>1 DEF vars, metadataVars
    <2> QED
      BY <2>1, WhoChangesWhat DEF Next
  <1>2. ASSUME NEW c \in booked, DAG!Exists(c)
        PROVE  c \in booked' /\ DAG!Exists(c)'
    <2>1. c \in TransactionID
      BY DEF IInv, TypeOK
    <2> QED
      BY <1>1, <1>2, <2>1, ConflictsStay
  <1> QED
    BY <1>1, <1>2, Zenon DEF KnownConflicts

(* A propagating goroutine adds the conflict it forked to a transaction of *)
(* that conflict's future cone.                                            *)
LEMMA PropagatedConflict ==
  ASSUME IInv, NEW t \in TransactionID, Running(t, "propagate")
  PROVE  /\ Forked(t) \in TransactionID /\ Forked(t) \in KnownConflicts
         /\ \A c \in booking[t].visiting : c \in TransactionID /\ Forked(t) \in Ancestors[c]
  <1>1. Forked(t) \in booked /\ Forked(t) \in TransactionID
    BY ForkedFacts DEF Forking, IInv, LockInv
  <1>2. DAG!Exists(Forked(t))
    BY DEF Forking, IInv, ForkInv
  <1>3. \A c \in booking[t].visiting : c \in TransactionID /\ Forked(t) \in Ancestors[c]
    BY DEF IInv, TypeOK, Goroutine, WalkInv
  <1> QED
    BY <1>1, <1>2, <1>3 DEF KnownConflicts

(* What AcceptConflict accepts is booked: the parents of a conflict are.   *)
LEMMA AcceptedIsBooked ==
  ASSUME IInv, NEW t \in booked
  PROVE  DAG!NewlyAccepted(t) \subseteq booked
  <1>1. booked \in SUBSET TransactionID
    BY DEF IInv, TypeOK
  <1>2. \A c \in booked : {p \in parents[c] : ~DAG!IsAccepted(p)} \subseteq booked
    BY <1>1 DEF IInv, ConeInv
  <1> DEFINE succ == [c \in TransactionID |-> {p \in parents[c] : ~DAG!IsAccepted(p)}]
             start == {t} \ {c \in TransactionID : DAG!IsAccepted(c)}
  <1>3. /\ succ \in [TransactionID -> SUBSET TransactionID]
        /\ \A c \in booked : succ[c] \subseteq booked
    BY <1>1, <1>2 DEF IInv, TypeOK, DAG!TypeOK
  <1>4. start \in SUBSET TransactionID /\ start \subseteq booked
    BY <1>1
  <1>5. DAG!NewlyAccepted(t) = DAG!Closure(start, succ)
    BY DEF DAG!NewlyAccepted
  <1> HIDE DEF succ, start
  <1> QED
    BY <1>1, <1>3, <1>4, <1>5, WalkIsIntersection

LEMMA ConsumersStep ==
  ASSUME IInv, [Next]_vars
  PROVE  \A o \in OutputID : \A c \in consumers'[o] : c \in stored' /\ o \in InputIDs(c)
  <1>1. \A o \in OutputID : \A c \in consumers[o] : c \in stored /\ o \in InputIDs(c)
    BY DEF IInv, ConeInv
  <1>2. CASE UNCHANGED vars
    BY <1>1, <1>2 DEF vars
  <1>3. SUFFICES ASSUME NEW t \in TransactionID,
                        Store(t) \/ Process(t) \/ EventLoop(t) \/ AcceptConflict(t)
                 PROVE  \A o \in OutputID : \A c \in consumers'[o] :
                          c \in stored' /\ o \in InputIDs(c)
    BY <1>2 DEF Next
  <1>4. CASE Store(t)
    BY <1>1, <1>4 DEF Store
  <1>5. CASE UNCHANGED consumers
    BY <1>1, <1>5, KnowledgeGrows
  <1> QED
    BY <1>3, <1>4, <1>5, WhoChangesWhat

(* The ConflictDAG follows the inputs: what a conflict depends on and what *)
(* it competes for.                                                        *)
LEMMA ConflictConesStep ==
  ASSUME IInv, [Next]_vars, NEW u \in TransactionID
  PROVE  /\ parents'[u] \subseteq Ancestors[u] \intersect booked'
         /\ conflictSetIDs'[u] \subseteq InputIDs(u)
         /\ DAG!IsAccepted(u)' => u \in booked'
  <1> DEFINE Goal == /\ parents'[u] \subseteq Ancestors[u] \intersect booked'
                     /\ conflictSetIDs'[u] \subseteq InputIDs(u)
                     /\ DAG!IsAccepted(u)' => u \in booked'
  <1>1. /\ parents[u] \subseteq Ancestors[u] \intersect booked
        /\ conflictSetIDs[u] \subseteq InputIDs(u)
        /\ DAG!IsAccepted(u) => u \in booked
    BY DEF IInv, ConeInv
  <1>2. booked \subseteq booked'
    BY KnowledgeGrows
  <1>3. DAG!TypeOK
    BY DEF IInv, TypeOK
  <1>4. CASE UNCHANGED conflictVars
    BY <1>1, <1>2, <1>4 DEF conflictVars, DAG!IsAccepted
  <1>5. ASSUME NEW f \in TransactionID, NEW parentIDs, NEW resourceIDs,
               DAG!CreateConflict(f, parentIDs, resourceIDs),
               parentIDs \subseteq Ancestors[f] \intersect booked,
               resourceIDs \subseteq InputIDs(f)
        PROVE  Goal
    <2>1. DAG!IsAccepted(u)' => DAG!IsAccepted(u)
      BY <1>3, <1>5 DEF DAG!CreateConflict, DAG!TypeOK, DAG!IsAccepted, DAG!Rejected,
                        DAG!Pending, DAG!Accepted
    <2> QED
      BY <1>1, <1>2, <1>3, <1>5, <2>1 DEF DAG!CreateConflict, DAG!TypeOK
  <1>6. SUFFICES ASSUME NEW t \in TransactionID,
                        Store(t) \/ Process(t) \/ EventLoop(t) \/ AcceptConflict(t)
                 PROVE  Goal
    BY <1>4 DEF Next, vars, conflictVars
  <1>7. CASE CreateOwnConflict(t)
    <2>1. booking[t].parentConflicts \subseteq Ancestors[t] \intersect booked
      BY DEF IInv, ConeInv, KnownConflicts
    <2>2. booking[t].conflictingInputs \subseteq InputIDs(t)
      BY <1>7 DEF CreateOwnConflict, RegisteredAll, Running, IInv, RegisterInv, Registered
    <2> QED
      BY <1>5, <1>7, <2>1, <2>2 DEF CreateOwnConflict
  <1>8. CASE ForkTransaction(t)
    <2>1. Forked(t) \in TransactionID
      BY <1>8, ForkedIsBooked DEF ForkTransaction, Forked
    <2>2. DAG!CreateConflict(Forked(t), conflictIDs[Forked(t)],
                             InputIDs(Forked(t)) \intersect booking[t].conflictingInputs)
      BY <1>8 DEF ForkTransaction, Forked
    <2>3. Forked(t) \notin conflictIDs[Forked(t)]
      BY <2>1, <2>2 DEF DAG!CreateConflict, IInv, ConeInv, KnownConflicts
    <2>4. conflictIDs[Forked(t)] \subseteq Ancestors[Forked(t)] \intersect booked
      BY <2>1, <2>3 DEF IInv, ConeInv, KnownConflicts, PastOf
    <2> QED
      BY <1>5, <2>1, <2>2, <2>4
  <1>9. CASE JoinConflictSets(t)
    <2>1. DAG!UpdateConflictingResources(Forked(t),
                             InputIDs(Forked(t)) \intersect booking[t].conflictingInputs)
      BY <1>9 DEF JoinConflictSets, Forked
    <2> QED
      BY <1>1, <1>2, <1>3, <2>1 DEF DAG!UpdateConflictingResources, DAG!TypeOK, DAG!IsAccepted
  <1>10. CASE UpdateForkedTransaction(t)
    BY <1>4, <1>10, ForkedKeepsParents
  <1>11. CASE PropagateToConsumer(t)
    <2>1. Running(t, "propagate")
      BY <1>11 DEF PropagateToConsumer
    <2>2. PICK c \in booking[t].visiting :
            UpdateConflictsAfterFork(c, Forked(t), booking[t].previousParents)
      BY <1>11 DEF PropagateToConsumer, Forked
    <2>3. Forked(t) \in Ancestors[c] /\ Forked(t) \in booked
      BY <2>1, PropagatedConflict DEF KnownConflicts
    <2>4. CASE DAG!UpdateConflictParents(c, booking[t].previousParents, Forked(t))
      BY <1>1, <1>2, <1>3, <2>3, <2>4 DEF DAG!UpdateConflictParents, DAG!TypeOK, DAG!IsAccepted
    <2> QED
      BY <1>4, <2>2, <2>4 DEF UpdateConflictsAfterFork
  <1>12. CASE AcceptConflict(t)
    <2>1. t \in booked /\ DAG!SetConflictAccepted(t)
      BY <1>12 DEF AcceptConflict
    <2>2. DAG!IsAccepted(u)' => u \in DAG!NewlyAccepted(t) \/ DAG!IsAccepted(u)
      BY <2>1 DEF DAG!SetConflictAccepted, DAG!IsAccepted, DAG!Rejected, DAG!Accepted
    <2>3. UNCHANGED <<parents, conflictSetIDs>>
      BY <2>1 DEF DAG!SetConflictAccepted
    <2> QED
      BY <1>1, <1>2, <2>1, <2>2, <2>3, AcceptedIsBooked
  <1> QED
    BY <1>4, <1>6, <1>7, <1>8, <1>9, <1>10, <1>11, <1>12, WhoChangesWhat

(* The metadata lists conflicts of the past cone only.                     *)
LEMMA UpdateKeepsCones ==
  ASSUME IInv, [Next]_vars, NEW c \in TransactionID, NEW f \in TransactionID, NEW previous,
         UpdateConflictsAfterFork(c, f, previous), f \in PastOf(c), f \in KnownConflicts
  PROVE  /\ \A u \in TransactionID : conflictIDs'[u] \subseteq PastOf(u) \intersect KnownConflicts'
         /\ \A o \in OutputID : \A x \in outputConflictIDs'[o] :
              x \in KnownConflicts' /\ \E u \in TransactionID : o \in Outputs[u] /\ x \in PastOf(u)
  <1> DEFINE new == DAG!UnconfirmedConflicts((conflictIDs[c] \ previous) \union {f})
  <1>1. /\ \A u \in TransactionID : conflictIDs[u] \subseteq PastOf(u) \intersect KnownConflicts
        /\ \A o \in OutputID : \A x \in outputConflictIDs[o] :
             x \in KnownConflicts /\ \E u \in TransactionID : o \in Outputs[u] /\ x \in PastOf(u)
        /\ conflictIDs \in [TransactionID -> SUBSET TransactionID]
    BY DEF IInv, ConeInv, TypeOK
  <1>2. KnownConflicts \subseteq KnownConflicts'
    BY KnowledgeGrows
  <1>3. CASE UNCHANGED <<conflictIDs, outputConflictIDs>>
    BY <1>1, <1>2, <1>3
  <1>4. CASE /\ conflictIDs' = [conflictIDs EXCEPT ![c] = new]
             /\ outputConflictIDs' = [o \in OutputID |->
                  IF o \in OutputIDs(c) THEN new ELSE outputConflictIDs[o]]
    <2>1. new \subseteq PastOf(c) \intersect KnownConflicts
      BY <1>1 DEF DAG!UnconfirmedConflicts
    <2>2. \A o \in OutputIDs(c) : o \in Outputs[c]
      BY DEF OutputIDs
    <2> HIDE DEF new
    <2> QED
      BY <1>1, <1>2, <1>4, <2>1, <2>2
  <1> QED
    BY <1>3, <1>4 DEF UpdateConflictsAfterFork

LEMMA MetadataConesStep ==
  ASSUME IInv, [Next]_vars
  PROVE  /\ \A u \in TransactionID : conflictIDs'[u] \subseteq PastOf(u) \intersect KnownConflicts'
         /\ \A o \in OutputID : \A x \in outputConflictIDs'[o] :
              x \in KnownConflicts' /\ \E u \in TransactionID : o \in Outputs[u] /\ x \in PastOf(u)
  <1> DEFINE Goal ==
        /\ \A u \in TransactionID : conflictIDs'[u] \subseteq PastOf(u) \intersect KnownConflicts'
        /\ \A o \in OutputID : \A x \in outputConflictIDs'[o] :
             x \in KnownConflicts' /\ \E u \in TransactionID : o \in Outputs[u] /\ x \in PastOf(u)
  <1>1. /\ \A u \in TransactionID : conflictIDs[u] \subseteq PastOf(u) \intersect KnownConflicts
        /\ \A o \in OutputID : \A x \in outputConflictIDs[o] :
             x \in KnownConflicts /\ \E u \in TransactionID : o \in Outputs[u] /\ x \in PastOf(u)
        /\ conflictIDs \in [TransactionID -> SUBSET TransactionID]
    BY DEF IInv, ConeInv, TypeOK
  <1>2. KnownConflicts \subseteq KnownConflicts'
    BY KnowledgeGrows
  <1>3. CASE UNCHANGED <<conflictIDs, outputConflictIDs>>
    BY <1>1, <1>2, <1>3
  <1>4. SUFFICES ASSUME NEW t \in TransactionID,
                        Store(t) \/ Process(t) \/ EventLoop(t) \/ AcceptConflict(t)
                 PROVE  Goal
    BY <1>3 DEF Next, vars, metadataVars
  <1>5. CASE UpdateForkedTransaction(t)
    <2>1. Forking(t)
      BY <1>5 DEF UpdateForkedTransaction, Forking
    <2>2. Forked(t) \in TransactionID /\ Forked(t) \in KnownConflicts
      BY <2>1, ForkedFacts DEF IInv, LockInv, ForkInv, KnownConflicts
    <2> QED
      BY <1>5, <2>2, UpdateKeepsCones DEF UpdateForkedTransaction, Forked, PastOf
  <1>6. CASE PropagateToConsumer(t)
    <2>1. PICK c \in booking[t].visiting :
            UpdateConflictsAfterFork(c, Forked(t), booking[t].previousParents)
      BY <1>6 DEF PropagateToConsumer, Forked
    <2>2. /\ c \in TransactionID /\ Forked(t) \in PastOf(c)
          /\ Forked(t) \in TransactionID /\ Forked(t) \in KnownConflicts
      BY <1>6, PropagatedConflict DEF PropagateToConsumer, PastOf
    <2> QED
      BY <2>1, <2>2, UpdateKeepsCones
  <1>7. CASE BookTransaction(t)
    <2> DEFINE inherited ==
          IF booking[t].conflictingInputs = {} THEN booking[t].parentConflicts ELSE {t}
    <2>1. /\ conflictIDs' = [conflictIDs EXCEPT ![t] = inherited]
          /\ outputConflictIDs' = [o \in OutputID |->
               IF o \in Outputs[t] THEN inherited ELSE outputConflictIDs[o]]
          /\ booked' = booked \union {t}
          /\ UNCHANGED conflictVars
      BY <1>7 DEF BookTransaction
    <2>2. inherited \subseteq PastOf(t) \intersect KnownConflicts'
      <3>1. CASE booking[t].conflictingInputs = {}
        BY <1>2, <3>1 DEF IInv, ConeInv, PastOf
      <3>2. CASE booking[t].conflictingInputs # {}
        <4>1. Running(t, "fork")
          BY <1>7, <3>2 DEF BookTransaction, ReadyToBook
        <4>2. PICK o \in booking[t].conflictingInputs : o \in InputIDs(t) /\ t \in members[o]
          BY <3>2, <4>1 DEF IInv, RegisterInv, Registered, Running
        <4>3. DAG!Exists(t)
          BY <4>2, InputsAreOutputs DEF IInv, DAG!ReferencesMirrored
        <4> QED
          BY <2>1, <3>2, <4>3 DEF KnownConflicts, PastOf, conflictVars, DAG!Exists
      <3> QED
        BY <3>1, <3>2
    <2> HIDE DEF inherited
    <2> QED
      BY <1>1, <1>2, <2>1, <2>2
  <1> QED
    BY <1>3, <1>4, <1>5, <1>6, <1>7, WhoChangesWhat

(* What a goroutine inherits comes with its inputs.                        *)
LEMMA InheritedConesStep ==
  ASSUME IInv, [Next]_vars, NEW u \in TransactionID
  PROVE  booking'[u].parentConflicts \subseteq Ancestors[u] \intersect KnownConflicts'
  <1>1. /\ booking[u].parentConflicts \subseteq Ancestors[u] \intersect KnownConflicts
        /\ booking \in [TransactionID -> Goroutine]
    BY DEF IInv, ConeInv, TypeOK
  <1>2. KnownConflicts \subseteq KnownConflicts'
    BY KnowledgeGrows
  <1>3. CASE booking'[u].parentConflicts = booking[u].parentConflicts
    BY <1>1, <1>2, <1>3
  <1>4. SUFFICES ASSUME Store(u) \/ Process(u) \/ EventLoop(u) \/ AcceptConflict(u)
                 PROVE  booking'[u].parentConflicts \subseteq Ancestors[u] \intersect KnownConflicts'
    BY <1>3, OthersStand DEF Next, vars
  <1>5. booking[u] \in Goroutine
    BY <1>1
  <1>6. CASE Unsolid(u) \/ BookTransaction(u)
    BY <1>1, <1>6 DEF Unsolid, BookTransaction, NotRunning
  <1>7. CASE InheritConflictIDs(u)
    <2> DEFINE inherited ==
          DAG!UnconfirmedConflicts(UNION {outputConflictIDs[o] : o \in InputIDs(u)})
    <2>1. booking' = [booking EXCEPT ![u].at = "register", ![u].parentConflicts = inherited]
      BY <1>7 DEF InheritConflictIDs
    <2>2. booking'[u].parentConflicts = inherited
      <3> HIDE DEF inherited
      <3> QED
        BY <1>1, <1>5, <2>1 DEF Goroutine
    <2>3. ASSUME NEW o \in InputIDs(u), NEW c \in outputConflictIDs[o]
          PROVE  c \in Ancestors[u] \intersect KnownConflicts
      <3>1. o \in OutputID
        BY InputsAreOutputs
      <3>2. c \in KnownConflicts
        BY <3>1 DEF IInv, ConeInv
      <3>3. PICK p \in TransactionID : o \in Outputs[p] /\ c \in PastOf(p)
        BY <3>1 DEF IInv, ConeInv
      <3>4. p \in Ancestors[u]
        BY <3>1, <3>3, AncestorFacts
      <3>5. Ancestors[p] \subseteq Ancestors[u]
        BY <3>4, AncestorFacts
      <3> QED
        BY <3>2, <3>3, <3>4, <3>5 DEF PastOf
    <2>4. inherited \subseteq Ancestors[u] \intersect KnownConflicts
      BY <2>3 DEF DAG!UnconfirmedConflicts
    <2> QED
      BY <1>2, <2>2, <2>4
  <1>8. CASE RegisterBookedConsumer(u)
    BY <1>3, <1>8, Registration
  <1>9. CASE Store(u) \/ CreateOwnConflict(u) \/ ForkTransaction(u)
    <2>1. booking'[u].parentConflicts = booking[u].parentConflicts
      BY <1>1, <1>5, <1>9 DEF Store, CreateOwnConflict, ForkTransaction, Goroutine
    <2> QED
      BY <1>3, <2>1
  <1>10. CASE JoinConflictSets(u) \/ UpdateForkedTransaction(u)
    <2>1. booking'[u].parentConflicts = booking[u].parentConflicts
      BY <1>1, <1>5, <1>10 DEF JoinConflictSets, UpdateForkedTransaction, Goroutine
    <2> QED
      BY <1>3, <2>1
  <1>11. CASE VisitOutput(u) \/ PropagateToConsumer(u) \/ FinishFork(u)
    <2>1. CASE VisitOutput(u)
      BY <1>1, <1>3, <1>5, <2>1 DEF VisitOutput, Goroutine
    <2>2. CASE PropagateToConsumer(u)
      BY <1>1, <1>3, <1>5, <2>2 DEF PropagateToConsumer, Goroutine
    <2>3. CASE FinishFork(u)
      BY <1>1, <1>3, <1>5, <2>3 DEF FinishFork, Goroutine
    <2> QED
      BY <1>11, <2>1, <2>2, <2>3
  <1>12. CASE ProcessTransaction(u)
    BY <1>1, <1>3, <1>5, <1>12 DEF ProcessTransaction, Goroutine
  <1>13. CASE ProcessConsumingTransactions(u) \/ AcceptConflict(u)
    BY <1>3, <1>13 DEF ProcessConsumingTransactions, AcceptConflict
  <1> QED
    BY <1>4, <1>6, <1>7, <1>8, <1>9, <1>10, <1>11, <1>12, <1>13 DEF Process, EventLoop

LEMMA ConeStep == IInv /\ [Next]_vars => ConeInv'
  BY ConsumersStep, ConflictConesStep, MetadataConesStep, InheritedConesStep DEF ConeInv, PastOf

-----------------------------------------------------------------------------
(* The steps after which a goroutine is forking.                           *)
LEMMA ForkingSteps ==
  ASSUME IInv, NEW u \in TransactionID, Forking(u)',
         Store(u) \/ Process(u) \/ EventLoop(u) \/ AcceptConflict(u)
  PROVE  \/ ForkTransaction(u) \/ UpdateForkedTransaction(u)
         \/ VisitOutput(u) \/ PropagateToConsumer(u)
         \/ booking'[u] = booking[u]
  <1>1. /\ booking \in [TransactionID -> Goroutine] /\ booking[u] \in Goroutine
        /\ booking'[u].at \in {"update", "propagate"}
    BY DEF IInv, TypeOK, Forking, Running
  <1>2. ~Store(u) /\ ~InheritConflictIDs(u)
    BY <1>1 DEF Store, InheritConflictIDs, Goroutine
  <1>3. ~Unsolid(u) /\ ~BookTransaction(u)
    BY <1>1 DEF Unsolid, BookTransaction, NotRunning
  <1>4. ~RegisterBookedConsumer(u)
    BY <1>1, Registration
  <1>5. ~CreateOwnConflict(u) /\ ~FinishFork(u)
    BY <1>1 DEF CreateOwnConflict, FinishFork, Goroutine
  <1>6. ~JoinConflictSets(u)
    <2>1. JoinConflictSets(u) => booking'[u].at = "fork"
      BY <1>1 DEF JoinConflictSets, Running, Goroutine
    <2> QED
      BY <1>1, <2>1
  <1>7. ProcessTransaction(u) => booking'[u] = booking[u]
    BY <1>1 DEF ProcessTransaction, Goroutine
  <1> QED
    BY <1>2, <1>3, <1>4, <1>5, <1>6, <1>7
    DEF Process, EventLoop, ProcessConsumingTransactions, AcceptConflict

(* Forks.  The walk goes from a transaction to those that spend its        *)
(* outputs, and so on.                                                     *)
LEMMA WalkStep == IInv /\ [Next]_vars => WalkInv'
  <1> SUFFICES ASSUME IInv, [Next]_vars, NEW u \in TransactionID, Running(u, "propagate")'
               PROVE  /\ \A c \in booking'[u].visiting : Forked(u)' \in Ancestors[c]
                      /\ \A o \in booking'[u].walk :
                           \E c \in TransactionID : o \in Outputs[c] /\ Forked(u)' \in PastOf(c)
    BY DEF WalkInv, PastOf
  <1> DEFINE Goal == /\ \A c \in booking'[u].visiting : Forked(u)' \in Ancestors[c]
                     /\ \A o \in booking'[u].walk :
                          \E c \in TransactionID : o \in Outputs[c] /\ Forked(u)' \in PastOf(c)
  <1>1. /\ booking \in [TransactionID -> Goroutine] /\ booking[u] \in Goroutine
        /\ WalkInv
    BY DEF IInv, TypeOK
  <1>2. CASE booking'[u] = booking[u]
    BY <1>1, <1>2 DEF WalkInv, Running, Forked
  <1>3. SUFFICES ASSUME Store(u) \/ Process(u) \/ EventLoop(u) \/ AcceptConflict(u)
                 PROVE  Goal
    BY <1>2, OthersStand DEF Next, vars
  <1>4. CASE UpdateForkedTransaction(u)
    <2>1. /\ booking'[u].visiting = {} /\ booking'[u].walk = OutputIDs(Forked(u))
          /\ booking'[u].consumersToFork = booking[u].consumersToFork
      BY <1>1, <1>4 DEF UpdateForkedTransaction, Forked, Goroutine
    <2>2. Forked(u) \in TransactionID
      BY <1>4, ForkedFacts DEF UpdateForkedTransaction, Forking, IInv, LockInv
    <2> QED
      BY <2>1, <2>2 DEF Forked, PastOf, OutputIDs
  <1>5. CASE VisitOutput(u)
    <2>1. PICK o \in booking[u].walk :
            booking' = [booking EXCEPT ![u].walk = @ \ {o},
                                       ![u].visiting = consumers[o] \ booking[u].seen,
                                       ![u].seen = @ \union consumers[o]]
      BY <1>5 DEF VisitOutput
    <2>2. /\ booking'[u].visiting \subseteq consumers[o]
          /\ booking'[u].walk \subseteq booking[u].walk
          /\ booking'[u].consumersToFork = booking[u].consumersToFork
      BY <1>1, <2>1 DEF Goroutine
    <2>3. Running(u, "propagate")
      BY <1>5 DEF VisitOutput
    <2>4. ASSUME NEW c \in consumers[o]
          PROVE  Forked(u) \in Ancestors[c]
      <3>1. o \in OutputID
        BY <1>1 DEF Goroutine
      <3>2. c \in TransactionID /\ o \in InputIDs(c)
        BY <3>1 DEF IInv, TypeOK, ConeInv
      <3>3. PICK p \in TransactionID : o \in Outputs[p] /\ Forked(u) \in PastOf(p)
        BY <1>1, <2>3 DEF WalkInv
      <3>4. p \in Ancestors[c]
        BY <3>1, <3>2, <3>3, AncestorFacts
      <3> QED
        BY <3>2, <3>3, <3>4, AncestorFacts DEF PastOf
    <2> QED
      BY <1>1, <2>2, <2>3, <2>4 DEF WalkInv, Forked
  <1>6. CASE PropagateToConsumer(u)
    <2>1. PICK c \in booking[u].visiting :
            booking' = [booking EXCEPT
              ![u].visiting = @ \ {c},
              ![u].walk = IF UpdatesConflictIDs(c, Forked(u)) THEN @ \union OutputIDs(c) ELSE @]
      BY <1>6 DEF PropagateToConsumer, Forked
    <2>2. /\ booking'[u].visiting \subseteq booking[u].visiting
          /\ booking'[u].walk \subseteq booking[u].walk \union OutputIDs(c)
          /\ booking'[u].consumersToFork = booking[u].consumersToFork
      BY <1>1, <2>1 DEF Goroutine
    <2>3. /\ Running(u, "propagate")
          /\ c \in TransactionID /\ Forked(u) \in PastOf(c)
      BY <1>6, PropagatedConflict DEF PropagateToConsumer, PastOf
    <2> QED
      BY <1>1, <2>2, <2>3 DEF WalkInv, Forked, OutputIDs
  <1>7. CASE ForkTransaction(u)
    BY <1>1, <1>7 DEF ForkTransaction, Running, Goroutine
  <1> QED
    BY <1>2, <1>3, <1>4, <1>5, <1>6, <1>7, ForkingSteps DEF Forking, Running

(* Nobody else touches the metadata of a transaction that is being forked: *)
(* its entry is locked.                                                    *)
LEMMA ForkedIsLocked ==
  ASSUME IInv, [Next]_vars, NEW u \in TransactionID, Running(u, "update"),
         booking'[u] = booking[u]
  PROVE  conflictIDs'[Forked(u)] = conflictIDs[Forked(u)]
  <1>1. /\ Forked(u) \in TransactionID /\ mutex[Forked(u)] = u
        /\ Forked(u) # u
    BY ForkedFacts DEF Forking, IInv, LockInv, Running
  <1>2. /\ booking \in [TransactionID -> Goroutine] /\ u # EmptyTransactionID
        /\ conflictIDs \in [TransactionID -> SUBSET TransactionID]
    BY LedgerConstants DEF IInv, TypeOK
  <1>3. SUFFICES ASSUME NEW t \in TransactionID,
                        UpdateForkedTransaction(t) \/ PropagateToConsumer(t) \/ BookTransaction(t)
                 PROVE  conflictIDs'[Forked(u)] = conflictIDs[Forked(u)]
    BY WhoChangesWhat DEF Next, vars, metadataVars
  <1>4. CASE UpdateForkedTransaction(t)
    <2>1. booking'[t].at = "propagate" /\ booking[t].at = "update"
      BY <1>2, <1>4 DEF UpdateForkedTransaction, Running
    <2>2. t # u
      BY <2>1
    <2>3. mutex[Forked(t)] = t
      BY <2>1 DEF IInv, LockInv, Running
    <2> QED
      BY <1>1, <1>2, <1>4, <2>2, <2>3
      DEF UpdateForkedTransaction, UpdateConflictsAfterFork, Forked
  <1>5. CASE PropagateToConsumer(t)
    BY <1>1, <1>2, <1>5 DEF PropagateToConsumer, UpdateConflictsAfterFork
  <1>6. CASE BookTransaction(t)
    <2>1. booking[t].at # "idle" /\ booking[t].at # "update"
      BY <1>6 DEF BookTransaction, ReadyToBook, RegisteredAll, Running
    <2>2. mutex[t] = t
      BY <2>1 DEF IInv, LockInv, Running
    <2>3. t # Forked(u)
      BY <1>1, <2>1, <2>2 DEF Running
    <2> QED
      BY <1>1, <1>2, <1>6, <2>3 DEF BookTransaction
  <1> QED
    BY <1>3, <1>4, <1>5, <1>6

LEMMA ForkStep == IInv /\ [Next]_vars => ForkInv'
  <1> SUFFICES ASSUME IInv, [Next]_vars, NEW u \in TransactionID
               PROVE  /\ Forking(u)' => /\ DAG!Exists(Forked(u))'
                                        /\ Forked(u)' \notin booking'[u].previousParents
                      /\ Running(u, "update")' => Forked(u)' \notin conflictIDs'[Forked(u)']
    BY DEF ForkInv
  <1> DEFINE Goal == /\ Forking(u)' => /\ DAG!Exists(Forked(u))'
                                       /\ Forked(u)' \notin booking'[u].previousParents
                     /\ Running(u, "update")' => Forked(u)' \notin conflictIDs'[Forked(u)']
  <1>1. /\ booking \in [TransactionID -> Goroutine] /\ booking[u] \in Goroutine
        /\ ForkInv
    BY DEF IInv, TypeOK
  <1>2. Forking(u) => Forked(u) \in TransactionID
    BY ForkedFacts DEF IInv, LockInv
  <1>3. ASSUME Forking(u), Forked(u)' = Forked(u),
               booking'[u].previousParents = booking[u].previousParents
        PROVE  DAG!Exists(Forked(u))' /\ Forked(u)' \notin booking'[u].previousParents
    BY <1>1, <1>2, <1>3, ConflictsStay DEF ForkInv, DAG!Exists
  <1>4. CASE booking'[u] = booking[u]
    BY <1>1, <1>3, <1>4, ForkedIsLocked DEF ForkInv, Running, Forked, Forking
  <1>5. SUFFICES ASSUME Store(u) \/ Process(u) \/ EventLoop(u) \/ AcceptConflict(u)
                 PROVE  Goal
    BY <1>4, OthersStand DEF Next, vars
  <1>6. CASE ForkTransaction(u)
    <2> DEFINE f == Forked(u)
               previous == conflictIDs[Forked(u)]
    <2>1. booking' = [booking EXCEPT ![u].at = "update", ![u].previousParents = previous]
      BY <1>6 DEF ForkTransaction, Forked
    <2>2. /\ booking'[u].consumersToFork = booking[u].consumersToFork
          /\ booking'[u].previousParents = previous
      <3> HIDE DEF previous
      <3> QED
        BY <1>1, <2>1 DEF Goroutine
    <2>3. Forked(u)' = f /\ f \in TransactionID
      BY <1>6, <2>2, ForkedIsBooked DEF Forked, ForkTransaction
    <2>4. /\ ~DAG!Exists(f) /\ UNCHANGED conflictIDs
          /\ DAG!CreateConflict(f, previous, InputIDs(f) \intersect booking[u].conflictingInputs)
      BY <1>6 DEF ForkTransaction, Forked, DAG!CreateConflict, metadataVars
    <2>5. f \notin previous
      BY <2>3, <2>4 DEF IInv, ConeInv, KnownConflicts
    <2>6. DAG!Exists(f)'
      <3>1. confirmationState'[f] \in {DAG!Rejected, DAG!Pending}
        BY <2>3, <2>4 DEF DAG!CreateConflict, IInv, TypeOK, DAG!TypeOK
      <3> QED
        BY <2>3, <3>1 DEF DAG!Exists, DAG!Pending, DAG!Rejected, DAG!Undefined
    <2> QED
      BY <2>2, <2>3, <2>4, <2>5, <2>6 DEF DAG!Exists
  <1>7. CASE UpdateForkedTransaction(u)
    <2>1. /\ booking'[u].at = "propagate" /\ Running(u, "update")
          /\ booking'[u].previousParents = booking[u].previousParents
          /\ booking'[u].consumersToFork = booking[u].consumersToFork
      BY <1>1, <1>7 DEF UpdateForkedTransaction, Goroutine
    <2> QED
      BY <1>3, <2>1 DEF Forking, Forked, Running
  <1>8. CASE VisitOutput(u)
    <2>1. /\ booking'[u].at = "propagate" /\ Running(u, "propagate")
          /\ booking'[u].previousParents = booking[u].previousParents
          /\ booking'[u].consumersToFork = booking[u].consumersToFork
      BY <1>1, <1>8 DEF VisitOutput, Goroutine, Running
    <2> QED
      BY <1>3, <2>1 DEF Forking, Forked, Running
  <1>9. CASE PropagateToConsumer(u)
    <2>1. /\ booking'[u].at = "propagate" /\ Running(u, "propagate")
          /\ booking'[u].previousParents = booking[u].previousParents
          /\ booking'[u].consumersToFork = booking[u].consumersToFork
      BY <1>1, <1>9 DEF PropagateToConsumer, Goroutine, Running
    <2> QED
      BY <1>3, <2>1 DEF Forking, Forked, Running
  <1> QED
    BY <1>4, <1>5, <1>6, <1>7, <1>8, <1>9, ForkingSteps DEF Forking

-----------------------------------------------------------------------------
(* Spenders.  The first consumer of an output is set once, by a            *)
(* registration.                                                           *)
LEMMA FirstConsumerStays ==
  ASSUME IInv, [Next]_vars, NEW o \in OutputID
  PROVE  \/ firstConsumer'[o] = firstConsumer[o]
         \/ /\ firstConsumer[o] = EmptyTransactionID
            /\ \E t \in TransactionID :
                 /\ firstConsumer'[o] = t /\ o \in InputIDs(t) /\ booking'[t].at = "register"
  <1>1. CASE UNCHANGED firstConsumer
    BY <1>1
  <1>2. SUFFICES ASSUME NEW t \in TransactionID, RegisterBookedConsumer(t)
                 PROVE  \/ firstConsumer'[o] = firstConsumer[o]
                        \/ /\ firstConsumer[o] = EmptyTransactionID
                           /\ firstConsumer'[o] = t /\ o \in InputIDs(t)
                           /\ booking'[t].at = "register"
    BY <1>1, WhoChangesWhat DEF Next, vars
  <1> DEFINE p == Inputs[t][booking[t].registered + 1]
  <1>3. p \in InputIDs(t) /\ booking'[t].at = "register"
    BY <1>2, Registration, InputsAreOutputs DEF InputIDs, ToSet
  <1>4. \/ UNCHANGED firstConsumer
        \/ /\ firstConsumer[p] = EmptyTransactionID
           /\ firstConsumer' = [firstConsumer EXCEPT ![p] = t]
    BY <1>2, Registration
  <1> HIDE DEF p
  <1> QED
    BY <1>3, <1>4 DEF IInv, TypeOK

(* A goroutine that has registered goes on until its transaction is        *)
(* booked.                                                                 *)
LEMMA RegisteredGoOn ==
  ASSUME IInv, [Next]_vars, NEW u \in TransactionID, booking[u].at \notin {"idle", "check"}
  PROVE  booking'[u].at \notin {"idle", "check"} \/ u \in booked'
  <1>1. /\ booking \in [TransactionID -> Goroutine] /\ booking[u] \in Goroutine
    BY DEF IInv, TypeOK
  <1>2. CASE booking'[u] = booking[u]
    BY <1>2
  <1>3. SUFFICES ASSUME Store(u) \/ Process(u) \/ EventLoop(u) \/ AcceptConflict(u)
                 PROVE  booking'[u].at \notin {"idle", "check"} \/ u \in booked'
    BY <1>2, OthersStand DEF Next, vars
  <1>4. mutex[u] = u
    BY DEF IInv, LockInv, Running
  <1>5. ~Store(u) /\ ~ProcessTransaction(u) /\ ~Unsolid(u) /\ ~InheritConflictIDs(u)
    BY <1>4, LedgerConstants DEF Store, ProcessTransaction, Unsolid, InheritConflictIDs, Running
  <1>6. CASE RegisterBookedConsumer(u)
    BY <1>6, Registration
  <1>7. CASE CreateOwnConflict(u) \/ ForkTransaction(u) \/ FinishFork(u)
    BY <1>1, <1>7 DEF CreateOwnConflict, ForkTransaction, FinishFork, Goroutine
  <1>8. CASE UpdateForkedTransaction(u) \/ JoinConflictSets(u)
    BY <1>1, <1>8 DEF UpdateForkedTransaction, JoinConflictSets, Goroutine
  <1>9. CASE VisitOutput(u)
    BY <1>1, <1>9 DEF VisitOutput, Goroutine
  <1>10. CASE PropagateToConsumer(u)
    BY <1>1, <1>10 DEF PropagateToConsumer, Goroutine
  <1>11. CASE BookTransaction(u)
    BY <1>11 DEF BookTransaction
  <1>12. CASE ProcessConsumingTransactions(u) \/ AcceptConflict(u)
    BY <1>2, <1>12 DEF ProcessConsumingTransactions, AcceptConflict
  <1> QED
    BY <1>3, <1>5, <1>6, <1>7, <1>8, <1>9, <1>10, <1>11, <1>12 DEF Process, EventLoop

LEMMA NoticedStays ==
  ASSUME IInv, [Next]_vars, NEW t \in TransactionID, NEW o \in OutputID, Noticed(t, o)
  PROVE  Noticed(t, o)'
  BY FirstConsumerStays, ConflictsStay DEF Noticed

(* Whoever is booked has dealt with all of its inputs.                     *)
LEMMA BookedNotices ==
  ASSUME IInv, NEW t \in TransactionID, ReadyToBook(t), NEW o \in InputIDs(t)
  PROVE  Noticed(t, o)
  <1>1. /\ booking[t].at \notin {"idle", "check"} /\ ~Forking(t)
        /\ Running(t, "register") => booking[t].conflictingInputs = {}
        /\ Running(t, "fork") => booking[t].consumersToFork = <<>>
        /\ Running(t, "register") \/ Running(t, "fork")
    BY DEF ReadyToBook, RegisteredAll, Running, Forking
  <1>2. booking[t].registered = Len(Inputs[t])
    BY <1>1 DEF ReadyToBook, RegisteredAll, Running, IInv, RegisterInv, Registered
  <1>3. PICK i \in 1..Len(Inputs[t]) : o = Inputs[t][i]
    BY InputsAreOutputs DEF InputIDs, ToSet
  <1>4. /\ firstConsumer[o] # EmptyTransactionID
        /\ firstConsumer[o] = t \/ o \in booking[t].conflictingInputs
    BY <1>1, <1>2, <1>3 DEF IInv, RegisterInv, Registered
  <1>5. CASE o \in booking[t].conflictingInputs
    <2>1. Running(t, "fork")
      BY <1>1, <1>5
    <2>2. ToFork(t) = {}
      BY <1>1, <2>1 DEF ToFork, ToSet
    <2>3. firstConsumer[o] \in members[o] /\ t \in members[o]
      BY <1>1, <1>5, <2>1, <2>2 DEF IInv, RegisterInv, Registered, Running
    <2> QED
      BY <1>4, <2>3 DEF Noticed
  <1> QED
    BY <1>4, <1>5 DEF Noticed

LEMMA SpenderStep == IInv /\ [Next]_vars => SpenderInv'
  <1> SUFFICES ASSUME IInv, [Next]_vars
               PROVE  SpenderInv'
    OBVIOUS
  <1>1. ASSUME NEW o \in OutputID, firstConsumer'[o] # EmptyTransactionID
        PROVE  /\ o \in InputIDs(firstConsumer'[o])
               /\ \/ firstConsumer'[o] \in booked'
                  \/ booking'[firstConsumer'[o]].at \notin {"idle", "check"}
    <2>1. CASE firstConsumer'[o] = firstConsumer[o]
      <3>1. firstConsumer[o] \in TransactionID
        BY <1>1, <2>1 DEF IInv, TypeOK
      <3> QED
        BY <1>1, <2>1, <3>1, RegisteredGoOn, KnowledgeGrows DEF IInv, SpenderInv
    <2> QED
      BY <2>1, FirstConsumerStays
  <1>2. ASSUME NEW t \in booked', NEW o \in InputIDs(t)
        PROVE  Noticed(t, o)'
    <2>1. t \in TransactionID
      BY TypeStep DEF TypeOK
    <2>2. o \in OutputID
      BY <2>1, InputsAreOutputs
    <2>3. CASE t \in booked
      BY <2>1, <2>2, <2>3, NoticedStays DEF IInv, SpenderInv
    <2>4. CASE t \notin booked
      <3>1. BookTransaction(t)
        <4>1. UNCHANGED booked \/ \E u \in TransactionID : BookTransaction(u)
          BY WhoChangesWhat DEF Next, vars, metadataVars
        <4> QED
          BY <1>2, <2>4, <4>1 DEF BookTransaction
      <3>2. Noticed(t, o)
        BY <2>1, <3>1, BookedNotices DEF BookTransaction
      <3> QED
        BY <2>1, <2>2, <3>2, NoticedStays
    <2> QED
      BY <2>3, <2>4
  <1> QED
    BY <1>1, <1>2 DEF SpenderInv

(* What a goroutine has registered stays, as long as it leaves nobody it   *)
(* has to fork behind.                                                     *)
LEMMA RegisteredStays ==
  ASSUME IInv, [Next]_vars, NEW u \in TransactionID, Registered(u),
         booking'[u].registered = booking[u].registered,
         booking'[u].conflictingInputs = booking[u].conflictingInputs,
         ToSet(booking'[u].consumersToFork) \subseteq ToSet(booking[u].consumersToFork),
         \A o \in booking[u].conflictingInputs : firstConsumer[o] \in ToFork(u) =>
            firstConsumer[o] \in ToFork(u)' \/ firstConsumer[o] \in members'[o],
         Running(u, "register") =>
            Running(u, "register")' \/ /\ booking[u].registered = Len(Inputs[u])
                                       /\ booking[u].conflictingInputs # {}
                                       /\ \A o \in booking[u].conflictingInputs : u \in members'[o]
  PROVE  Registered(u)'
  <1>1. booking[u].registered \in Nat /\ booking[u].conflictingInputs \subseteq OutputID
    BY DEF IInv, TypeOK, Goroutine
  <1>2. ASSUME NEW o \in OutputID, firstConsumer[o] # EmptyTransactionID
        PROVE  firstConsumer'[o] = firstConsumer[o]
    BY <1>2, FirstConsumerStays
  <1>3. \A o \in OutputID : members[o] \subseteq members'[o]
    BY ConflictsStay
  <1>4. ASSUME NEW i \in 1..booking'[u].registered
        PROVE  /\ firstConsumer'[Inputs[u][i]] # EmptyTransactionID
               /\ \/ firstConsumer'[Inputs[u][i]] = u
                  \/ Inputs[u][i] \in booking'[u].conflictingInputs
    <2>1. Inputs[u][i] \in OutputID
      BY <1>1, InputsAreOutputs DEF Registered
    <2> QED
      BY <1>2, <2>1 DEF Registered
  <1>5. ASSUME NEW o \in booking'[u].conflictingInputs
        PROVE  /\ o \in InputIDs(u) /\ firstConsumer'[o] # EmptyTransactionID
               /\ firstConsumer'[o] \in ToFork(u)' \/ firstConsumer'[o] \in members'[o]
               /\ Running(u, "register")' \/ u \in members'[o]
    BY <1>1, <1>2, <1>3 DEF Registered
  <1>6. ASSUME NEW f \in ToSet(booking'[u].consumersToFork)
        PROVE  \E o \in booking'[u].conflictingInputs : firstConsumer'[o] = f
    BY <1>1, <1>2 DEF Registered
  <1>7. Running(u, "register")' \/ /\ booking'[u].registered = Len(Inputs[u])
                                   /\ booking'[u].conflictingInputs # {}
    BY DEF Registered
  <1> QED
    BY <1>4, <1>5, <1>6, <1>7 DEF Registered

(* The first consumer that joins the conflict sets it is forked for is     *)
(* forked as far as the conflict sets go.                                  *)
LEMMA ForkedJoins ==
  ASSUME IInv, NEW t \in TransactionID, ForkTransaction(t) \/ JoinConflictSets(t),
         NEW o \in booking[t].conflictingInputs, firstConsumer[o] = Forked(t)
  PROVE  Forked(t) \in members'[o]
  <1>1. o \in OutputID /\ o \in InputIDs(Forked(t)) /\ Forked(t) \in TransactionID
    <2>1. o \in OutputID
      BY DEF IInv, TypeOK, Goroutine
    <2>2. Forked(t) \in TransactionID
      BY ForkedIsBooked DEF ForkTransaction, JoinConflictSets, Forked
    <2> QED
      BY <2>1, <2>2, LedgerConstants DEF IInv, SpenderInv
  <1>2. CASE ForkTransaction(t)
    <2>1. DAG!CreateConflict(Forked(t), conflictIDs[Forked(t)],
                             InputIDs(Forked(t)) \intersect booking[t].conflictingInputs)
      BY <1>2 DEF ForkTransaction, Forked
    <2> QED
      BY <1>1, <2>1 DEF DAG!CreateConflict
  <1>3. CASE JoinConflictSets(t)
    <2>1. DAG!UpdateConflictingResources(Forked(t),
                             InputIDs(Forked(t)) \intersect booking[t].conflictingInputs)
      BY <1>3 DEF JoinConflictSets, Forked
    <2>2. o \in conflictSetIDs[Forked(t)] => Forked(t) \in members[o]
      BY <1>1 DEF IInv, DAG!ReferencesMirrored
    <2> QED
      BY <1>1, <2>1, <2>2 DEF DAG!UpdateConflictingResources
  <1> QED
    BY <1>2, <1>3

LEMMA RegisterStep == IInv /\ [Next]_vars => RegisterInv'
  <1> SUFFICES ASSUME IInv, [Next]_vars, NEW u \in TransactionID,
                      booking'[u].at \notin {"idle", "check"}
               PROVE  Registered(u)'
    BY DEF RegisterInv
  <1>1. /\ booking \in [TransactionID -> Goroutine] /\ booking[u] \in Goroutine
    BY DEF IInv, TypeOK
  <1>2. booking[u].at \notin {"idle", "check"} => Registered(u)
    BY DEF IInv, RegisterInv
  <1>3. CASE booking'[u] = booking[u]
    BY <1>2, <1>3, RegisteredStays DEF ToFork, Forking, Running
  <1>4. SUFFICES ASSUME Store(u) \/ Process(u) \/ EventLoop(u) \/ AcceptConflict(u)
                 PROVE  Registered(u)'
    BY <1>3, OthersStand DEF Next, vars
  <1>5. ~Store(u) /\ ~Unsolid(u) /\ ~BookTransaction(u)
    BY <1>1 DEF Store, Unsolid, BookTransaction, NotRunning, Goroutine
  <1>6. ProcessTransaction(u) => booking'[u] = booking[u]
    BY <1>1 DEF ProcessTransaction, Goroutine
  <1>7. CASE InheritConflictIDs(u)
    <2>1. /\ booking'[u].registered = 0 /\ booking'[u].conflictingInputs = {}
          /\ booking'[u].consumersToFork = <<>> /\ booking'[u].at = "register"
      <3>1. /\ booking[u].registered = 0 /\ booking[u].conflictingInputs = {}
            /\ booking[u].consumersToFork = <<>>
        <4>1. Running(u, "check")
          BY <1>7 DEF InheritConflictIDs
        <4>2. PICK step : booking[u] = [NotRunning EXCEPT !.at = step]
          BY <4>1 DEF IInv, LockInv
        <4> QED
          BY <4>2 DEF NotRunning
      <3> QED
        BY <1>1, <1>7, <3>1 DEF InheritConflictIDs, Goroutine
    <2> QED
      BY <2>1, InputsAreOutputs DEF Registered, Running, ToSet
  <1>8. CASE CreateOwnConflict(u)
    <2>1. /\ booking'[u].registered = booking[u].registered
          /\ booking'[u].conflictingInputs = booking[u].conflictingInputs
          /\ booking'[u].consumersToFork = booking[u].consumersToFork
          /\ booking'[u].at = "fork" /\ booking[u].at = "register"
          /\ booking[u].registered = Len(Inputs[u]) /\ booking[u].conflictingInputs # {}
      BY <1>1, <1>8 DEF CreateOwnConflict, RegisteredAll, Running, Goroutine
    <2>2. \A o \in booking[u].conflictingInputs : u \in members'[o]
      BY <1>1, <1>8 DEF CreateOwnConflict, DAG!CreateConflict, Goroutine
    <2>3. ToFork(u)' = ToFork(u)
      BY <2>1 DEF ToFork, Forking, Running
    <2> QED
      BY <1>2, <2>1, <2>2, <2>3, RegisteredStays
  <1>9. CASE RegisterBookedConsumer(u)
    <2> DEFINE o == Inputs[u][booking[u].registered + 1]
    <2>1. Registered(u)
      BY <1>2, <1>9 DEF RegisterBookedConsumer, Running
    <2>2. booking[u].registered \in Nat /\ booking[u].conflictingInputs \subseteq OutputID
      BY <1>1 DEF Goroutine
    <2>3. /\ booking[u].registered + 1 \in 1..Len(Inputs[u]) /\ o \in OutputID
          /\ Running(u, "register") /\ Running(u, "register")'
          /\ booking'[u].registered = booking[u].registered + 1
          /\ \/ /\ firstConsumer[o] = EmptyTransactionID
                /\ firstConsumer' = [firstConsumer EXCEPT ![o] = u]
                /\ booking'[u].conflictingInputs = booking[u].conflictingInputs
                /\ booking'[u].consumersToFork = booking[u].consumersToFork
             \/ /\ firstConsumer[o] # EmptyTransactionID /\ UNCHANGED firstConsumer
                /\ booking'[u].conflictingInputs = booking[u].conflictingInputs \union {o}
                /\ ToSet(booking'[u].consumersToFork) =
                     ToSet(booking[u].consumersToFork) \union {firstConsumer[o]}
      BY <1>9, Registration DEF Running
    <2>4. o \in InputIDs(u)
      <3>1. Inputs[u] \in Seq(OutputID)
        BY InputsAreOutputs
      <3>2. booking[u].registered + 1 \in 1..Len(Inputs[u])
        BY <2>3
      <3> QED
        BY <3>1, <3>2 DEF InputIDs, ToSet
    <2>5. /\ ToFork(u) = ToSet(booking[u].consumersToFork)
          /\ ToFork(u)' = ToSet(booking'[u].consumersToFork)
      BY <2>3 DEF ToFork, Forking, Running
    <2>6. \A p \in OutputID : firstConsumer[p] # EmptyTransactionID =>
                              firstConsumer'[p] = firstConsumer[p]
      BY FirstConsumerStays
    <2>7. \A p \in OutputID : members[p] \subseteq members'[p]
      BY ConflictsStay
    <2>8. /\ firstConsumer'[o] # EmptyTransactionID
          /\ firstConsumer'[o] = u \/ o \in booking'[u].conflictingInputs
      BY <2>3, LedgerConstants DEF IInv, TypeOK
    <2>9. ASSUME NEW i \in 1..booking'[u].registered
          PROVE  /\ firstConsumer'[Inputs[u][i]] # EmptyTransactionID
                 /\ \/ firstConsumer'[Inputs[u][i]] = u
                    \/ Inputs[u][i] \in booking'[u].conflictingInputs
      <3>1. CASE i = booking[u].registered + 1
        BY <2>8, <3>1
      <3>2. CASE i \in 1..booking[u].registered
        <4>1. Inputs[u][i] \in OutputID
          BY <2>2, <2>3, <3>2, InputsAreOutputs
        <4> HIDE DEF o
        <4> QED
          BY <2>1, <2>3, <2>6, <3>2, <4>1 DEF Registered
      <3> QED
        BY <2>2, <2>3, <3>1, <3>2
    <2>10. ASSUME NEW p \in booking'[u].conflictingInputs
           PROVE  /\ p \in InputIDs(u) /\ firstConsumer'[p] # EmptyTransactionID
                  /\ firstConsumer'[p] \in ToFork(u)' \/ firstConsumer'[p] \in members'[p]
      <3>1. CASE p \in booking[u].conflictingInputs
        <4> HIDE DEF o
        <4> QED
          BY <2>1, <2>2, <2>3, <2>5, <2>6, <2>7, <3>1 DEF Registered
      <3>2. CASE p = o /\ firstConsumer[o] # EmptyTransactionID
        <4> HIDE DEF o
        <4>1. firstConsumer'[o] = firstConsumer[o] /\ firstConsumer[o] \in ToFork(u)'
          BY <2>3, <2>5, <3>2
        <4> QED
          BY <2>4, <3>2, <4>1
      <3> QED
        BY <2>3, <3>1, <3>2
    <2>11. ASSUME NEW f \in ToSet(booking'[u].consumersToFork)
           PROVE  \E p \in booking'[u].conflictingInputs : firstConsumer'[p] = f
      <3>1. CASE f \in ToSet(booking[u].consumersToFork)
        <4> HIDE DEF o
        <4> QED
          BY <2>1, <2>2, <2>3, <2>6, <3>1 DEF Registered
      <3> QED
        BY <2>3, <3>1
    <2>12. /\ Running(u, "register")' /\ booking'[u].registered \in 0..Len(Inputs[u])
           /\ booking'[u].registered \in Nat
      BY <2>2, <2>3
    <2> HIDE DEF o
    <2> QED
      BY <2>3, <2>9, <2>10, <2>11, InputsAreOutputs DEF Registered
  <1>10. CASE ForkTransaction(u)
    <2>1. /\ booking'[u].registered = booking[u].registered
          /\ booking'[u].conflictingInputs = booking[u].conflictingInputs
          /\ booking'[u].consumersToFork = booking[u].consumersToFork
          /\ booking'[u].at = "update" /\ booking[u].at = "fork"
          /\ booking[u].consumersToFork # <<>>
      BY <1>1, <1>10 DEF ForkTransaction, Running, Goroutine
    <2>2. ToFork(u) = {Forked(u)} \union ToFork(u)'
      BY <2>1, ForkedFacts DEF ToFork, Forking, Running, IInv
    <2> QED
      BY <1>2, <1>10, <2>1, <2>2, ForkedJoins, RegisteredStays DEF Running
  <1>11. CASE JoinConflictSets(u)
    <2>1. /\ booking'[u].registered = booking[u].registered
          /\ booking'[u].conflictingInputs = booking[u].conflictingInputs
          /\ booking'[u].consumersToFork = Tail(booking[u].consumersToFork)
          /\ booking'[u].at = "fork" /\ booking[u].at = "fork"
          /\ booking[u].consumersToFork # <<>>
      BY <1>1, <1>11 DEF JoinConflictSets, Running, Goroutine
    <2>2. ToFork(u) = {Forked(u)} \union ToFork(u)'
      BY <2>1, ForkedFacts DEF ToFork, Forking, Running, IInv
    <2>3. ToSet(booking'[u].consumersToFork) \subseteq ToSet(booking[u].consumersToFork)
      BY <2>1, ForkedFacts DEF IInv
    <2> QED
      BY <1>2, <1>11, <2>1, <2>2, <2>3, ForkedJoins, RegisteredStays DEF Running
  <1>12. ASSUME booking'[u].registered = booking[u].registered,
                booking'[u].conflictingInputs = booking[u].conflictingInputs,
                booking'[u].consumersToFork = booking[u].consumersToFork,
                Forking(u), Forking(u)'
         PROVE  Registered(u)'
    <2>1. booking[u].at \notin {"idle", "check", "register"}
      BY <1>12 DEF Forking, Running
    <2>2. ToFork(u)' = ToFork(u)
      BY <1>12 DEF ToFork
    <2> QED
      BY <1>2, <1>12, <2>1, <2>2, RegisteredStays DEF Running
  <1>13. CASE UpdateForkedTransaction(u)
    BY <1>1, <1>12, <1>13 DEF UpdateForkedTransaction, Forking, Running, Goroutine
  <1>14. CASE VisitOutput(u)
    BY <1>1, <1>12, <1>14 DEF VisitOutput, Forking, Running, Goroutine
  <1>15. CASE PropagateToConsumer(u)
    BY <1>1, <1>12, <1>15 DEF PropagateToConsumer, Forking, Running, Goroutine
  <1>16. CASE FinishFork(u)
    <2>1. /\ booking'[u].registered = booking[u].registered
          /\ booking'[u].conflictingInputs = booking[u].conflictingInputs
          /\ booking'[u].consumersToFork = Tail(booking[u].consumersToFork)
          /\ booking'[u].at = "fork" /\ booking[u].at = "propagate"
      BY <1>1, <1>16 DEF FinishFork, Running, Goroutine
    <2>2. ToFork(u)' = ToFork(u)
      BY <2>1 DEF ToFork, Forking, Running
    <2>3. booking[u].consumersToFork # <<>>
      BY <2>1 DEF IInv, LockInv, Forking, Running
    <2>4. ToSet(booking'[u].consumersToFork) \subseteq ToSet(booking[u].consumersToFork)
      BY <2>1, <2>3, ForkedFacts DEF IInv
    <2> QED
      BY <1>2, <2>1, <2>2, <2>4, RegisteredStays DEF Running
  <1> QED
    BY <1>3, <1>4, <1>5, <1>6, <1>7, <1>8, <1>9, <1>10, <1>11, <1>13, <1>14, <1>15, <1>16
    DEF Process, EventLoop, ProcessConsumingTransactions, AcceptConflict

-----------------------------------------------------------------------------
LEMMA InitIInv == Init => IInv
  <1> SUFFICES ASSUME Init
               PROVE  IInv
    OBVIOUS
  <1> USE DEF Init, DAG!Init
  <1>1. NotRunning \in Goroutine
    BY DEF NotRunning, Goroutine
  <1>2. TypeOK
    BY <1>1 DEF TypeOK, DAG!TypeOK, GenesisOutputs
  <1>3. LockInv
    BY LedgerConstants DEF LockInv, Running, Forking, NotRunning
  <1>4. DAG!ReferencesMirrored /\ DAG!AtMostOneAccepted
    BY DEF DAG!ReferencesMirrored, DAG!AtMostOneAccepted, DAG!IsAccepted, DAG!Undefined,
           DAG!Accepted
  <1>5. ConeInv
    BY DEF ConeInv, DAG!IsAccepted, DAG!Undefined, DAG!Accepted, NotRunning
  <1>6. WalkInv /\ SpenderInv /\ RegisterInv /\ ForkInv
    BY DEF WalkInv, SpenderInv, RegisterInv, ForkInv, Forking, Running, NotRunning
  <1> QED
    BY <1>2, <1>3, <1>4, <1>5, <1>6 DEF IInv

LEMMA Inductive == Spec => []IInv
  <1>1. IInv /\ [Next]_vars => IInv'
    BY TypeStep, LockStep, DAGInvStep, ConeStep, WalkStep, SpenderStep, RegisterStep, ForkStep
    DEF IInv
  <1> QED
    BY <1>1, InitIInv, PTL DEF Spec

(* Every goroutine's local state, every set of conflicts and every lock    *)
(* has its type, and only stored transactions are booked or submitted.     *)
THEOREM TypeCorrect == Spec => []TypeOK
  <1>1. IInv => TypeOK
    BY DEF IInv
  <1> QED
    BY <1>1, Inductive, PTL

(* The ledger keeps the contract of the ConflictDAG: new conflicts have    *)
(* stored parents, forks move conflicts along the inputs, and an accepted  *)
(* conflict never joins a conflict set with another accepted member.       *)
THEOREM ConflictDAGImplemented == Spec => ImplementsConflictDAG
  <1>1. Init => DAG!Init
    BY DEF Init
  <1>2. IInv /\ [Next]_vars => [UNCHANGED DAG!vars \/ DAG!Next]_(DAG!vars)
    BY DAGStep DEF DAG!vars, conflictVars
  <1> QED
    BY <1>1, <1>2, Inductive, PTL DEF Spec, ImplementsConflictDAG

(* No double spend goes unnoticed: as soon as two spenders of an output    *)
(* are booked, both are members of its conflict set.                       *)
THEOREM DoubleSpendsAreNoticed == Spec => []SpendersConflict
  <1>1. IInv => SpendersConflict
    <2> SUFFICES ASSUME IInv, NEW t \in booked, NEW u \in booked,
                        NEW o \in InputIDs(t) \intersect InputIDs(u), t # u
                 PROVE  {t, u} \subseteq members[o]
      BY DEF SpendersConflict
    <2>1. o \in OutputID
      BY InputsAreOutputs DEF IInv, TypeOK
    <2> QED
      BY <2>1, BothAreMembers
  <1> QED
    BY <1>1, Inductive, PTL

(* No double spend is accepted, also while forks are on their way: what is *)
(* accepted is booked, what is booked competes, and the ConflictDAG        *)
(* accepts one of the competitors at most.                                 *)
THEOREM NoDoubleSpend == Spec => []NoDoubleSpendAccepted
  <1>1. IInv => NoDoubleSpendAccepted
    <2> SUFFICES ASSUME IInv, NEW t \in TransactionID, NEW u \in TransactionID, t # u,
                        NEW o \in InputIDs(t) \intersect InputIDs(u),
                        DAG!IsAccepted(t), DAG!IsAccepted(u)
                 PROVE  FALSE
      BY DEF NoDoubleSpendAccepted
    <2>1. t \in booked /\ u \in booked /\ o \in OutputID
      BY InputsAreOutputs DEF IInv, ConeInv
    <2>2. t \in members[o] /\ u \in members[o]
      BY <2>1, BothAreMembers
    <2>3. u \in DAG!Conflicting(t)
      BY <2>1, <2>2 DEF IInv, DAG!ReferencesMirrored, DAG!Conflicting
    <2> QED
      BY <2>3 DEF IInv, DAG!AtMostOneAccepted
  <1> QED
    BY <1>1, Inductive, PTL

-----------------------------------------------------------------------------
(* The future cones, as long as nothing is decided.                        *)
(*                                                                         *)
(* What a transaction depends on only grows with the steps of the others.  *)
(* When it passes its check it depends on what its inputs depend on; what  *)
(* its inputs inherit later is on its way to it, in the walk of a fork,    *)
(* until it is inherited too (EdgeInv).  Between the runs nothing is on    *)
(* its way.                                                                *)

AllPending ==
  \A c \in TransactionID : confirmationState[c] \in {DAG!Undefined, DAG!Pending}

(* The conflicts that a transaction depends on: those of its metadata, or  *)
(* those that it has inherited and will be booked with.                    *)
Knows(t) ==
  DAG!Closure(IF t \in booked THEN conflictIDs[t] ELSE booking[t].parentConflicts, parents)

PastCheck(t) == t \in booked \/ booking[t].at \notin {"idle", "check"}

Created(t) == booking[t].at \in {"fork", "update", "propagate"}

(* What is solid has booked predecessors, and every output has the         *)
(* conflicts of the transaction that creates it.                           *)
SolidInv ==
  /\ available = GenesisOutputs \union UNION {Outputs[t] : t \in booked}
  /\ \A t \in TransactionID : PastCheck(t) => Predecessors(t) \subseteq booked
  /\ \A t \in stored : \A o \in InputIDs(t) : t \in consumers[o]
  /\ \A u \in booked : \A o \in Outputs[u] : outputConflictIDs[o] = conflictIDs[u]

(* A transaction that is a conflict depends on itself only, once its       *)
(* metadata is updated; the conflict stands for what it inherited before.  *)
OwnInv ==
  \A t \in TransactionID :
    /\ Created(t) => /\ DAG!Exists(t)
                     /\ booking[t].parentConflicts \subseteq DAG!Closure({t}, parents)
    /\ DAG!Exists(t) => t \in booked \/ Created(t)
    /\ DAG!Exists(t) /\ t \in booked =>
         \/ conflictIDs[t] = {t}
         \/ \E g \in TransactionID : Running(g, "update") /\ Forked(g) = t
    /\ Forking(t) => booking[t].previousParents \subseteq DAG!Closure({Forked(t)}, parents)
    /\ Running(t, "update") => booking[t].previousParents = conflictIDs[Forked(t)]

(* The walk of a fork: the creators of the outputs it has to visit depend  *)
(* on the forked conflict, and so does who was visited.                    *)
SeenInv ==
  \A g \in TransactionID : Running(g, "propagate") =>
    /\ \A o \in booking[g].walk : \E x \in booked : o \in Outputs[x] /\ Forked(g) \in Knows(x)
    /\ booking[g].visiting \subseteq booking[g].seen
    /\ \A t \in booking[g].seen :
         \E x \in Predecessors(t) : x \in booked /\ Forked(g) \in Knows(x)
    /\ \A t \in booking[g].seen \ booking[g].visiting : PastCheck(t) => Forked(g) \in Knows(t)

(* A fork will take a conflict along an input of a transaction.            *)
OnItsWay(c, u, t) ==
  \E g \in TransactionID :
    /\ Running(g, "propagate") /\ Forked(g) = c
    /\ \/ t \in booking[g].visiting
       \/ booking[g].walk \intersect Outputs[u] \intersect InputIDs(t) # {}

EdgeInv ==
  \A t \in TransactionID : PastCheck(t) =>
    \A u \in Predecessors(t) : \A c \in conflictIDs[u] : c \in Knows(t) \/ OnItsWay(c, u, t)

InheritInv == SolidInv /\ OwnInv /\ SeenInv /\ EdgeInv

-----------------------------------------------------------------------------
LEMMA ClosureFacts ==
  ASSUME NEW p \in [TransactionID -> SUBSET TransactionID], NEW X \in SUBSET TransactionID
  PROVE  /\ X \subseteq DAG!Closure(X, p) /\ DAG!Closure(X, p) \in SUBSET TransactionID
         /\ \A x \in DAG!Closure(X, p) : p[x] \subseteq DAG!Closure(X, p)
         /\ \A S \in SUBSET TransactionID :
              X \subseteq S /\ (\A x \in S : p[x] \subseteq S) => DAG!Closure(X, p) \subseteq S
         /\ \A Y \in SUBSET DAG!Closure(X, p) : DAG!Closure(Y, p) \subseteq DAG!Closure(X, p)
  <1> DEFINE C == DAG!Closure(X, p)
  <1>1. C = {c \in TransactionID : \A S \in SUBSET TransactionID :
               X \subseteq S /\ (\A x \in S : p[x] \subseteq S) => c \in S}
    BY WalkIsIntersection
  <1>2. X \subseteq C /\ C \in SUBSET TransactionID
    BY <1>1
  <1>3. \A x \in C : p[x] \subseteq C
    <2> SUFFICES ASSUME NEW x \in C, NEW y \in p[x], NEW S \in SUBSET TransactionID,
                        X \subseteq S, \A z \in S : p[z] \subseteq S
                 PROVE  y \in S
      BY <1>1
    <2>1. x \in S
      BY <1>1
    <2> QED
      BY <2>1
  <1>4. \A S \in SUBSET TransactionID :
          X \subseteq S /\ (\A x \in S : p[x] \subseteq S) => C \subseteq S
    BY <1>1
  <1>5. ASSUME NEW Y \in SUBSET C
        PROVE  DAG!Closure(Y, p) \subseteq C
    <2>1. Y \in SUBSET TransactionID
      BY <1>2
    <2>2. DAG!Closure(Y, p) = {c \in TransactionID : \A S \in SUBSET TransactionID :
               Y \subseteq S /\ (\A x \in S : p[x] \subseteq S) => c \in S}
      BY <2>1, WalkIsIntersection
    <2> HIDE DEF C
    <2> QED
      BY <1>2, <1>3, <2>2
  <1> QED
    BY <1>2, <1>3, <1>4, <1>5

(* A closure only grows when every step of the old walk is a walk of the   *)
(* new one.                                                                *)
LEMMA CoverageKept ==
  ASSUME NEW p \in [TransactionID -> SUBSET TransactionID],
         NEW q \in [TransactionID -> SUBSET TransactionID],
         \A x \in TransactionID : p[x] \subseteq DAG!Closure(q[x], q),
         NEW X \in SUBSET TransactionID
  PROVE  DAG!Closure(X, p) \subseteq DAG!Closure(X, q)
  <1> DEFINE S == DAG!Closure(X, q)
  <1>1. X \subseteq S /\ S \in SUBSET TransactionID /\ \A x \in S : q[x] \subseteq S
    BY ClosureFacts
  <1>2. \A Y \in SUBSET S : DAG!Closure(Y, q) \subseteq S
    BY ClosureFacts
  <1>3. \A x \in S : p[x] \subseteq S
    BY <1>1, <1>2
  <1>4. \A Z \in SUBSET TransactionID :
          X \subseteq Z /\ (\A x \in Z : p[x] \subseteq Z) => DAG!Closure(X, p) \subseteq Z
    BY ClosureFacts
  <1> QED
    BY <1>1, <1>3, <1>4

(* A larger start reaches as much.                                         *)
LEMMA ClosureGrows ==
  ASSUME NEW p \in [TransactionID -> SUBSET TransactionID],
         NEW Y \in SUBSET TransactionID, NEW X \in SUBSET Y
  PROVE  DAG!Closure(X, p) \subseteq DAG!Closure(Y, p)
  BY ClosureFacts

(* Decisions stay decisions: as long as nothing is decided nothing was,    *)
(* and no step has accepted anything.                                      *)
LEMMA DecisionsStay ==
  ASSUME IInv, [Next]_vars, AllPending'
  PROVE  AllPending /\ \A t \in TransactionID : ~AcceptConflict(t)
  <1> DEFINE Undecided == {DAG!Undefined, DAG!Pending}
  <1>1. /\ DAG!Rejected \notin Undecided /\ DAG!Accepted \notin Undecided
        /\ DAG!Undefined \in Undecided /\ DAG!Accepted # DAG!Pending
    BY DEF DAG!Rejected, DAG!Accepted, DAG!Undefined, DAG!Pending
  <1>2. ASSUME NEW id \in TransactionID, DAG!SetConflictAccepted(id)
        PROVE  confirmationState' = confirmationState
               /\ DAG!NewlyAccepted(id) \intersect TransactionID = {}
    <2>1. confirmationState' =
            [c \in TransactionID |->
               IF c \in DAG!NewlyRejected(id) THEN DAG!Rejected
               ELSE IF c \in DAG!NewlyAccepted(id) THEN DAG!Accepted
                    ELSE confirmationState[c]]
      BY <1>2 DEF DAG!SetConflictAccepted
    <2>2. \A c \in TransactionID : /\ c \notin DAG!NewlyRejected(id)
                                   /\ c \notin DAG!NewlyAccepted(id)
                                   /\ confirmationState'[c] = confirmationState[c]
      BY <1>1, <2>1 DEF AllPending
    <2>3. confirmationState \in [TransactionID -> {DAG!Undefined, DAG!Rejected, DAG!Pending,
                                                   DAG!Accepted}]
      BY DEF IInv, TypeOK, DAG!TypeOK
    <2> QED
      BY <2>1, <2>2, <2>3
  <1>3. AllPending
    <2>1. CASE UNCHANGED confirmationState
      BY <2>1 DEF AllPending
    <2>2. CASE DAG!Create
      BY <1>1, <2>2 DEF DAG!Create, DAG!CreateConflict, DAG!Exists, AllPending,
         IInv, TypeOK, DAG!TypeOK
    <2>3. CASE DAG!ForkParents \/ DAG!ForkResources
      BY <2>1, <2>3 DEF DAG!ForkParents, DAG!UpdateConflictParents, DAG!ForkResources,
         DAG!UpdateConflictingResources
    <2>4. CASE DAG!Accept
      BY <1>2, <2>1, <2>4 DEF DAG!Accept, DAG!Stored
    <2> QED
      BY <2>1, <2>2, <2>3, <2>4, DAGStep DEF DAG!Next, conflictVars
  <1>4. ASSUME NEW t \in TransactionID, AcceptConflict(t)
        PROVE  FALSE
    <2> DEFINE start == {t} \ {c \in TransactionID : DAG!IsAccepted(c)}
               succ == [c \in TransactionID |-> {p \in parents[c] : ~DAG!IsAccepted(p)}]
    <2>1. confirmationState[t] = DAG!Pending /\ DAG!SetConflictAccepted(t)
      BY <1>4 DEF AcceptConflict
    <2>2. t \in start /\ start \in SUBSET TransactionID
      BY <1>1, <2>1 DEF DAG!IsAccepted
    <2>3. succ \in [TransactionID -> SUBSET TransactionID]
      BY DEF IInv, TypeOK, DAG!TypeOK
    <2>4. DAG!NewlyAccepted(t) = DAG!Closure(start, succ)
      BY DEF DAG!NewlyAccepted
    <2> HIDE DEF start, succ
    <2>5. t \in DAG!NewlyAccepted(t)
      BY <2>2, <2>3, <2>4, ClosureFacts
    <2> QED
      BY <1>2, <2>1, <2>5
  <1> QED
    BY <1>3, <1>4

(* Nothing is Accepted: the inherited conflicts are all of them.           *)
LEMMA NothingIsMerged ==
  ASSUME AllPending, NEW ids \in SUBSET TransactionID
  PROVE  DAG!UnconfirmedConflicts(ids) = ids
  BY DEF AllPending, DAG!UnconfirmedConflicts, DAG!IsAccepted, DAG!Accepted, DAG!Undefined,
         DAG!Pending

(* The steps of one goroutine or of the event loop before anything is      *)
(* decided.                                                                *)
PendingStep(t) ==
  /\ t \in TransactionID
  /\ IInv /\ IInv' /\ InheritInv /\ AllPending /\ AllPending'
  /\ Store(t) \/ Process(t) \/ EventLoop(t)

LEMMA PendingStepFacts ==
  ASSUME NEW t, PendingStep(t)
  PROVE  /\ t \in TransactionID /\ IInv /\ [Next]_vars
         /\ Store(t) \/ Process(t) \/ EventLoop(t) \/ AcceptConflict(t)
         /\ booking[t] \in Goroutine /\ booking'[t] \in Goroutine
         /\ \A u \in TransactionID : u # t => booking'[u] = booking[u]
         /\ booked \subseteq booked' /\ booked' \subseteq TransactionID
         /\ parents \in [TransactionID -> SUBSET TransactionID]
         /\ parents' \in [TransactionID -> SUBSET TransactionID]
  <1>1. t \in TransactionID /\ IInv /\ IInv'
    BY DEF PendingStep
  <1>2. Store(t) \/ Process(t) \/ EventLoop(t) \/ AcceptConflict(t)
    BY DEF PendingStep
  <1>3. [Next]_vars
    BY <1>1, <1>2 DEF Next
  <1>4. /\ booking \in [TransactionID -> Goroutine] /\ booking' \in [TransactionID -> Goroutine]
        /\ parents \in [TransactionID -> SUBSET TransactionID]
        /\ parents' \in [TransactionID -> SUBSET TransactionID]
        /\ booked' \subseteq TransactionID
    BY <1>1 DEF IInv, TypeOK, DAG!TypeOK
  <1>5. \A u \in TransactionID : u # t => booking'[u] = booking[u]
    BY <1>1, <1>2, OthersStand
  <1>6. booked \subseteq booked'
    BY <1>1, <1>2, WhoChangesWhat
  <1> QED
    BY <1>1, <1>2, <1>3, <1>4, <1>5, <1>6

(* Putting a forked conflict between a conflict and what the forked one    *)
(* stands for loses nothing: the walk from the forked conflict stays in    *)
(* its past cone and does not meet the conflict that is moved.             *)
LEMMA ForkStandsFor ==
  ASSUME IInv, NEW c \in TransactionID, NEW f \in TransactionID, f \in Ancestors[c],
         NEW previous, previous \subseteq DAG!Closure({f}, parents), f \notin previous,
         NEW q \in [TransactionID -> SUBSET TransactionID],
         f \in q[c], parents[c] \subseteq q[c] \union previous,
         \A x \in TransactionID : x # c => q[x] = parents[x],
         NEW X \in SUBSET TransactionID
  PROVE  DAG!Closure(X, parents) \subseteq DAG!Closure(X, q)
  <1>1. parents \in [TransactionID -> SUBSET TransactionID]
    BY DEF IInv, TypeOK, DAG!TypeOK
  <1>2. f \in q[c] /\ parents[c] \subseteq q[c] \union previous
    OBVIOUS
  <1>3. \A x \in TransactionID : x # c => q[x] = parents[x]
    OBVIOUS
  <1>4. c \notin PastOf(f)
    BY AncestorFacts DEF PastOf
  <1>5. DAG!Closure({f}, parents) \subseteq DAG!Closure({f}, q)
    <2> DEFINE C == DAG!Closure({f}, q)
               S == C \intersect PastOf(f)
    <2>1. {f} \subseteq C /\ C \in SUBSET TransactionID /\ \A x \in C : q[x] \subseteq C
      BY ClosureFacts
    <2>2. \A x \in S : parents[x] \subseteq S
      <3> SUFFICES ASSUME NEW x \in S
                   PROVE  parents[x] \subseteq S
        OBVIOUS
      <3>1. x \in TransactionID /\ x # c
        BY <1>4, <2>1
      <3>2. parents[x] \subseteq C
        BY <1>3, <2>1, <3>1
      <3>3. parents[x] \subseteq Ancestors[x] /\ Ancestors[x] \subseteq PastOf(f)
        BY <3>1, AncestorFacts DEF IInv, ConeInv, PastOf
      <3> QED
        BY <3>2, <3>3
    <2>3. {f} \subseteq S /\ S \in SUBSET TransactionID
      BY <2>1 DEF PastOf
    <2>4. S \subseteq C
      OBVIOUS
    <2> HIDE DEF S, C
    <2>5. DAG!Closure({f}, parents) \subseteq S
      BY <1>1, <2>2, <2>3, ClosureFacts
    <2> QED
      BY <2>4, <2>5 DEF C
  <1>6. ASSUME NEW x \in TransactionID
        PROVE  parents[x] \subseteq DAG!Closure(q[x], q)
    <2> DEFINE C == DAG!Closure(q[x], q)
    <2>1. q[x] \subseteq C /\ \A Y \in SUBSET C : DAG!Closure(Y, q) \subseteq C
      BY ClosureFacts
    <2>2. CASE x # c
      BY <1>3, <2>1, <2>2
    <2>3. CASE x = c
      <3>1. {f} \in SUBSET C
        BY <1>2, <2>1, <2>3
      <3>2. previous \subseteq C
        BY <1>5, <2>1, <3>1
      <3> QED
        BY <1>2, <2>1, <2>3, <3>2
    <2> QED
      BY <2>2, <2>3
  <1> QED
    BY <1>1, <1>6, CoverageKept

-----------------------------------------------------------------------------
(* What the update of a forked transaction does ...                        *)
ForkedIsUpdated(t, f) ==
  /\ f = Forked(t) /\ f \in booked /\ f \in TransactionID /\ Running(t, "update")
  /\ UNCHANGED <<conflictVars, booked, stored, consumers>>
  /\ conflictIDs' = [conflictIDs EXCEPT ![f] = {f}]
  /\ \A o \in OutputID : o \notin Outputs[f] => outputConflictIDs'[o] = outputConflictIDs[o]
  /\ \A o \in Outputs[f] : outputConflictIDs'[o] = {f}
  /\ booking'[t].at = "propagate" /\ Forked(t)' = f
  /\ booking'[t].walk = Outputs[f] /\ booking'[t].visiting = {} /\ booking'[t].seen = {}
  /\ booking'[t].previousParents = booking[t].previousParents
  /\ booking'[t].parentConflicts = booking[t].parentConflicts

LEMMA UpdateOfForked ==
  ASSUME NEW t, PendingStep(t), UpdateForkedTransaction(t)
  PROVE  ForkedIsUpdated(t, Forked(t))
  <1>1. /\ t \in TransactionID /\ IInv /\ booking[t] \in Goroutine
        /\ booking \in [TransactionID -> Goroutine] /\ AllPending
    BY PendingStepFacts DEF PendingStep, IInv, TypeOK
  <1>2. Running(t, "update") /\ Forking(t)
    BY DEF UpdateForkedTransaction, Forking
  <1>3. Forked(t) \in booked /\ Forked(t) \in TransactionID
    BY <1>1, <1>2, ForkedFacts DEF IInv, LockInv
  <1>4. UNCHANGED conflictVars /\ UpdatesConflictIDs(Forked(t), Forked(t))
    BY <1>1, ForkedKeepsParents
  <1>5. booking[t].previousParents = conflictIDs[Forked(t)]
    BY <1>1, <1>2 DEF PendingStep, InheritInv, OwnInv
  <1>6. UNCHANGED <<stored, consumers, booked>>
    BY DEF UpdateForkedTransaction
  <1>7. UpdateConflictsAfterFork(Forked(t), Forked(t), booking[t].previousParents)
    BY DEF UpdateForkedTransaction, Forked
  <1>8. DAG!UnconfirmedConflicts((conflictIDs[Forked(t)] \ booking[t].previousParents)
                                   \union {Forked(t)}) = {Forked(t)}
    <2>1. (conflictIDs[Forked(t)] \ booking[t].previousParents) \union {Forked(t)} = {Forked(t)}
      BY <1>5
    <2> QED
      BY <1>1, <1>3, <2>1, NothingIsMerged
  <1>9. /\ conflictIDs' = [conflictIDs EXCEPT ![Forked(t)] = {Forked(t)}]
        /\ outputConflictIDs' = [o \in OutputID |->
             IF o \in OutputIDs(Forked(t)) THEN {Forked(t)} ELSE outputConflictIDs[o]]
    BY <1>4, <1>7, <1>8, Zenon DEF UpdateConflictsAfterFork
  <1>10. OutputIDs(Forked(t)) = Outputs[Forked(t)] /\ Outputs[Forked(t)] \subseteq OutputID
    BY <1>3, LedgerConstants DEF OutputIDs
  <1>11. /\ \A o \in OutputID : o \notin Outputs[Forked(t)] =>
                                outputConflictIDs'[o] = outputConflictIDs[o]
         /\ \A o \in Outputs[Forked(t)] : outputConflictIDs'[o] = {Forked(t)}
    BY <1>9, <1>10
  <1>12. booking' = [booking EXCEPT ![t].at = "propagate", ![t].walk = OutputIDs(Forked(t)),
                                    ![t].visiting = {}, ![t].seen = {}]
    BY DEF UpdateForkedTransaction, Forked
  <1>13. /\ booking'[t].at = "propagate" /\ booking'[t].walk = OutputIDs(Forked(t))
         /\ booking'[t].visiting = {} /\ booking'[t].seen = {}
         /\ booking'[t].previousParents = booking[t].previousParents
         /\ booking'[t].parentConflicts = booking[t].parentConflicts
         /\ booking'[t].consumersToFork = booking[t].consumersToFork
    BY <1>1, <1>12 DEF Goroutine
  <1> QED
    BY <1>2, <1>3, <1>4, <1>6, <1>9, <1>10, <1>11, <1>13 DEF ForkedIsUpdated, Forked

(* ... and what the propagation of a fork to a consumer does.              *)
Propagated(t, f, c) ==
  /\ f = Forked(t) /\ f \in TransactionID /\ c \in TransactionID
  /\ f \in Ancestors[c] /\ f \notin booking[t].previousParents
  /\ c \in booking[t].visiting /\ mutex[c] = EmptyTransactionID
  /\ UNCHANGED <<booked, stored, consumers, confirmationState>>
  /\ \/ /\ parents' = parents
        /\ ~IsConflicting(c) \/ f \in parents[c]
     \/ /\ IsConflicting(c)
        /\ parents' = [parents EXCEPT ![c] = (@ \union {f}) \ booking[t].previousParents]
  /\ \/ /\ conflictIDs' = conflictIDs /\ outputConflictIDs' = outputConflictIDs
        /\ IsConflicting(c) \/ f \in conflictIDs[c]
        /\ booking'[t].walk = booking[t].walk
     \/ /\ ~IsConflicting(c)
        /\ conflictIDs' =
             [conflictIDs EXCEPT ![c] = (@ \ booking[t].previousParents) \union {f}]
        /\ \A o \in OutputID : o \notin OutputIDs(c) => outputConflictIDs'[o] = outputConflictIDs[o]
        /\ \A o \in OutputIDs(c) : outputConflictIDs'[o] = conflictIDs'[c]
        /\ booking'[t].walk = booking[t].walk \union OutputIDs(c)
  /\ Running(t, "propagate") /\ booking'[t].at = "propagate" /\ Forked(t)' = f
  /\ booking'[t].visiting = booking[t].visiting \ {c}
  /\ booking'[t].seen = booking[t].seen
  /\ booking'[t].previousParents = booking[t].previousParents
  /\ booking'[t].parentConflicts = booking[t].parentConflicts

LEMMA Propagation ==
  ASSUME NEW t, PendingStep(t), PropagateToConsumer(t)
  PROVE  \E c \in TransactionID : Propagated(t, Forked(t), c)
  <1>1. /\ t \in TransactionID /\ IInv /\ booking[t] \in Goroutine
        /\ booking \in [TransactionID -> Goroutine] /\ AllPending
        /\ conflictIDs \in [TransactionID -> SUBSET TransactionID]
    BY PendingStepFacts DEF PendingStep, IInv, TypeOK
  <1>2. Running(t, "propagate") /\ Forking(t) /\ UNCHANGED <<booked, stored, consumers>>
    BY DEF PropagateToConsumer, Forking
  <1>3. PICK c \in booking[t].visiting :
          /\ mutex[c] = EmptyTransactionID
          /\ UpdateConflictsAfterFork(c, Forked(t), booking[t].previousParents)
          /\ booking' = [booking EXCEPT
               ![t].visiting = @ \ {c},
               ![t].walk = IF UpdatesConflictIDs(c, Forked(t)) THEN @ \union OutputIDs(c) ELSE @]
    BY DEF PropagateToConsumer, Forked
  <1> DEFINE f == Forked(t)
             previous == booking[t].previousParents
             new == (conflictIDs[c] \ previous) \union {f}
  <1>4. /\ f \in TransactionID /\ c \in TransactionID /\ f \in Ancestors[c] /\ f \notin previous
    BY <1>1, <1>2, PropagatedConflict DEF IInv, ForkInv
  <1>5. DAG!UnconfirmedConflicts(new) = new
    BY <1>1, <1>4, NothingIsMerged
  <1>6. /\ UNCHANGED confirmationState
        /\ \/ /\ parents' = parents
              /\ ~IsConflicting(c) \/ f \in parents[c]
           \/ /\ IsConflicting(c)
              /\ parents' = [parents EXCEPT ![c] = (@ \union {f}) \ previous]
    BY <1>3 DEF UpdateConflictsAfterFork, DAG!UpdateConflictParents, conflictVars
  <1>7. /\ UpdatesConflictIDs(c, f) =>
             /\ conflictIDs' = [conflictIDs EXCEPT ![c] = new]
             /\ outputConflictIDs' = [o \in OutputID |->
                  IF o \in OutputIDs(c) THEN new ELSE outputConflictIDs[o]]
        /\ ~UpdatesConflictIDs(c, f) =>
             conflictIDs' = conflictIDs /\ outputConflictIDs' = outputConflictIDs
    BY <1>3, <1>5, Zenon DEF UpdateConflictsAfterFork
  <1>8. /\ booking'[t].at = "propagate"
        /\ booking'[t].visiting = booking[t].visiting \ {c}
        /\ booking'[t].walk = IF UpdatesConflictIDs(c, f) THEN booking[t].walk \union OutputIDs(c)
                              ELSE booking[t].walk
        /\ booking'[t].seen = booking[t].seen
        /\ booking'[t].previousParents = booking[t].previousParents
        /\ booking'[t].parentConflicts = booking[t].parentConflicts
        /\ booking'[t].consumersToFork = booking[t].consumersToFork
    <2> HIDE DEF f
    <2> QED
      BY <1>1, <1>2, <1>3 DEF Goroutine, Running, f
  <1>9. Forked(t)' = f
    BY <1>8 DEF Forked
  <1>10. OutputIDs(c) \subseteq OutputID
    BY <1>4, LedgerConstants DEF OutputIDs
  <1>11. CASE UpdatesConflictIDs(c, f)
    <2>1. ~IsConflicting(c)
      BY <1>11 DEF UpdatesConflictIDs
    <2>2. /\ \A o \in OutputID : o \notin OutputIDs(c) =>
                                 outputConflictIDs'[o] = outputConflictIDs[o]
          /\ \A o \in OutputIDs(c) : outputConflictIDs'[o] = conflictIDs'[c]
      BY <1>1, <1>4, <1>7, <1>10, <1>11
    <2> QED
      BY <1>2, <1>3, <1>4, <1>6, <1>7, <1>8, <1>9, <1>11, <2>1, <2>2, Zenon DEF Propagated
  <1>12. CASE ~UpdatesConflictIDs(c, f)
    <2>1. IsConflicting(c) \/ f \in conflictIDs[c]
      BY <1>12 DEF UpdatesConflictIDs
    <2> QED
      BY <1>2, <1>3, <1>4, <1>6, <1>7, <1>8, <1>9, <1>12, <2>1, Zenon DEF Propagated
  <1> QED
    BY <1>11, <1>12

(* What a set of conflicts depends on only grows.                          *)
LEMMA DependenciesGrow ==
  ASSUME NEW t, PendingStep(t), NEW X \in SUBSET TransactionID
  PROVE  DAG!Closure(X, parents) \subseteq DAG!Closure(X, parents')
  <1>1. /\ t \in TransactionID /\ IInv
        /\ parents \in [TransactionID -> SUBSET TransactionID]
        /\ parents' \in [TransactionID -> SUBSET TransactionID]
    BY PendingStepFacts
  <1>2. CASE UNCHANGED parents
    <2> DEFINE q == parents'
    <2>1. q = parents
      BY <1>2
    <2> HIDE DEF q
    <2>2. DAG!Closure(X, parents) \subseteq DAG!Closure(X, q)
      BY <2>1
    <2> QED
      BY <2>2 DEF q
  <1>3. ASSUME NEW id \in TransactionID, NEW parentIDs, NEW resourceIDs,
               DAG!CreateConflict(id, parentIDs, resourceIDs)
        PROVE  DAG!Closure(X, parents) \subseteq DAG!Closure(X, parents')
    <2> DEFINE q == parents'
    <2>1. parents[id] = {}
      BY <1>1, <1>3 DEF DAG!CreateConflict, IInv, DAG!ReferencesMirrored
    <2>2. q = [parents EXCEPT ![id] = parentIDs]
      BY <1>3 DEF DAG!CreateConflict
    <2>3. \A x \in TransactionID : parents[x] \subseteq q[x]
      BY <1>1, <2>1, <2>2
    <2>4. q \in [TransactionID -> SUBSET TransactionID]
      BY <1>1
    <2> HIDE DEF q
    <2>5. \A x \in TransactionID : q[x] \subseteq DAG!Closure(q[x], q)
      BY <2>4, ClosureFacts
    <2>6. \A x \in TransactionID : parents[x] \subseteq DAG!Closure(q[x], q)
      BY <2>3, <2>5
    <2>7. DAG!Closure(X, parents) \subseteq DAG!Closure(X, q)
      BY <1>1, <2>4, <2>6, CoverageKept
    <2> QED
      BY <2>7 DEF q
  <1>4. CASE CreateOwnConflict(t)
    BY <1>1, <1>3, <1>4 DEF CreateOwnConflict
  <1>5. CASE ForkTransaction(t)
    <2>1. Forked(t) \in TransactionID
      BY <1>1, <1>5, ForkedIsBooked DEF ForkTransaction, Forked
    <2> QED
      BY <1>3, <1>5, <2>1 DEF ForkTransaction, Forked
  <1>6. CASE JoinConflictSets(t)
    BY <1>2, <1>6 DEF JoinConflictSets, DAG!UpdateConflictingResources
  <1>7. CASE UpdateForkedTransaction(t)
    BY <1>1, <1>2, <1>7, ForkedKeepsParents DEF conflictVars
  <1>8. CASE PropagateToConsumer(t)
    <2> DEFINE f == Forked(t)
               previous == booking[t].previousParents
               q == parents'
    <2>1. PICK c \in TransactionID : Propagated(t, f, c)
      BY <1>8, Propagation
    <2>2. SUFFICES ASSUME q = [parents EXCEPT ![c] = (@ \union {f}) \ previous]
                   PROVE  DAG!Closure(X, parents) \subseteq DAG!Closure(X, q)
      BY <1>2, <2>1 DEF Propagated
    <2>3. f \in TransactionID /\ f \in Ancestors[c] /\ f \notin previous /\ Forking(t)
      BY <2>1 DEF Propagated, Forking
    <2>4. previous \subseteq DAG!Closure({f}, parents)
      BY <1>1, <2>3 DEF PendingStep, InheritInv, OwnInv
    <2>5. /\ f \in q[c] /\ parents[c] \subseteq q[c] \union previous
          /\ \A x \in TransactionID : x # c => q[x] = parents[x]
      BY <1>1, <2>2, <2>3
    <2>6. q \in [TransactionID -> SUBSET TransactionID]
      BY <1>1
    <2> HIDE DEF q, f, previous
    <2> QED
      BY <1>1, <2>3, <2>4, <2>5, <2>6, ForkStandsFor
  <1>9. CASE AcceptConflict(t)
    BY <1>2, <1>9 DEF AcceptConflict, DAG!SetConflictAccepted
  <1>10. \/ UNCHANGED conflictVars
         \/ CreateOwnConflict(t) \/ ForkTransaction(t) \/ JoinConflictSets(t)
         \/ UpdateForkedTransaction(t) \/ PropagateToConsumer(t) \/ AcceptConflict(t)
    BY <1>1, PendingStepFacts, WhoChangesWhat
  <1> QED
    BY <1>2, <1>4, <1>5, <1>6, <1>7, <1>8, <1>9, <1>10 DEF conflictVars

(* Whoever passes the check in a step reads the conflicts of its inputs:   *)
(* it depends on all that they depend on.                                  *)
LEMMA CheckPassed ==
  ASSUME NEW t, PendingStep(t), NEW u \in TransactionID, ~PastCheck(u), PastCheck(u)'
  PROVE  u = t /\ InheritConflictIDs(t)
  <1>1. /\ t \in TransactionID /\ IInv /\ booking[t] \in Goroutine /\ booking'[t] \in Goroutine
        /\ booking \in [TransactionID -> Goroutine]
        /\ \A v \in TransactionID : v # t => booking'[v] = booking[v]
    BY PendingStepFacts DEF IInv, TypeOK
  <1>2. u \in booked' \ booked => u = t /\ BookTransaction(t)
    BY <1>1, WhoChangesWhat DEF PendingStep, BookTransaction
  <1>3. BookTransaction(t) => booking[t].at \notin {"idle", "check"}
    BY DEF BookTransaction, ReadyToBook, RegisteredAll, Running
  <1>4. u = t /\ ~BookTransaction(t) /\ booking[t].at \in {"idle", "check"}
        /\ booking'[t].at \notin {"idle", "check"}
    BY <1>1, <1>2, <1>3 DEF PastCheck
  <1>5. ~Store(t) /\ ~ProcessTransaction(t) /\ ~ProcessConsumingTransactions(t) /\ ~Unsolid(t)
    <2>1. ~Store(t) /\ ~Unsolid(t)
      BY <1>1, <1>4 DEF Store, Unsolid, NotRunning, Goroutine
    <2>2. ~ProcessTransaction(t) /\ ~ProcessConsumingTransactions(t)
      BY <1>1, <1>4 DEF ProcessTransaction, ProcessConsumingTransactions, Goroutine
    <2> QED
      BY <2>1, <2>2
  <1>6. /\ ~RegisterBookedConsumer(t) /\ ~CreateOwnConflict(t) /\ ~ForkTransaction(t)
        /\ ~JoinConflictSets(t) /\ ~UpdateForkedTransaction(t) /\ ~VisitOutput(t)
        /\ ~PropagateToConsumer(t) /\ ~FinishFork(t)
    BY <1>4 DEF RegisterBookedConsumer, CreateOwnConflict, ForkTransaction, JoinConflictSets,
       UpdateForkedTransaction, VisitOutput, PropagateToConsumer, FinishFork, Running,
       RegisteredAll
  <1> QED
    BY <1>4, <1>5, <1>6 DEF PendingStep, Process, EventLoop

(* The conflicts of a booked transaction are replaced only by one that     *)
(* stands for them.                                                        *)
LEMMA BookedKeepKnowing ==
  ASSUME NEW t, PendingStep(t), NEW u \in booked
  PROVE  DAG!Closure(conflictIDs[u], parents) \subseteq DAG!Closure(conflictIDs'[u], parents')
  <1>1. /\ t \in TransactionID /\ IInv
        /\ parents \in [TransactionID -> SUBSET TransactionID]
        /\ conflictIDs \in [TransactionID -> SUBSET TransactionID]
        /\ conflictIDs' \in [TransactionID -> SUBSET TransactionID]
        /\ u \in TransactionID
    <2>1. IInv /\ IInv'
      BY DEF PendingStep
    <2>2. /\ conflictIDs \in [TransactionID -> SUBSET TransactionID]
          /\ conflictIDs' \in [TransactionID -> SUBSET TransactionID]
          /\ u \in TransactionID
      BY <2>1 DEF IInv, TypeOK
    <2> QED
      BY <2>2, PendingStepFacts
  <1> DEFINE old == conflictIDs[u]
             new == conflictIDs'[u]
  <1>2. old \in SUBSET TransactionID /\ new \in SUBSET TransactionID
    BY <1>1
  <1>3. SUFFICES old \subseteq DAG!Closure(new, parents)
    <2>1. DAG!Closure(new, parents) \subseteq DAG!Closure(new, parents')
      BY <1>2, DependenciesGrow
    <2> HIDE DEF old, new
    <2>2. old \subseteq DAG!Closure(new, parents) =>
            DAG!Closure(old, parents) \subseteq DAG!Closure(new, parents)
      BY <1>1, <1>2, ClosureFacts
    <2> QED
      BY <2>1, <2>2 DEF old, new
  <1>4. new \subseteq DAG!Closure(new, parents)
        /\ \A Y \in SUBSET DAG!Closure(new, parents) :
             DAG!Closure(Y, parents) \subseteq DAG!Closure(new, parents)
    <2> HIDE DEF new
    <2> QED
      BY <1>1, <1>2, ClosureFacts
  <1>5. CASE new = old
    BY <1>4, <1>5
  <1>6. CASE UpdateForkedTransaction(t)
    <2>1. ForkedIsUpdated(t, Forked(t)) /\ Forking(t)
      BY <1>6, UpdateOfForked DEF UpdateForkedTransaction, Forking
    <2>2. CASE u # Forked(t)
      BY <1>1, <1>5, <2>1, <2>2 DEF ForkedIsUpdated
    <2>3. CASE u = Forked(t)
      <3>1. new = {u}
        BY <1>1, <2>1, <2>3 DEF ForkedIsUpdated
      <3>2. old \subseteq DAG!Closure({u}, parents)
        BY <1>1, <1>6, <2>1, <2>3
        DEF PendingStep, InheritInv, OwnInv, UpdateForkedTransaction
      <3> QED
        BY <3>1, <3>2
    <2> QED
      BY <2>2, <2>3
  <1>7. CASE PropagateToConsumer(t)
    <2> DEFINE f == Forked(t)
               previous == booking[t].previousParents
    <2>1. PICK c \in TransactionID : Propagated(t, f, c)
      BY <1>7, Propagation
    <2>2. SUFFICES ASSUME u = c, conflictIDs' = [conflictIDs EXCEPT ![c] = (@ \ previous) \union {f}]
                   PROVE  old \subseteq DAG!Closure(new, parents)
      BY <1>1, <1>5, <2>1 DEF Propagated
    <2>3. new = (old \ previous) \union {f}
      BY <1>1, <2>2
    <2>4. previous \subseteq DAG!Closure({f}, parents)
      BY <1>1, <2>1 DEF PendingStep, InheritInv, OwnInv, Propagated, Forking
    <2> HIDE DEF new, old, f, previous
    <2>5. {f} \in SUBSET DAG!Closure(new, parents)
      BY <1>4, <2>3
    <2>6. previous \subseteq DAG!Closure(new, parents)
      BY <1>4, <2>4, <2>5
    <2> QED
      BY <1>4, <2>3, <2>6
  <1>8. CASE BookTransaction(t)
    <2>1. u # t
      BY <1>1, <1>8 DEF BookTransaction, ReadyToBook, RegisteredAll, Running, IInv, LockInv
    <2>2. \E s : conflictIDs' = [conflictIDs EXCEPT ![t] = s]
      BY <1>8 DEF BookTransaction
    <2> QED
      BY <1>1, <1>5, <2>1, <2>2
  <1>9. \/ UNCHANGED conflictIDs
        \/ UpdateForkedTransaction(t) \/ PropagateToConsumer(t) \/ BookTransaction(t)
    BY <1>1, PendingStepFacts, WhoChangesWhat
  <1> QED
    BY <1>5, <1>6, <1>7, <1>8, <1>9

(* What a goroutine has inherited stays until its transaction is booked.   *)
LEMMA InheritedStay ==
  ASSUME NEW t, PendingStep(t), NEW u \in TransactionID, booking[u].at \notin {"idle", "check"},
         ~BookTransaction(u)
  PROVE  /\ booking'[u].parentConflicts = booking[u].parentConflicts
         /\ booking'[u].at \notin {"idle", "check"}
  <1>1. /\ t \in TransactionID /\ IInv /\ booking[u] \in Goroutine
        /\ booking \in [TransactionID -> Goroutine]
        /\ \A v \in TransactionID : v # t => booking'[v] = booking[v]
    BY PendingStepFacts DEF IInv, TypeOK
  <1>2. CASE booking'[u] = booking[u]
    BY <1>2
  <1>3. SUFFICES ASSUME u = t
                 PROVE  /\ booking'[u].parentConflicts = booking[u].parentConflicts
                        /\ booking'[u].at \notin {"idle", "check"}
    BY <1>1, <1>2
  <1>4. mutex[u] = u
    BY <1>1 DEF IInv, LockInv, Running
  <1>5. ~Store(u) /\ ~ProcessTransaction(u) /\ ~Unsolid(u) /\ ~InheritConflictIDs(u)
    BY <1>4, LedgerConstants DEF Store, ProcessTransaction, Unsolid, InheritConflictIDs, Running
  <1>6. CASE RegisterBookedConsumer(u)
    BY <1>1, <1>6, Registration
  <1>7. CASE CreateOwnConflict(u)
    BY <1>1, <1>7 DEF CreateOwnConflict, Goroutine
  <1>8. CASE ForkTransaction(u)
    BY <1>1, <1>8 DEF ForkTransaction, Goroutine
  <1>9. CASE FinishFork(u)
    BY <1>1, <1>9 DEF FinishFork, Goroutine
  <1>10. CASE JoinConflictSets(u)
    BY <1>1, <1>10 DEF JoinConflictSets, Goroutine
  <1>11. CASE UpdateForkedTransaction(u)
    BY <1>3, <1>11, UpdateOfForked DEF ForkedIsUpdated
  <1>12. CASE VisitOutput(u)
    BY <1>1, <1>12 DEF VisitOutput, Goroutine
  <1>13. CASE PropagateToConsumer(u)
    BY <1>3, <1>13, Propagation DEF Propagated
  <1>14. CASE ProcessConsumingTransactions(u)
    BY <1>2, <1>14 DEF ProcessConsumingTransactions
  <1> QED
    BY <1>3, <1>5, <1>6, <1>7, <1>8, <1>9, <1>10, <1>11, <1>12, <1>13, <1>14
    DEF PendingStep, Process, EventLoop

(* A transaction is booked with what it inherited, or, when it is a        *)
(* conflict, as that conflict.                                             *)
IsBookedAs(t, ids) ==
  /\ t \notin booked /\ PastCheck(t) /\ ~Forking(t)
  /\ booked' = booked \union {t}
  /\ UNCHANGED <<conflictVars, stored, consumers>>
  /\ conflictIDs' = [conflictIDs EXCEPT ![t] = ids]
  /\ \A o \in OutputID : o \notin Outputs[t] => outputConflictIDs'[o] = outputConflictIDs[o]
  /\ \A o \in Outputs[t] : outputConflictIDs'[o] = ids
  /\ available' = available \union Outputs[t]
  /\ \/ ~Created(t) /\ ids = booking[t].parentConflicts
     \/ Created(t) /\ ids = {t}
  /\ booking'[t] = NotRunning

LEMMA Booking ==
  ASSUME NEW t, PendingStep(t), BookTransaction(t)
  PROVE  \E ids \in SUBSET TransactionID : IsBookedAs(t, ids)
  <1>1. /\ t \in TransactionID /\ IInv /\ booking[t] \in Goroutine
        /\ booking \in [TransactionID -> Goroutine]
    BY PendingStepFacts DEF IInv, TypeOK
  <1> DEFINE ids == IF booking[t].conflictingInputs = {} THEN booking[t].parentConflicts ELSE {t}
  <1>2. ids \in SUBSET TransactionID /\ Outputs[t] \subseteq OutputID
    BY <1>1, LedgerConstants DEF Goroutine
  <1>3. \/ Running(t, "register") /\ booking[t].conflictingInputs = {}
        \/ Running(t, "fork")
    BY DEF BookTransaction, ReadyToBook, RegisteredAll
  <1>4. t \notin booked /\ PastCheck(t) /\ ~Forking(t)
    BY <1>1, <1>3 DEF IInv, LockInv, Running, PastCheck, Forking
  <1>5. \/ ~Created(t) /\ booking[t].conflictingInputs = {}
        \/ Created(t) /\ booking[t].conflictingInputs # {}
    <2>1. CASE Running(t, "register")
      BY <1>3, <2>1 DEF Running, Created
    <2>2. CASE Running(t, "fork")
      BY <1>1, <2>2 DEF Running, Created, IInv, RegisterInv, Registered
    <2> QED
      BY <1>3, <2>1, <2>2
  <1>6. /\ booked' = booked \union {t} /\ UNCHANGED <<conflictVars, stored, consumers>>
        /\ conflictIDs' = [conflictIDs EXCEPT ![t] = ids]
        /\ outputConflictIDs' = [o \in OutputID |->
                                   IF o \in Outputs[t] THEN ids ELSE outputConflictIDs[o]]
        /\ available' = available \union Outputs[t]
        /\ booking' = [booking EXCEPT ![t] = NotRunning]
    BY DEF BookTransaction
  <1>7. booking'[t] = NotRunning
    BY <1>1, <1>6
  <1>8. \/ ~Created(t) /\ ids = booking[t].parentConflicts
        \/ Created(t) /\ ids = {t}
    BY <1>5
  <1> HIDE DEF ids
  <1>9. /\ \A o \in OutputID : o \notin Outputs[t] => outputConflictIDs'[o] = outputConflictIDs[o]
        /\ \A o \in Outputs[t] : outputConflictIDs'[o] = ids
    BY <1>2, <1>6
  <1> QED
    BY <1>2, <1>4, <1>6, <1>7, <1>8, <1>9 DEF IsBookedAs

(* What a transaction depends on only grows, from its check on.            *)
LEMMA KnowsGrows ==
  ASSUME NEW t, PendingStep(t), NEW u \in TransactionID, PastCheck(u)
  PROVE  Knows(u) \subseteq Knows(u)' /\ PastCheck(u)'
  <1>1. /\ t \in TransactionID /\ IInv /\ IInv' /\ booked \subseteq booked'
        /\ parents \in [TransactionID -> SUBSET TransactionID]
        /\ parents' \in [TransactionID -> SUBSET TransactionID]
    BY PendingStepFacts DEF PendingStep
  <1>2. CASE u \in booked
    <2>1. u \in booked'
      BY <1>1, <1>2
    <2>2. Knows(u) = DAG!Closure(conflictIDs[u], parents)
      BY <1>2 DEF Knows
    <2>3. Knows(u)' = DAG!Closure(conflictIDs'[u], parents')
      BY <2>1 DEF Knows
    <2> QED
      BY <1>2, <2>1, <2>2, <2>3, BookedKeepKnowing DEF PastCheck
  <1>3. CASE u \notin booked /\ ~BookTransaction(u)
    <2>1. booking[u].at \notin {"idle", "check"}
      BY <1>3 DEF PastCheck
    <2>2. /\ booking'[u].parentConflicts = booking[u].parentConflicts
          /\ booking'[u].at \notin {"idle", "check"}
      BY <1>3, <2>1, InheritedStay
    <2>3. u \notin booked'
      BY <1>1, <2>2 DEF IInv, LockInv, Running
    <2>4. booking[u].parentConflicts \in SUBSET TransactionID
      BY <1>1 DEF IInv, TypeOK, Goroutine
    <2>5. Knows(u) = DAG!Closure(booking[u].parentConflicts, parents)
      BY <1>3 DEF Knows
    <2>6. Knows(u)' = DAG!Closure(booking'[u].parentConflicts, parents')
      BY <2>3 DEF Knows
    <2> QED
      BY <2>2, <2>4, <2>5, <2>6, DependenciesGrow DEF PastCheck
  <1>4. CASE u \notin booked /\ BookTransaction(u)
    <2>1. u = t
      <3>1. u \in booked'
        BY <1>4 DEF BookTransaction
      <3>2. UNCHANGED booked \/ BookTransaction(t)
        BY <1>1, PendingStepFacts, WhoChangesWhat
      <3> QED
        BY <1>4, <3>1, <3>2 DEF BookTransaction
    <2>2. PICK ids \in SUBSET TransactionID : IsBookedAs(u, ids)
      BY <1>4, <2>1, Booking
    <2>3. u \in booked' /\ conflictIDs'[u] = ids /\ parents' = parents
      BY <1>1, <2>2 DEF IsBookedAs, IInv, TypeOK, conflictVars
    <2>4. Knows(u) = DAG!Closure(booking[u].parentConflicts, parents)
      BY <1>4 DEF Knows
    <2>5. Knows(u)' = DAG!Closure(ids, parents)
      BY <2>3 DEF Knows
    <2>6. booking[u].parentConflicts \subseteq DAG!Closure(ids, parents)
      <3>1. CASE ids = booking[u].parentConflicts
        BY <1>1, <2>2, <3>1, ClosureFacts
      <3>2. CASE ids = {u} /\ Created(u)
        BY <3>2 DEF PendingStep, InheritInv, OwnInv
      <3> QED
        BY <2>2, <3>1, <3>2 DEF IsBookedAs
    <2> QED
      BY <1>1, <2>2, <2>3, <2>4, <2>5, <2>6, ClosureFacts DEF PastCheck
  <1> QED
    BY <1>2, <1>3, <1>4

(* Whoever passes the check has booked predecessors and inherits all of    *)
(* their conflicts.                                                        *)
LEMMA Inheriting ==
  ASSUME NEW t, PendingStep(t), InheritConflictIDs(t)
  PROVE  /\ t \notin booked /\ booking'[t].at = "register"
         /\ UNCHANGED <<conflictVars, booked, conflictIDs>>
         /\ Predecessors(t) \subseteq booked
         /\ \A x \in Predecessors(t) : /\ conflictIDs[x] \subseteq Knows(t)'
                                       /\ Knows(x) \subseteq Knows(t)'
  <1>1. /\ t \in TransactionID /\ IInv /\ IInv' /\ booking[t] \in Goroutine /\ AllPending
        /\ booking \in [TransactionID -> Goroutine] /\ SolidInv
        /\ parents \in [TransactionID -> SUBSET TransactionID]
    BY PendingStepFacts DEF IInv, TypeOK, PendingStep, InheritInv
  <1>2. /\ Running(t, "check") /\ InputIDs(t) \subseteq available
        /\ UNCHANGED <<conflictVars, booked, conflictIDs>>
    BY DEF InheritConflictIDs, IsSolid, metadataVars
  <1>3. t \notin booked
    BY <1>1, <1>2 DEF IInv, LockInv, Running
  <1>4. Predecessors(t) \subseteq booked
    <2> SUFFICES ASSUME NEW x \in Predecessors(t)
                 PROVE  x \in booked
      OBVIOUS
    <2>1. x \in TransactionID
      BY DEF Predecessors
    <2>2. PICK o : o \in Outputs[x] /\ o \in InputIDs(t)
      BY DEF Predecessors
    <2>3. o \in available /\ o \notin GenesisOutputs
      BY <1>2, <2>1, <2>2 DEF GenesisOutputs
    <2>4. PICK v \in booked : o \in Outputs[v]
      BY <1>1, <2>3 DEF SolidInv
    <2>5. v \in TransactionID
      BY <1>1 DEF IInv, TypeOK
    <2> QED
      BY <2>1, <2>2, <2>4, <2>5, LedgerConstants
  <1> DEFINE all == UNION {outputConflictIDs[o] : o \in InputIDs(t)}
  <1>5. all \in SUBSET TransactionID
    BY <1>1, InputsAreOutputs DEF IInv, TypeOK
  <1>6. DAG!UnconfirmedConflicts(all) = all
    BY <1>1, <1>5, NothingIsMerged
  <1>7. booking' = [booking EXCEPT ![t].at = "register", ![t].parentConflicts = all]
    BY <1>6, Zenon DEF InheritConflictIDs
  <1>8. booking'[t].at = "register" /\ booking'[t].parentConflicts = all
    <2> HIDE DEF all
    <2> QED
      BY <1>1, <1>7 DEF Goroutine
  <1>9. Knows(t)' = DAG!Closure(all, parents)
    <2>1. t \notin booked' /\ parents' = parents
      BY <1>2, <1>3 DEF conflictVars
    <2> QED
      BY <1>8, <2>1 DEF Knows
  <1>10. ASSUME NEW x \in Predecessors(t)
         PROVE  /\ conflictIDs[x] \subseteq Knows(t)'
                /\ Knows(x) \subseteq Knows(t)'
    <2>1. PICK o : o \in Outputs[x] /\ o \in InputIDs(t)
      BY DEF Predecessors
    <2>2. x \in booked /\ outputConflictIDs[o] = conflictIDs[x]
      BY <1>1, <1>4, <2>1 DEF SolidInv
    <2>3. conflictIDs[x] \in SUBSET all
      BY <2>1, <2>2
    <2>4. Knows(x) = DAG!Closure(conflictIDs[x], parents)
      BY <2>2 DEF Knows
    <2> HIDE DEF all
    <2>5. all \subseteq DAG!Closure(all, parents)
      BY <1>1, <1>5, ClosureFacts
    <2>6. DAG!Closure(conflictIDs[x], parents) \subseteq DAG!Closure(all, parents)
      BY <1>1, <1>5, <2>3, ClosureGrows
    <2> QED
      BY <1>9, <2>3, <2>4, <2>5, <2>6
  <1> QED
    BY <1>2, <1>3, <1>4, <1>8, <1>10

LEMMA SolidStep ==
  ASSUME NEW t, PendingStep(t)
  PROVE  SolidInv'
  <1>1. /\ t \in TransactionID /\ IInv /\ booked \subseteq booked' /\ booked' \subseteq TransactionID
        /\ SolidInv
        /\ Store(t) \/ Process(t) \/ EventLoop(t) \/ AcceptConflict(t)
        /\ outputConflictIDs \in [OutputID -> SUBSET TransactionID]
        /\ conflictIDs \in [TransactionID -> SUBSET TransactionID]
    <2>1. IInv /\ SolidInv
      BY DEF PendingStep, InheritInv
    <2>2. /\ outputConflictIDs \in [OutputID -> SUBSET TransactionID]
          /\ conflictIDs \in [TransactionID -> SUBSET TransactionID]
      BY <2>1 DEF IInv, TypeOK
    <2> QED
      BY <2>1, <2>2, PendingStepFacts
  <1>2. /\ \/ UNCHANGED <<conflictIDs, outputConflictIDs>>
           \/ UpdateForkedTransaction(t) \/ PropagateToConsumer(t) \/ BookTransaction(t)
        /\ UNCHANGED <<stored, consumers>> \/ Store(t)
        /\ UNCHANGED booked \/ BookTransaction(t)
    BY <1>1, WhoChangesWhat
  <1>3. BookTransaction(t) => \E ids \in SUBSET TransactionID : IsBookedAs(t, ids)
    BY Booking
  <1>4. available' = GenesisOutputs \union UNION {Outputs[u] : u \in booked'}
    <2>1. CASE BookTransaction(t)
      BY <1>1, <1>3, <2>1 DEF IsBookedAs, SolidInv
    <2>2. CASE ~BookTransaction(t)
      <3>1. UNCHANGED available
        BY <2>2 DEF PendingStep, Store, Process, EventLoop, Unsolid, InheritConflictIDs,
           RegisterBookedConsumer, CreateOwnConflict, ForkTransaction, JoinConflictSets,
           UpdateForkedTransaction, VisitOutput, PropagateToConsumer, FinishFork,
           ProcessConsumingTransactions, ProcessTransaction, metadataVars
      <3> QED
        BY <1>1, <1>2, <2>2, <3>1 DEF SolidInv
    <2> QED
      BY <2>1, <2>2
  <1>5. ASSUME NEW u \in TransactionID, PastCheck(u)'
        PROVE  Predecessors(u) \subseteq booked'
    <2>1. CASE PastCheck(u)
      BY <1>1, <2>1 DEF SolidInv
    <2>2. CASE ~PastCheck(u)
      BY <1>1, <1>5, <2>2, CheckPassed, Inheriting
    <2> QED
      BY <2>1, <2>2
  <1>6. ASSUME NEW u \in stored', NEW o \in InputIDs(u)
        PROVE  u \in consumers'[o]
    <2>1. CASE UNCHANGED <<stored, consumers>>
      BY <1>1, <1>6, <2>1 DEF SolidInv
    <2>2. CASE Store(t)
      <3>1. /\ stored' = stored \union {t}
            /\ consumers' = [p \in OutputID |->
                  IF p \in InputIDs(t) THEN consumers[p] \union {t} ELSE consumers[p]]
        BY <2>2 DEF Store
      <3>2. u \in TransactionID /\ o \in OutputID
        BY <1>1, <3>1, InputsAreOutputs DEF IInv, TypeOK, PendingStep
      <3> QED
        BY <1>1, <3>1, <3>2 DEF SolidInv
    <2> QED
      BY <1>2, <2>1, <2>2
  <1>7. ASSUME NEW u \in booked', NEW o \in Outputs[u]
        PROVE  outputConflictIDs'[o] = conflictIDs'[u]
    <2>1. u \in TransactionID /\ o \in OutputID
      BY <1>1, LedgerConstants
    <2>2. CASE UNCHANGED <<conflictIDs, outputConflictIDs, booked>>
      BY <1>1, <2>2 DEF SolidInv
    <2>3. CASE UpdateForkedTransaction(t)
      <3>1. ForkedIsUpdated(t, Forked(t))
        BY <2>3, UpdateOfForked
      <3>2. CASE u = Forked(t)
        BY <1>1, <3>1, <3>2 DEF ForkedIsUpdated
      <3>3. CASE u # Forked(t)
        <4>1. o \notin Outputs[Forked(t)]
          BY <2>1, <3>1, <3>3, LedgerConstants DEF ForkedIsUpdated
        <4> QED
          BY <1>1, <2>1, <3>1, <3>3, <4>1 DEF ForkedIsUpdated, SolidInv
      <3> QED
        BY <3>2, <3>3
    <2>4. CASE PropagateToConsumer(t)
      <3>1. PICK c \in TransactionID : Propagated(t, Forked(t), c)
        BY <2>4, Propagation
      <3>2. u \in booked
        BY <3>1 DEF Propagated
      <3>3. CASE conflictIDs' = conflictIDs /\ outputConflictIDs' = outputConflictIDs
        BY <1>1, <3>2, <3>3 DEF SolidInv
      <3>4. CASE u = c
        <4>1. OutputIDs(c) = Outputs[u]
          BY <3>2, <3>4 DEF OutputIDs
        <4> QED
          BY <3>1, <3>3, <3>4, <4>1 DEF Propagated
      <3>5. CASE u # c
        <4>1. o \notin OutputIDs(c)
          BY <2>1, <3>5, LedgerConstants DEF OutputIDs
        <4> QED
          BY <1>1, <2>1, <3>1, <3>2, <3>3, <3>5, <4>1 DEF Propagated, SolidInv
      <3> QED
        BY <3>4, <3>5
    <2>5. CASE BookTransaction(t)
      <3>1. PICK ids \in SUBSET TransactionID : IsBookedAs(t, ids)
        BY <1>3, <2>5
      <3>2. CASE u = t
        BY <1>1, <3>1, <3>2 DEF IsBookedAs
      <3>3. CASE u # t
        <4>1. o \notin Outputs[t] /\ u \in booked
          BY <1>1, <2>1, <3>1, <3>3, LedgerConstants DEF IsBookedAs
        <4> QED
          BY <1>1, <2>1, <3>1, <3>3, <4>1 DEF IsBookedAs, SolidInv
      <3> QED
        BY <3>2, <3>3
    <2> QED
      BY <1>2, <2>2, <2>3, <2>4, <2>5
  <1> QED
    BY <1>4, <1>5, <1>6, <1>7 DEF SolidInv

(* What forking a first spender does.                                      *)
IsForked(t, f) ==
  /\ f = Forked(t) /\ f \in booked /\ f \in TransactionID /\ Running(t, "fork")
  /\ confirmationState'[f] # DAG!Undefined /\ parents'[f] = conflictIDs[f]
  /\ UNCHANGED <<conflictIDs, booked>>
  /\ \A c \in TransactionID : c # f => confirmationState'[c] = confirmationState[c]
  /\ booking'[t].at = "update" /\ Forked(t)' = f
  /\ booking'[t].previousParents = conflictIDs[f]
  /\ booking'[t].parentConflicts = booking[t].parentConflicts

LEMMA ConflictIsNew ==
  ASSUME TypeOK, NEW c \in TransactionID, NEW parentIDs, NEW resourceIDs,
         DAG!CreateConflict(c, parentIDs, resourceIDs)
  PROVE  /\ DAG!Exists(c)' /\ parents'[c] = parentIDs
         /\ \A d \in TransactionID : d # c => confirmationState'[d] = confirmationState[d]
  BY DEF DAG!CreateConflict, TypeOK, DAG!TypeOK, DAG!Exists, DAG!Rejected, DAG!Pending,
         DAG!Undefined

LEMMA ForkOfSpender ==
  ASSUME NEW t, PendingStep(t), ForkTransaction(t)
  PROVE  IsForked(t, Forked(t))
  <1>1. /\ t \in TransactionID /\ IInv /\ TypeOK /\ booking[t] \in Goroutine
        /\ booking \in [TransactionID -> Goroutine]
    BY PendingStepFacts DEF IInv, TypeOK
  <1>2. Running(t, "fork") /\ UNCHANGED <<conflictIDs, booked>>
    BY DEF ForkTransaction, metadataVars
  <1>3. Forked(t) \in booked /\ Forked(t) \in TransactionID
    BY <1>1, ForkedIsBooked DEF ForkTransaction, Forked
  <1>4. DAG!CreateConflict(Forked(t), conflictIDs[Forked(t)],
                           InputIDs(Forked(t)) \intersect booking[t].conflictingInputs)
    BY DEF ForkTransaction, Forked
  <1>5. /\ confirmationState'[Forked(t)] # DAG!Undefined
        /\ parents'[Forked(t)] = conflictIDs[Forked(t)]
        /\ \A d \in TransactionID : d # Forked(t) => confirmationState'[d] = confirmationState[d]
    <2>1. PICK f \in TransactionID : f = Forked(t)
      BY <1>3
    <2>2. DAG!CreateConflict(f, conflictIDs[f], InputIDs(f) \intersect booking[t].conflictingInputs)
      BY <1>4, <2>1
    <2>3. /\ DAG!Exists(f)' /\ parents'[f] = conflictIDs[f]
          /\ \A d \in TransactionID : d # f => confirmationState'[d] = confirmationState[d]
      BY <1>1, <2>2, ConflictIsNew
    <2> QED
      BY <2>1, <2>3 DEF DAG!Exists
  <1>6. booking' = [booking EXCEPT ![t].at = "update",
                                   ![t].previousParents = conflictIDs[Forked(t)]]
    BY DEF ForkTransaction, Forked
  <1>7. /\ booking'[t].at = "update"
        /\ booking'[t].previousParents = conflictIDs[Forked(t)]
        /\ booking'[t].parentConflicts = booking[t].parentConflicts
        /\ booking'[t].consumersToFork = booking[t].consumersToFork
    BY <1>1, <1>6 DEF Goroutine
  <1>8. Forked(t)' = Forked(t)
    BY <1>7 DEF Forked
  <1> QED
    BY <1>2, <1>3, <1>5, <1>7, <1>8 DEF IsForked

(* A goroutine that has created the conflict of its transaction goes on    *)
(* until the transaction is booked, and only that step takes it there.     *)
LEMMA CreatedSteps ==
  ASSUME NEW t, PendingStep(t), NEW u \in TransactionID
  PROVE  /\ Created(u) => Created(u)' \/ BookTransaction(u)
         /\ ~Created(u) /\ Created(u)' => u = t /\ CreateOwnConflict(t)
  <1>1. /\ t \in TransactionID /\ IInv /\ booking[u] \in Goroutine
        /\ booking \in [TransactionID -> Goroutine]
        /\ \A v \in TransactionID : v # t => booking'[v] = booking[v]
    BY PendingStepFacts DEF IInv, TypeOK
  <1> DEFINE Goal == /\ Created(u) => Created(u)' \/ BookTransaction(u)
                     /\ ~Created(u) /\ Created(u)' => u = t /\ CreateOwnConflict(t)
  <1>2. booking'[u].at = booking[u].at => Goal
    BY DEF Created
  <1>3. u # t => Goal
    BY <1>1, <1>2
  <1>4. SUFFICES ASSUME u = t
                 PROVE  Goal
    BY <1>3
  <1>5. CASE Store(u) \/ ProcessTransaction(u)
    <2>1. mutex[u] # u
      BY <1>5, LedgerConstants DEF Store, ProcessTransaction
    <2>2. Running(u, "idle")
      BY <1>1, <2>1 DEF IInv, LockInv
    <2>3. booking'[u].at \in {"idle", "check"}
      BY <1>1, <1>5, <2>2 DEF Store, ProcessTransaction, Running, Goroutine
    <2> QED
      BY <2>2, <2>3 DEF Created, Running
  <1>6. CASE Unsolid(u) \/ InheritConflictIDs(u)
    <2>1. booking[u].at = "check" /\ booking'[u].at \in {"idle", "register"}
      BY <1>1, <1>6 DEF Unsolid, InheritConflictIDs, Running, NotRunning, Goroutine
    <2> QED
      BY <2>1 DEF Created
  <1>7. CASE RegisterBookedConsumer(u)
    BY <1>1, <1>2, <1>7, Registration
  <1>8. CASE CreateOwnConflict(u)
    <2>1. booking[u].at = "register"
      BY <1>8 DEF CreateOwnConflict, RegisteredAll, Running
    <2> QED
      BY <1>4, <1>8, <2>1 DEF Created
  <1>9. CASE ForkTransaction(u)
    <2>1. Created(u) /\ Created(u)'
      BY <1>4, <1>9, ForkOfSpender DEF IsForked, Created, Running
    <2> QED
      BY <2>1
  <1>10. CASE JoinConflictSets(u)
    BY <1>1, <1>2, <1>10 DEF JoinConflictSets, Goroutine
  <1>11. CASE UpdateForkedTransaction(u)
    <2>1. Created(u) /\ Created(u)'
      BY <1>4, <1>11, UpdateOfForked DEF ForkedIsUpdated, Created, Running
    <2> QED
      BY <2>1
  <1>12. CASE VisitOutput(u)
    BY <1>1, <1>2, <1>12 DEF VisitOutput, Goroutine
  <1>13. CASE PropagateToConsumer(u)
    <2>1. Created(u) /\ Created(u)'
      BY <1>4, <1>13, Propagation DEF Propagated, Created, Running
    <2> QED
      BY <2>1
  <1>14. CASE FinishFork(u)
    <2>1. booking[u].at = "propagate" /\ booking'[u].at = "fork"
      BY <1>1, <1>14 DEF FinishFork, Running, Goroutine
    <2> QED
      BY <2>1 DEF Created
  <1>15. CASE BookTransaction(u)
    <2>1. booking'[u] = NotRunning
      BY <1>4, <1>15, Booking DEF IsBookedAs
    <2> QED
      BY <1>15, <2>1 DEF Created, NotRunning
  <1>16. CASE ProcessConsumingTransactions(u)
    BY <1>2, <1>16 DEF ProcessConsumingTransactions
  <1> QED
    BY <1>4, <1>5, <1>6, <1>7, <1>8, <1>9, <1>10, <1>11, <1>12, <1>13, <1>14, <1>15, <1>16
    DEF PendingStep, Process, EventLoop

(* A transaction becomes a conflict when it finds an input spent, or when  *)
(* somebody else finds what it has spent.                                  *)
LEMMA NewConflicts ==
  ASSUME NEW t, PendingStep(t), NEW u \in TransactionID, ~DAG!Exists(u), DAG!Exists(u)'
  PROVE  \/ u = t /\ CreateOwnConflict(t)
         \/ u = Forked(t) /\ ForkTransaction(t)
  <1>1. /\ t \in TransactionID /\ IInv /\ TypeOK /\ AllPending
        /\ Store(t) \/ Process(t) \/ EventLoop(t) \/ AcceptConflict(t)
    BY PendingStepFacts DEF PendingStep, IInv
  <1>2. confirmationState'[u] # confirmationState[u]
    BY DEF DAG!Exists
  <1>3. CASE CreateOwnConflict(t)
    <2>1. DAG!CreateConflict(t, booking[t].parentConflicts, booking[t].conflictingInputs)
      BY <1>3 DEF CreateOwnConflict
    <2>2. \A d \in TransactionID : d # t => confirmationState'[d] = confirmationState[d]
      BY <1>1, <2>1 DEF DAG!CreateConflict, TypeOK, DAG!TypeOK
    <2> QED
      BY <1>2, <1>3, <2>2
  <1>4. CASE ForkTransaction(t)
    BY <1>2, <1>4, ForkOfSpender DEF IsForked
  <1>5. CASE JoinConflictSets(t)
    BY <1>2, <1>5 DEF JoinConflictSets, DAG!UpdateConflictingResources
  <1>6. CASE UpdateForkedTransaction(t)
    BY <1>2, <1>6, UpdateOfForked DEF ForkedIsUpdated, conflictVars
  <1>7. CASE PropagateToConsumer(t)
    BY <1>2, <1>7, Propagation DEF Propagated
  <1>8. CASE AcceptConflict(t)
    BY <1>8, PendingStepFacts, DecisionsStay DEF PendingStep
  <1> QED
    BY <1>1, <1>2, <1>3, <1>4, <1>5, <1>6, <1>7, <1>8, WhoChangesWhat DEF conflictVars

(* The conflict of a transaction stands for what the transaction has       *)
(* inherited.                                                              *)
LEMMA CreatedStep ==
  ASSUME NEW t, PendingStep(t), NEW u \in TransactionID
  PROVE  /\ Created(u)' => /\ DAG!Exists(u)'
                           /\ booking'[u].parentConflicts \subseteq DAG!Closure({u}, parents')
         /\ DAG!Exists(u)' => u \in booked' \/ Created(u)'
  <1>1. /\ t \in TransactionID /\ IInv /\ [Next]_vars /\ OwnInv /\ booked \subseteq booked'
        /\ parents' \in [TransactionID -> SUBSET TransactionID]
        /\ booking[t] \in Goroutine /\ booking \in [TransactionID -> Goroutine] /\ TypeOK
    BY PendingStepFacts DEF PendingStep, InheritInv, IInv, TypeOK
  <1>2. ASSUME Created(u)'
        PROVE  /\ DAG!Exists(u)'
               /\ booking'[u].parentConflicts \subseteq DAG!Closure({u}, parents')
    <2>1. CASE Created(u)
      <3>1. DAG!Exists(u) /\ booking[u].parentConflicts \subseteq DAG!Closure({u}, parents)
        BY <1>1, <2>1 DEF OwnInv
      <3>2. ~BookTransaction(u)
        <4>1. BookTransaction(u) => booking' = [booking EXCEPT ![u] = NotRunning]
          BY DEF BookTransaction
        <4> QED
          BY <1>1, <1>2, <4>1 DEF Created, NotRunning
      <3>3. booking'[u].parentConflicts = booking[u].parentConflicts
        BY <2>1, <3>2, InheritedStay DEF Created
      <3>4. DAG!Closure({u}, parents) \subseteq DAG!Closure({u}, parents')
        BY DependenciesGrow
      <3>5. DAG!Exists(u)'
        BY <1>1, <3>1, ConflictsStay
      <3> QED
        BY <3>1, <3>3, <3>4, <3>5
    <2>2. CASE ~Created(u)
      <3>1. u = t /\ CreateOwnConflict(t)
        BY <1>2, <2>2, CreatedSteps
      <3>2. PICK inherited : inherited = booking[u].parentConflicts
        OBVIOUS
      <3>3. \E sets : DAG!CreateConflict(u, inherited, sets)
        BY <3>1, <3>2 DEF CreateOwnConflict
      <3>4. DAG!Exists(u)' /\ parents'[u] = inherited
        BY <1>1, <3>3, ConflictIsNew
      <3>5. booking'[u].parentConflicts = inherited
        BY <1>1, <3>1, <3>2 DEF CreateOwnConflict, Goroutine
      <3> DEFINE q == parents'
      <3>6. q \in [TransactionID -> SUBSET TransactionID] /\ q[u] = inherited
        BY <1>1, <3>4
      <3> HIDE DEF q
      <3>7. q[u] \subseteq DAG!Closure({u}, q)
        BY <3>6, ClosureFacts
      <3>8. inherited \subseteq DAG!Closure({u}, parents')
        BY <3>6, <3>7 DEF q
      <3> QED
        BY <3>4, <3>5, <3>8
    <2> QED
      BY <2>1, <2>2
  <1>3. ASSUME DAG!Exists(u)'
        PROVE  u \in booked' \/ Created(u)'
    <2>1. CASE DAG!Exists(u)
      <3>1. u \in booked \/ Created(u)
        BY <1>1, <2>1 DEF OwnInv
      <3>2. BookTransaction(u) => u \in booked'
        BY DEF BookTransaction
      <3> QED
        BY <1>1, <3>1, <3>2, CreatedSteps
    <2>2. CASE u = t /\ CreateOwnConflict(t)
      <3>1. booking'[t].at = "fork"
        BY <1>1, <2>2 DEF CreateOwnConflict, Goroutine
      <3> QED
        BY <2>2, <3>1 DEF Created
    <2>3. CASE u = Forked(t) /\ ForkTransaction(t)
      BY <1>1, <2>3, ForkOfSpender DEF IsForked
    <2> QED
      BY <1>3, <2>1, <2>2, <2>3, NewConflicts
  <1> QED
    BY <1>2, <1>3

(* A booked conflict depends on itself, or is about to.                    *)
LEMMA OwnConflictStep ==
  ASSUME NEW t, PendingStep(t), NEW u \in TransactionID, DAG!Exists(u)', u \in booked'
  PROVE  conflictIDs'[u] = {u} \/ \E g \in TransactionID : Running(g, "update")' /\ Forked(g)' = u
  <1>1. /\ t \in TransactionID /\ IInv /\ OwnInv /\ TypeOK
        /\ \A v \in TransactionID : v # t => booking'[v] = booking[v]
        /\ conflictIDs \in [TransactionID -> SUBSET TransactionID]
        /\ Store(t) \/ Process(t) \/ EventLoop(t) \/ AcceptConflict(t)
    BY PendingStepFacts DEF PendingStep, InheritInv, IInv, TypeOK
  <1>2. CASE ForkTransaction(t) /\ u = Forked(t)
    BY <1>1, <1>2, ForkOfSpender DEF IsForked, Running
  <1>3. CASE BookTransaction(t) /\ u = t
    <2>1. PICK ids \in SUBSET TransactionID : IsBookedAs(t, ids)
      BY <1>3, Booking
    <2>2. DAG!Exists(u)
      BY <2>1 DEF IsBookedAs, conflictVars, DAG!Exists
    <2>3. Created(u)
      BY <1>1, <1>3, <2>1, <2>2 DEF OwnInv, IsBookedAs
    <2> QED
      BY <1>1, <1>3, <2>1, <2>3 DEF IsBookedAs
  <1>4. SUFFICES ASSUME ~(ForkTransaction(t) /\ u = Forked(t)), ~(BookTransaction(t) /\ u = t)
                 PROVE  \/ conflictIDs'[u] = {u}
                        \/ \E g \in TransactionID : Running(g, "update")' /\ Forked(g)' = u
    BY <1>2, <1>3
  <1>5. u \in booked
    BY <1>1, <1>4, WhoChangesWhat DEF BookTransaction
  <1>6. DAG!Exists(u)
    <2>1. ~CreateOwnConflict(t) \/ u # t
      BY <1>1, <1>5 DEF CreateOwnConflict, RegisteredAll, Running, IInv, LockInv
    <2> QED
      BY <1>4, <2>1, NewConflicts
  <1>7. CASE UpdateForkedTransaction(t)
    <2>1. ForkedIsUpdated(t, Forked(t))
      BY <1>7, UpdateOfForked
    <2>2. CASE u = Forked(t)
      BY <1>1, <2>1, <2>2 DEF ForkedIsUpdated
    <2>3. CASE conflictIDs[u] = {u} /\ u # Forked(t)
      BY <1>1, <2>1, <2>3 DEF ForkedIsUpdated
    <2>4. ASSUME NEW g \in TransactionID, Running(g, "update"), Forked(g) = u, u # Forked(t)
          PROVE  Running(g, "update")' /\ Forked(g)' = u
      BY <1>1, <2>4 DEF Running, Forked
    <2> QED
      BY <1>1, <1>5, <1>6, <2>2, <2>3, <2>4 DEF OwnInv
  <1>8. CASE ~UpdateForkedTransaction(t)
    <2>1. CASE conflictIDs[u] = {u}
      <3>1. CASE PropagateToConsumer(t)
        BY <1>1, <2>1, <3>1, Propagation DEF Propagated, IsConflicting
      <3>2. CASE BookTransaction(t)
        BY <1>1, <1>4, <2>1, <3>2, Booking DEF IsBookedAs
      <3> QED
        BY <1>1, <1>8, <2>1, <3>1, <3>2, WhoChangesWhat
    <2>2. ASSUME NEW g \in TransactionID, Running(g, "update"), Forked(g) = u
          PROVE  Running(g, "update")' /\ Forked(g)' = u
      <3>1. booking[g] \in Goroutine /\ mutex[g] = g /\ booking \in [TransactionID -> Goroutine]
        BY <1>1, <2>2 DEF IInv, TypeOK, LockInv, Running
      <3>2. booking'[g] = booking[g] => Running(g, "update")' /\ Forked(g)' = u
        BY <2>2 DEF Running, Forked
      <3>3. CASE g = t
        <4>1. ~Store(t) /\ ~ProcessTransaction(t)
          BY <3>1, <3>3, LedgerConstants DEF Store, ProcessTransaction
        <4>2. ~Process(t)
          BY <1>8, <2>2, <3>3 DEF Process, Running, Unsolid, InheritConflictIDs,
             RegisterBookedConsumer, CreateOwnConflict, RegisteredAll, ForkTransaction,
             JoinConflictSets, VisitOutput, PropagateToConsumer, FinishFork, BookTransaction,
             ReadyToBook
        <4>3. booking' = booking
          BY <4>1, <4>2 DEF PendingStep, EventLoop, ProcessConsumingTransactions
        <4> QED
          BY <3>2, <4>3
      <3> QED
        BY <1>1, <3>2, <3>3
    <2> QED
      BY <1>1, <1>5, <1>6, <2>1, <2>2 DEF OwnInv
  <1> QED
    BY <1>7, <1>8

(* What visiting an output does.                                           *)
IsVisited(t, o) ==
  /\ Running(t, "propagate") /\ o \in booking[t].walk /\ booking[t].visiting = {}
  /\ UNCHANGED <<conflictVars, booked, conflictIDs, outputConflictIDs, consumers, stored>>
  /\ booking'[t].at = "propagate" /\ Forked(t)' = Forked(t)
  /\ booking'[t].walk = booking[t].walk \ {o}
  /\ booking'[t].visiting = consumers[o] \ booking[t].seen
  /\ booking'[t].seen = booking[t].seen \union consumers[o]
  /\ booking'[t].previousParents = booking[t].previousParents

LEMMA Visit ==
  ASSUME NEW t, PendingStep(t), VisitOutput(t)
  PROVE  \E o \in OutputID : IsVisited(t, o)
  <1>1. /\ t \in TransactionID /\ booking[t] \in Goroutine
        /\ booking \in [TransactionID -> Goroutine]
    BY PendingStepFacts DEF IInv, TypeOK
  <1>2. /\ Running(t, "propagate") /\ booking[t].visiting = {}
        /\ UNCHANGED <<conflictVars, booked, conflictIDs, outputConflictIDs, consumers, stored>>
    BY DEF VisitOutput, metadataVars
  <1>3. PICK o \in booking[t].walk :
          booking' = [booking EXCEPT ![t].walk = @ \ {o},
                                     ![t].visiting = consumers[o] \ booking[t].seen,
                                     ![t].seen = @ \union consumers[o]]
    BY DEF VisitOutput
  <1>4. o \in OutputID
    BY <1>1 DEF Goroutine
  <1>5. /\ booking'[t].at = "propagate"
        /\ booking'[t].walk = booking[t].walk \ {o}
        /\ booking'[t].visiting = consumers[o] \ booking[t].seen
        /\ booking'[t].seen = booking[t].seen \union consumers[o]
        /\ booking'[t].previousParents = booking[t].previousParents
        /\ booking'[t].consumersToFork = booking[t].consumersToFork
    BY <1>1, <1>2, <1>3 DEF Goroutine, Running
  <1> QED
    BY <1>2, <1>3, <1>4, <1>5 DEF IsVisited, Forked

(* The forked conflict stands for what the forked transaction has depended *)
(* on so far.                                                              *)
LEMMA PreviousParentsStep ==
  ASSUME NEW t, PendingStep(t), NEW u \in TransactionID, Forking(u)'
  PROVE  /\ booking'[u].previousParents \subseteq DAG!Closure({Forked(u)'}, parents')
         /\ Running(u, "update")' => booking'[u].previousParents = conflictIDs'[Forked(u)']
  <1>1. /\ t \in TransactionID /\ IInv /\ OwnInv /\ [Next]_vars
        /\ \A v \in TransactionID : v # t => booking'[v] = booking[v]
        /\ parents' \in [TransactionID -> SUBSET TransactionID]
        /\ Store(t) \/ Process(t) \/ EventLoop(t) \/ AcceptConflict(t)
    BY PendingStepFacts DEF PendingStep, InheritInv
  <1>2. ASSUME NEW f \in TransactionID, f = Forked(u), Forked(u)' = f, Forking(u),
               booking'[u].previousParents = booking[u].previousParents
        PROVE  booking'[u].previousParents \subseteq DAG!Closure({Forked(u)'}, parents')
    <2>1. booking[u].previousParents \subseteq DAG!Closure({f}, parents)
      BY <1>1, <1>2 DEF OwnInv
    <2>2. DAG!Closure({f}, parents) \subseteq DAG!Closure({f}, parents')
      BY DependenciesGrow
    <2> QED
      BY <1>2, <2>1, <2>2
  <1>3. CASE booking'[u] = booking[u]
    <2>1. Forking(u) /\ Forked(u)' = Forked(u) /\ (Running(u, "update")' => Running(u, "update"))
      BY <1>3 DEF Forking, Forked, Running
    <2>2. Forked(u) \in TransactionID
      BY <1>1, <2>1, ForkedFacts DEF IInv, LockInv
    <2>3. Running(u, "update")' => conflictIDs'[Forked(u)'] = conflictIDs[Forked(u)]
      BY <1>1, <1>3, <2>1, ForkedIsLocked
    <2>4. Running(u, "update")' => booking'[u].previousParents = conflictIDs'[Forked(u)']
      BY <1>1, <1>3, <2>1, <2>3 DEF OwnInv
    <2> QED
      BY <1>2, <1>3, <2>1, <2>2, <2>4
  <1>4. CASE u = t /\ ForkTransaction(t)
    <2>1. IsForked(t, Forked(t))
      BY <1>4, ForkOfSpender
    <2>2. PICK f \in TransactionID : f = Forked(t)
      BY <2>1 DEF IsForked
    <2> DEFINE q == parents'
    <2>3. q \in [TransactionID -> SUBSET TransactionID] /\ q[f] = conflictIDs[f]
      BY <1>1, <2>1, <2>2 DEF IsForked
    <2> HIDE DEF q
    <2>4. q[f] \subseteq DAG!Closure({f}, q)
      BY <2>3, ClosureFacts
    <2>5. booking'[t].previousParents \subseteq DAG!Closure({f}, parents')
      BY <2>1, <2>2, <2>3, <2>4 DEF IsForked, q
    <2> QED
      BY <1>4, <2>1, <2>2, <2>5 DEF IsForked
  <1>5. CASE u = t /\ UpdateForkedTransaction(t)
    <2>1. ForkedIsUpdated(t, Forked(t))
      BY <1>5, UpdateOfForked
    <2> QED
      BY <1>2, <1>5, <2>1 DEF ForkedIsUpdated, Forking, Running
  <1>6. CASE u = t /\ PropagateToConsumer(t)
    <2>1. PICK c \in TransactionID : Propagated(t, Forked(t), c)
      BY <1>6, Propagation
    <2> QED
      BY <1>2, <1>6, <2>1 DEF Propagated, Forking, Running
  <1>7. CASE u = t /\ VisitOutput(t)
    <2>1. PICK o \in OutputID : IsVisited(t, o)
      BY <1>7, Visit
    <2>2. Forked(t) \in TransactionID
      BY <1>1, <2>1, PropagatedConflict DEF IsVisited
    <2> QED
      BY <1>2, <1>7, <2>1, <2>2 DEF IsVisited, Forking, Running
  <1> QED
    BY <1>1, <1>3, <1>4, <1>5, <1>6, <1>7, ForkingSteps

LEMMA OwnStep ==
  ASSUME NEW t, PendingStep(t)
  PROVE  OwnInv'
  <1> SUFFICES ASSUME NEW u \in TransactionID
               PROVE  /\ Created(u)' => /\ DAG!Exists(u)'
                                        /\ booking'[u].parentConflicts \subseteq
                                             DAG!Closure({u}, parents')
                      /\ DAG!Exists(u)' => u \in booked' \/ Created(u)'
                      /\ DAG!Exists(u)' /\ u \in booked' =>
                           \/ conflictIDs'[u] = {u}
                           \/ \E g \in TransactionID : Running(g, "update")' /\ Forked(g)' = u
                      /\ Forking(u)' => booking'[u].previousParents \subseteq
                                          DAG!Closure({Forked(u)'}, parents')
                      /\ Running(u, "update")' =>
                           booking'[u].previousParents = conflictIDs'[Forked(u)']
    BY Zenon DEF OwnInv
  <1>1. Running(u, "update")' => Forking(u)'
    BY DEF Forking
  <1> QED
    BY <1>1, CreatedStep, OwnConflictStep, PreviousParentsStep, Zenon

-----------------------------------------------------------------------------
(* A consumer that the walk has reached depends on the forked conflict     *)
(* afterwards, or will be visited.                                         *)
LEMMA PropagatedIsKnown ==
  ASSUME NEW t, PendingStep(t), NEW f, NEW c \in TransactionID, Propagated(t, f, c), c \in booked
  PROVE  f \in Knows(c)'
  <1>1. /\ IInv /\ conflictIDs \in [TransactionID -> SUBSET TransactionID]
        /\ conflictIDs' \in [TransactionID -> SUBSET TransactionID]
        /\ parents \in [TransactionID -> SUBSET TransactionID]
        /\ parents' \in [TransactionID -> SUBSET TransactionID]
    <2>1. IInv /\ IInv'
      BY DEF PendingStep
    <2> QED
      BY <2>1, PendingStepFacts DEF IInv, TypeOK
  <1> DEFINE ids == conflictIDs'[c]
             q == parents'
  <1>2. Knows(c)' = DAG!Closure(ids, q)
    <2>1. c \in booked'
      BY DEF Propagated
    <2> QED
      BY <2>1 DEF Knows
  <1>3. CASE f \in ids
    <2>1. ids \in SUBSET TransactionID /\ q \in [TransactionID -> SUBSET TransactionID]
      BY <1>1
    <2> HIDE DEF ids, q
    <2> QED
      BY <1>2, <1>3, <2>1, ClosureFacts
  <1>4. CASE f \in conflictIDs[c]
    <2>1. f \in Knows(c) /\ PastCheck(c)
      <3> DEFINE old == conflictIDs[c]
      <3>1. old \in SUBSET TransactionID /\ f \in old /\ Knows(c) = DAG!Closure(old, parents)
        BY <1>1, <1>4 DEF Knows
      <3> HIDE DEF old
      <3> QED
        BY <1>1, <3>1, ClosureFacts DEF PastCheck
    <2> QED
      BY <2>1, KnowsGrows
  <1>5. CASE IsConflicting(c)
    <2>1. ids = {c}
      BY <1>5 DEF Propagated, IsConflicting
    <2>2. f \in q[c]
      BY <1>1, <1>5 DEF Propagated
    <2>3. {c} \in SUBSET TransactionID /\ q \in [TransactionID -> SUBSET TransactionID]
      BY <1>1
    <2> HIDE DEF ids, q
    <2>4. f \in DAG!Closure({c}, q)
      BY <2>2, <2>3, ClosureFacts
    <2> QED
      BY <1>2, <2>1, <2>4
  <1> QED
    BY <1>1, <1>3, <1>4, <1>5 DEF Propagated

(* The conflict f is known to the creators of the outputs that the walk of *)
(* g has to visit, and to whoever it has visited.                          *)
Seen(g, f) ==
  /\ \A o \in booking[g].walk : \E x \in booked : o \in Outputs[x] /\ f \in Knows(x)
  /\ booking[g].visiting \subseteq booking[g].seen
  /\ \A u \in booking[g].seen : \E x \in Predecessors(u) : x \in booked /\ f \in Knows(x)
  /\ \A u \in booking[g].seen \ booking[g].visiting : PastCheck(u) => f \in Knows(u)

(* The steps that leave the walk alone keep this.                          *)
LEMMA SeenStays ==
  ASSUME NEW t, PendingStep(t), NEW g \in TransactionID, NEW f, Seen(g, f),
         booking'[g].walk \subseteq booking[g].walk, booking'[g].visiting = booking[g].visiting,
         booking'[g].seen = booking[g].seen
  PROVE  Seen(g, f)'
  <1>1. /\ t \in TransactionID /\ IInv /\ booked \subseteq booked' /\ booked \subseteq TransactionID
        /\ booking[g] \in Goroutine
    BY PendingStepFacts DEF IInv, TypeOK
  <1>2. ASSUME NEW x \in booked, f \in Knows(x)
        PROVE  x \in booked' /\ f \in Knows(x)'
    BY <1>1, <1>2, KnowsGrows DEF PastCheck
  <1>3. \A o \in booking'[g].walk : \E x \in booked' : o \in Outputs[x] /\ f \in Knows(x)'
    BY <1>2 DEF Seen
  <1>4. \A u \in booking'[g].seen : \E x \in Predecessors(u) : x \in booked' /\ f \in Knows(x)'
    BY <1>2 DEF Seen
  <1>5. ASSUME NEW u \in booking'[g].seen \ booking'[g].visiting, PastCheck(u)'
        PROVE  f \in Knows(u)'
    <2>1. u \in TransactionID /\ u \in booking[g].seen \ booking[g].visiting
      BY <1>1 DEF Goroutine
    <2>2. CASE PastCheck(u)
      BY <2>1, <2>2, KnowsGrows DEF Seen
    <2>3. CASE ~PastCheck(u)
      <3>1. u = t /\ InheritConflictIDs(t)
        BY <1>5, <2>1, <2>3, CheckPassed
      <3>2. PICK x \in Predecessors(u) : f \in Knows(x)
        BY <2>1 DEF Seen
      <3> QED
        BY <3>1, <3>2, Inheriting
    <2> QED
      BY <2>2, <2>3
  <1>6. booking'[g].visiting \subseteq booking'[g].seen
    BY DEF Seen
  <1> QED
    BY <1>3, <1>4, <1>5, <1>6 DEF Seen

LEMMA SeenStep ==
  ASSUME NEW t, PendingStep(t)
  PROVE  SeenInv'
  <1> SUFFICES ASSUME NEW g \in TransactionID, Running(g, "propagate")'
               PROVE  Seen(g, Forked(g))'
    BY DEF SeenInv, Seen
  <1>1. /\ t \in TransactionID /\ IInv /\ booked \subseteq booked'
        /\ \A v \in TransactionID : v # t => booking'[v] = booking[v]
        /\ Store(t) \/ Process(t) \/ EventLoop(t) \/ AcceptConflict(t)
        /\ booked \subseteq TransactionID
    BY PendingStepFacts DEF IInv, TypeOK
  <1>2. Running(g, "propagate") => Seen(g, Forked(g))
    BY DEF PendingStep, InheritInv, SeenInv, Seen
  <1>3. CASE booking'[g] = booking[g]
    <2>1. Running(g, "propagate") /\ Forked(g)' = Forked(g)
      BY <1>3 DEF Running, Forked
    <2>2. PICK f \in TransactionID : f = Forked(g)
      BY <1>1, <2>1, PropagatedConflict
    <2>3. Seen(g, f)'
      BY <1>2, <1>3, <2>1, <2>2, SeenStays
    <2> QED
      BY <2>1, <2>2, <2>3 DEF Seen
  <1>4. CASE g = t /\ UpdateForkedTransaction(t)
    <2>1. ForkedIsUpdated(t, Forked(t))
      BY <1>4, UpdateOfForked
    <2>2. PICK f \in TransactionID : f = Forked(t) /\ f = Forked(t)'
      BY <2>1 DEF ForkedIsUpdated
    <2>3. f \in booked' /\ f \in booked
      BY <1>1, <2>1, <2>2 DEF ForkedIsUpdated
    <2>4. conflictIDs'[f] = {f}
      BY <1>1, <2>1, <2>2 DEF ForkedIsUpdated, IInv, TypeOK
    <2>5. f \in Knows(f)'
      <3> DEFINE q == parents'
      <3>1. Knows(f)' = DAG!Closure({f}, q)
        BY <2>3, <2>4 DEF Knows
      <3>2. q \in [TransactionID -> SUBSET TransactionID]
        BY PendingStepFacts
      <3> HIDE DEF q
      <3> QED
        BY <3>1, <3>2, ClosureFacts
    <2>6. Seen(g, f)'
      BY <1>4, <2>1, <2>2, <2>3, <2>5 DEF Seen, ForkedIsUpdated
    <2> QED
      BY <1>4, <2>2, <2>6 DEF Seen
  <1>5. CASE g = t /\ VisitOutput(t)
    <2>1. PICK o \in OutputID : IsVisited(t, o)
      BY <1>5, Visit
    <2>2. PICK f \in TransactionID : f = Forked(t) /\ f = Forked(t)'
      BY <1>1, <2>1, PropagatedConflict DEF IsVisited
    <2>3. Seen(t, f) /\ booking[t].visiting = {}
      BY <1>2, <1>5, <2>1, <2>2 DEF IsVisited
    <2>4. ASSUME NEW x \in booked, f \in Knows(x)
          PROVE  x \in booked' /\ f \in Knows(x)'
      BY <1>1, <2>4, KnowsGrows DEF PastCheck
    <2>5. \A p \in booking'[t].walk : \E x \in booked' : p \in Outputs[x] /\ f \in Knows(x)'
      BY <2>1, <2>3, <2>4 DEF Seen, IsVisited
    <2>6. \A u \in booking'[t].seen : \E x \in Predecessors(u) : x \in booked' /\ f \in Knows(x)'
      <3>1. PICK x \in booked : o \in Outputs[x] /\ f \in Knows(x)
        BY <2>1, <2>3 DEF Seen, IsVisited
      <3>2. \A u \in consumers[o] : x \in Predecessors(u)
        BY <1>1, <2>1, <3>1 DEF IInv, ConeInv, Predecessors
      <3>3. \A u \in booking[t].seen : \E y \in Predecessors(u) : y \in booked' /\ f \in Knows(y)'
        BY <2>3, <2>4 DEF Seen
      <3>4. \A u \in consumers[o] : \E y \in Predecessors(u) : y \in booked' /\ f \in Knows(y)'
        BY <2>4, <3>1, <3>2
      <3> QED
        BY <2>1, <3>3, <3>4 DEF IsVisited
    <2>7. ASSUME NEW u \in booking'[t].seen \ booking'[t].visiting, PastCheck(u)'
          PROVE  f \in Knows(u)'
      <3>1. u \in booking[t].seen /\ u \in TransactionID
        BY <1>1, <2>1 DEF IsVisited, IInv, TypeOK, Goroutine
      <3>2. PastCheck(u)
        BY <1>1, <1>5, <2>7, <3>1, CheckPassed DEF VisitOutput, InheritConflictIDs, Running
      <3> QED
        BY <2>3, <3>1, <3>2, KnowsGrows DEF Seen
    <2>8. booking'[t].visiting \subseteq booking'[t].seen
      BY <2>1 DEF IsVisited
    <2>9. Seen(t, f)'
      BY <2>5, <2>6, <2>7, <2>8 DEF Seen
    <2> QED
      BY <1>5, <2>2, <2>9 DEF Seen
  <1>6. CASE g = t /\ PropagateToConsumer(t)
    <2>1. PICK c \in TransactionID : Propagated(t, Forked(t), c)
      BY <1>6, Propagation
    <2>2. PICK f \in TransactionID : f = Forked(t) /\ f = Forked(t)'
      BY <2>1 DEF Propagated
    <2>3. Seen(t, f) /\ Propagated(t, f, c)
      BY <1>2, <1>6, <2>1, <2>2 DEF Propagated
    <2>4. ASSUME NEW x \in booked, f \in Knows(x)
          PROVE  x \in booked' /\ f \in Knows(x)'
      BY <1>1, <2>4, KnowsGrows DEF PastCheck
    <2>5. c \in booked => f \in Knows(c)'
      BY <2>3, PropagatedIsKnown
    <2>6. ASSUME NEW p \in booking'[t].walk
          PROVE  \E x \in booked' : p \in Outputs[x] /\ f \in Knows(x)'
      <3>1. CASE p \in booking[t].walk
        BY <2>3, <2>4, <3>1 DEF Seen
      <3>2. CASE p \in OutputIDs(c)
        <4>1. c \in booked /\ p \in Outputs[c]
          BY <3>2 DEF OutputIDs
        <4> QED
          BY <1>1, <2>5, <4>1
      <3> QED
        BY <2>3, <3>1, <3>2 DEF Propagated
    <2>7. \A u \in booking'[t].seen : \E x \in Predecessors(u) : x \in booked' /\ f \in Knows(x)'
      BY <2>3, <2>4 DEF Seen, Propagated
    <2>8. ASSUME NEW u \in booking'[t].seen \ booking'[t].visiting, PastCheck(u)'
          PROVE  f \in Knows(u)'
      <3>1. u \in booking[t].seen /\ u \in TransactionID
        BY <1>1, <2>3 DEF Propagated, IInv, TypeOK, Goroutine
      <3>2. PastCheck(u)
        BY <1>1, <1>6, <2>8, <3>1, CheckPassed DEF PropagateToConsumer, InheritConflictIDs, Running
      <3>3. CASE u # c
        BY <2>3, <3>1, <3>2, <3>3, KnowsGrows DEF Seen, Propagated
      <3>4. CASE u = c
        <4>1. mutex[c] # c
          BY <2>3, LedgerConstants DEF Propagated
        <4>2. c \in booked
          BY <1>1, <3>2, <3>4, <4>1 DEF IInv, LockInv, PastCheck, Running
        <4> QED
          BY <2>5, <3>4, <4>2
      <3> QED
        BY <3>3, <3>4
    <2>9. booking'[t].visiting \subseteq booking'[t].seen
      BY <2>3 DEF Propagated, Seen
    <2>10. Seen(t, f)'
      BY <2>6, <2>7, <2>8, <2>9 DEF Seen
    <2> QED
      BY <1>6, <2>2, <2>10 DEF Seen
  <1>7. Forking(g)'
    BY DEF Forking
  <1>8. CASE g = t /\ ForkTransaction(t)
    BY <1>8, ForkOfSpender DEF IsForked, Running
  <1> QED
    BY <1>1, <1>3, <1>4, <1>5, <1>6, <1>7, <1>8, ForkingSteps

(* A conflict of a predecessor is known, or on its way.                    *)
Covered(c, u, t) == c \in Knows(t) \/ OnItsWay(c, u, t)

(* What is on its way stays so until it arrives.                           *)
LEMMA WaysGoOn ==
  ASSUME NEW t, PendingStep(t), SeenInv', NEW u \in TransactionID, PastCheck(u),
         NEW x \in Predecessors(u), x \in booked, NEW c, OnItsWay(c, x, u)
  PROVE  Covered(c, x, u)'
  <1>1. /\ t \in TransactionID /\ IInv /\ booking[t] \in Goroutine
        /\ booking \in [TransactionID -> Goroutine]
        /\ \A v \in TransactionID : v # t => booking'[v] = booking[v]
    BY PendingStepFacts DEF IInv, TypeOK
  <1>2. PICK g \in TransactionID :
          /\ Running(g, "propagate") /\ Forked(g) = c
          /\ \/ u \in booking[g].visiting
             \/ booking[g].walk \intersect Outputs[x] \intersect InputIDs(u) # {}
    BY DEF OnItsWay
  <1>3. CASE booking'[g] = booking[g]
    <2>1. Running(g, "propagate")' /\ Forked(g)' = c
      BY <1>2, <1>3 DEF Running, Forked
    <2>2. OnItsWay(c, x, u)'
      BY <1>2, <1>3, <2>1 DEF OnItsWay
    <2> QED
      BY <2>2 DEF Covered
  <1>4. PastCheck(u)'
    BY KnowsGrows
  <1>5. ASSUME Running(g, "propagate")', Forked(g)' = c, u \in booking'[g].seen
        PROVE  Covered(c, x, u)'
    <2>1. CASE u \in booking'[g].visiting
      <3>1. OnItsWay(c, x, u)'
        BY <1>5, <2>1 DEF OnItsWay
      <3> QED
        BY <3>1 DEF Covered
    <2>2. CASE u \notin booking'[g].visiting
      <3>1. c \in Knows(u)'
        BY <1>4, <1>5, <2>2 DEF SeenInv
      <3> QED
        BY <3>1 DEF Covered
    <2> QED
      BY <2>1, <2>2
  <1>6. ASSUME Running(g, "propagate")', Forked(g)' = c,
               booking'[g].walk \intersect Outputs[x] \intersect InputIDs(u) # {}
        PROVE  Covered(c, x, u)'
    <2>1. OnItsWay(c, x, u)'
      BY <1>6 DEF OnItsWay
    <2> QED
      BY <2>1 DEF Covered
  <1>7. u \in booking[g].visiting => u \in booking[g].seen
    BY <1>2 DEF PendingStep, InheritInv, SeenInv
  <1>8. CASE g = t /\ VisitOutput(t)
    <2>1. PICK o \in OutputID : IsVisited(t, o)
      BY <1>8, Visit
    <2>2. Running(g, "propagate")' /\ Forked(g)' = c
      BY <1>2, <1>8, <2>1 DEF IsVisited, Running
    <2>3. PICK p : p \in booking[g].walk /\ p \in Outputs[x] /\ p \in InputIDs(u)
      BY <1>2, <1>8, <2>1 DEF IsVisited
    <2>4. CASE p = o
      <3>1. u \in stored
        BY <1>1 DEF PastCheck, IInv, TypeOK, LockInv, Running
      <3>2. u \in consumers[o]
        BY <2>3, <2>4, <3>1 DEF PendingStep, InheritInv, SolidInv
      <3>3. u \in booking'[g].seen
        BY <1>8, <2>1, <3>2 DEF IsVisited
      <3> QED
        BY <1>5, <2>2, <3>3
    <2>5. CASE p # o
      <3>1. p \in booking'[g].walk
        BY <1>8, <2>1, <2>3, <2>5 DEF IsVisited
      <3> QED
        BY <1>6, <2>2, <2>3, <3>1
    <2> QED
      BY <2>4, <2>5
  <1>9. CASE g = t /\ PropagateToConsumer(t)
    <2>1. PICK d \in TransactionID : Propagated(t, Forked(t), d)
      BY <1>9, Propagation
    <2>2. Running(g, "propagate")' /\ Forked(g)' = c
      BY <1>2, <1>9, <2>1 DEF Propagated, Running
    <2>3. u \in booking[g].visiting => u \in booking'[g].seen
      BY <1>7, <1>9, <2>1 DEF Propagated
    <2>4. booking[g].walk \subseteq booking'[g].walk
      BY <1>9, <2>1 DEF Propagated
    <2> QED
      BY <1>2, <1>5, <1>6, <2>2, <2>3, <2>4
  <1>10. CASE g = t /\ ~VisitOutput(t) /\ ~PropagateToConsumer(t)
    <2>1. mutex[g] = g /\ booking[g].at = "propagate"
      BY <1>1, <1>2 DEF IInv, LockInv, Running
    <2>2. ~Store(g) /\ ~ProcessTransaction(g)
      BY <2>1, LedgerConstants DEF Store, ProcessTransaction
    <2>3. ~FinishFork(g)
      BY <1>2 DEF FinishFork
    <2>4. /\ ~Unsolid(g) /\ ~InheritConflictIDs(g) /\ ~RegisterBookedConsumer(g)
          /\ ~CreateOwnConflict(g) /\ ~ForkTransaction(g) /\ ~JoinConflictSets(g)
          /\ ~UpdateForkedTransaction(g) /\ ~BookTransaction(g)
      BY <2>1 DEF Unsolid, InheritConflictIDs, RegisterBookedConsumer, CreateOwnConflict,
         RegisteredAll, ForkTransaction, JoinConflictSets, UpdateForkedTransaction,
         BookTransaction, ReadyToBook, Running
    <2>5. ProcessConsumingTransactions(g)
      BY <1>10, <2>2, <2>3, <2>4 DEF PendingStep, Process, EventLoop
    <2> QED
      BY <1>3, <2>5 DEF ProcessConsumingTransactions
  <1> QED
    BY <1>1, <1>3, <1>8, <1>9, <1>10

(* What becomes a conflict of a predecessor is on its way at once.         *)
LEMMA NewConflictsAreOnTheirWay ==
  ASSUME NEW t, PendingStep(t), NEW u \in TransactionID, PastCheck(u),
         NEW x \in Predecessors(u), x \in booked, NEW c \in conflictIDs'[x], c \notin conflictIDs[x]
  PROVE  OnItsWay(c, x, u)'
  <1>1. /\ t \in TransactionID /\ x \in TransactionID
        /\ Store(t) \/ Process(t) \/ EventLoop(t) \/ AcceptConflict(t)
        /\ conflictIDs \in [TransactionID -> SUBSET TransactionID]
    BY PendingStepFacts DEF IInv, TypeOK, Predecessors
  <1>2. PICK p : p \in Outputs[x] /\ p \in InputIDs(u)
    BY DEF Predecessors
  <1>3. CASE UpdateForkedTransaction(t)
    <2>1. ForkedIsUpdated(t, Forked(t))
      BY <1>3, UpdateOfForked
    <2>2. x = Forked(t) /\ c = Forked(t)
      BY <1>1, <2>1 DEF ForkedIsUpdated
    <2>3. Running(t, "propagate")' /\ Forked(t)' = c /\ p \in booking'[t].walk
      BY <1>2, <2>1, <2>2 DEF ForkedIsUpdated, Running
    <2> QED
      BY <1>1, <1>2, <2>3 DEF OnItsWay
  <1>4. CASE PropagateToConsumer(t)
    <2>1. PICK d \in TransactionID : Propagated(t, Forked(t), d)
      BY <1>4, Propagation
    <2>2. conflictIDs' # conflictIDs
      OBVIOUS
    <2>3. x = d /\ c = Forked(t) /\ booking'[t].walk = booking[t].walk \union OutputIDs(d)
      BY <1>1, <2>1, <2>2 DEF Propagated
    <2>4. Running(t, "propagate")' /\ Forked(t)' = c /\ p \in booking'[t].walk
      BY <1>2, <2>1, <2>3 DEF Propagated, OutputIDs, Running
    <2> QED
      BY <1>1, <1>2, <2>4 DEF OnItsWay
  <1>5. CASE BookTransaction(t)
    <2>1. PICK ids \in SUBSET TransactionID : IsBookedAs(t, ids)
      BY <1>5, Booking
    <2> QED
      BY <1>1, <2>1 DEF IsBookedAs
  <1> QED
    BY <1>1, <1>3, <1>4, <1>5, WhoChangesWhat

LEMMA EdgeStep ==
  ASSUME NEW t, PendingStep(t), SeenInv'
  PROVE  EdgeInv'
  <1> SUFFICES ASSUME NEW u \in TransactionID, PastCheck(u)', NEW x \in Predecessors(u),
                      NEW c \in conflictIDs'[x]
               PROVE  Covered(c, x, u)'
    BY DEF EdgeInv, Covered
  <1>1. CASE PastCheck(u)
    <2>1. x \in booked
      BY <1>1 DEF PendingStep, InheritInv, SolidInv
    <2>2. CASE c \in conflictIDs[x]
      <3>1. c \in Knows(u) \/ OnItsWay(c, x, u)
        BY <1>1, <2>2 DEF PendingStep, InheritInv, EdgeInv
      <3>2. CASE c \in Knows(u)
        BY <1>1, <3>2, KnowsGrows DEF Covered
      <3> QED
        BY <1>1, <2>1, <3>1, <3>2, WaysGoOn
    <2>3. CASE c \notin conflictIDs[x]
      BY <1>1, <2>1, <2>3, NewConflictsAreOnTheirWay DEF Covered
    <2> QED
      BY <2>2, <2>3
  <1>2. CASE ~PastCheck(u)
    <2>1. u = t /\ InheritConflictIDs(t)
      BY <1>2, CheckPassed
    <2> QED
      BY <2>1, Inheriting DEF Covered
  <1> QED
    BY <1>1, <1>2

-----------------------------------------------------------------------------
LEMMA InheritStep ==
  IInv /\ IInv' /\ (AllPending => InheritInv) /\ [Next]_vars => (AllPending' => InheritInv')
  <1> SUFFICES ASSUME IInv, IInv', AllPending => InheritInv, [Next]_vars, AllPending'
               PROVE  InheritInv'
    OBVIOUS
  <1>1. AllPending /\ InheritInv /\ \A t \in TransactionID : ~AcceptConflict(t)
    BY DecisionsStay
  <1>2. CASE UNCHANGED vars
    <2>1. UNCHANGED <<confirmationState, parents, stored, consumers, booked, conflictIDs, available,
                      outputConflictIDs, booking>>
      BY <1>2 DEF vars, metadataVars, conflictVars
    <2>2. SolidInv'
      BY <1>1, <2>1 DEF InheritInv, SolidInv, PastCheck
    <2>3. OwnInv'
      BY <1>1, <2>1 DEF InheritInv, OwnInv, Created, Forking, Running, Forked, DAG!Exists
    <2>4. SeenInv'
      BY <1>1, <2>1 DEF InheritInv, SeenInv, Knows, PastCheck, Running, Forked
    <2>5. EdgeInv'
      BY <1>1, <2>1 DEF InheritInv, EdgeInv, OnItsWay, Knows, PastCheck, Running, Forked
    <2> QED
      BY <2>2, <2>3, <2>4, <2>5 DEF InheritInv
  <1>3. ASSUME NEW t \in TransactionID, Store(t) \/ Process(t) \/ EventLoop(t)
        PROVE  InheritInv'
    <2>1. PendingStep(t)
      BY <1>1, <1>3 DEF PendingStep
    <2>2. SolidInv' /\ OwnInv' /\ SeenInv'
      BY <2>1, SolidStep, OwnStep, SeenStep
    <2>3. EdgeInv'
      BY <2>1, <2>2, EdgeStep
    <2> QED
      BY <2>2, <2>3 DEF InheritInv
  <1> QED
    BY <1>1, <1>2, <1>3 DEF Next

LEMMA InitInheritInv == Init => InheritInv
  <1> SUFFICES ASSUME Init
               PROVE  InheritInv
    OBVIOUS
  <1> USE DEF Init, DAG!Init
  <1>1. SolidInv
    BY DEF SolidInv, PastCheck, NotRunning
  <1>2. OwnInv
    BY DEF OwnInv, Created, Forking, Running, DAG!Exists, NotRunning
  <1>3. SeenInv /\ EdgeInv
    BY DEF SeenInv, EdgeInv, PastCheck, Running, NotRunning
  <1> QED
    BY <1>1, <1>2, <1>3 DEF InheritInv

(* The past cone of a transaction is itself and its ancestors.             *)
LEMMA ConeFacts ==
  ASSUME NEW t \in TransactionID
  PROVE  /\ Ancestors[t] \union {t} \subseteq PastCone[t]
         /\ \A S \in SUBSET TransactionID :
              t \in S /\ (\A x \in S : Predecessors(x) \subseteq S) => PastCone[t] \subseteq S
  <1> DEFINE succ == [u \in TransactionID |-> Predecessors(u)]
  <1>1. /\ succ \in [TransactionID -> SUBSET TransactionID]
        /\ \A u \in TransactionID : succ[u] = Predecessors(u)
    BY DEF Predecessors
  <1>2. PastCone[t] = DAG!Closure({t}, succ) /\ Ancestors[t] = DAG!Closure(succ[t], succ)
    BY <1>1 DEF PastCone, Ancestors
  <1> HIDE DEF succ
  <1>3. /\ t \in PastCone[t]
        /\ \A x \in PastCone[t] : succ[x] \subseteq PastCone[t]
        /\ \A Y \in SUBSET PastCone[t] : DAG!Closure(Y, succ) \subseteq PastCone[t]
        /\ \A S \in SUBSET TransactionID :
             t \in S /\ (\A x \in S : succ[x] \subseteq S) => PastCone[t] \subseteq S
    BY <1>1, <1>2, ClosureFacts
  <1>4. Ancestors[t] \subseteq PastCone[t]
    <2>1. succ[t] \in SUBSET PastCone[t]
      BY <1>3
    <2>2. DAG!Closure(succ[t], succ) \subseteq PastCone[t]
      BY <1>3, <2>1
    <2> QED
      BY <1>2, <2>2
  <1>5. \A S \in SUBSET TransactionID :
          (\A x \in S : Predecessors(x) \subseteq S) => \A x \in S : succ[x] \subseteq S
    BY <1>1
  <1> QED
    BY <1>3, <1>4, <1>5

(* Nobody runs, so nothing is on its way: what the past cone knows is      *)
(* known.                                                                  *)
LEMMA QuietConesInherit ==
  ASSUME IInv, InheritInv
  PROVE  FutureConeInherits
  <1> SUFFICES ASSUME NobodyRunning, NEW t \in booked
               PROVE  /\ {p \in PastCone[t] : DAG!Exists(p) /\ ~DAG!IsAccepted(p)}
                           \subseteq Dependencies(t)
                      /\ Dependencies(t) \subseteq PastCone[t]
    BY DEF FutureConeInherits
  <1>1. /\ booked \subseteq TransactionID /\ t \in TransactionID
        /\ conflictIDs \in [TransactionID -> SUBSET TransactionID]
        /\ parents \in [TransactionID -> SUBSET TransactionID]
    BY DEF IInv, TypeOK, DAG!TypeOK
  <1>2. \A u \in booked : Knows(u) = Dependencies(u)
    BY DEF Knows, Dependencies
  <1>3. \A g \in TransactionID : ~Running(g, "propagate") /\ ~Running(g, "update")
    BY DEF NobodyRunning, Running
  <1>4. \A u \in booked : /\ conflictIDs[u] \subseteq Dependencies(u)
                          /\ \A Y \in SUBSET Dependencies(u) :
                               DAG!Closure(Y, parents) \subseteq Dependencies(u)
    BY <1>1, ClosureFacts DEF Dependencies
  <1> DEFINE S == {u \in booked : Dependencies(u) \subseteq Dependencies(t)}
  <1>5. ASSUME NEW u \in S, NEW x \in Predecessors(u)
        PROVE  x \in S
    <2>1. x \in booked
      BY <1>1 DEF InheritInv, SolidInv, PastCheck
    <2>2. \A c \in conflictIDs[x] : ~OnItsWay(c, x, u)
      BY <1>3 DEF OnItsWay
    <2>3. conflictIDs[x] \subseteq Dependencies(u)
      BY <1>1, <1>2, <2>1, <2>2 DEF InheritInv, EdgeInv, PastCheck
    <2>4. Dependencies(x) \subseteq Dependencies(u)
      BY <1>4, <2>3 DEF Dependencies
    <2> QED
      BY <2>1, <2>4
  <1>6. S \in SUBSET TransactionID /\ t \in S
    BY <1>1
  <1>7. \A p \in PastCone[t] : p \in booked /\ Dependencies(p) \subseteq Dependencies(t)
    <2> HIDE DEF S
    <2>1. PastCone[t] \subseteq S
      BY <1>1, <1>5, <1>6, ConeFacts
    <2> QED
      BY <2>1 DEF S
  <1>8. ASSUME NEW p \in PastCone[t], DAG!Exists(p)
        PROVE  p \in Dependencies(t)
    <2>1. p \in booked /\ Dependencies(p) \subseteq Dependencies(t)
      BY <1>7
    <2>2. conflictIDs[p] = {p}
      BY <1>1, <1>3, <1>8, <2>1 DEF InheritInv, OwnInv
    <2> QED
      BY <1>4, <2>1, <2>2
  <1>9. Dependencies(t) \subseteq PastCone[t]
    <2>1. PastOf(t) \in SUBSET TransactionID /\ conflictIDs[t] \subseteq PastOf(t)
      BY <1>1, AncestorFacts DEF PastOf, IInv, ConeInv
    <2>2. \A x \in PastOf(t) : parents[x] \subseteq PastOf(t)
      BY <1>1, AncestorFacts DEF PastOf, IInv, ConeInv
    <2>3. Dependencies(t) \subseteq PastOf(t)
      BY <1>1, <2>1, <2>2, ClosureFacts DEF Dependencies
    <2> QED
      BY <1>1, <2>3, ConeFacts DEF PastOf
  <1> QED
    BY <1>8, <1>9

(* As long as nothing is decided every future cone inherits the forks of   *)
(* its past, however they raced with each other, with the registrations    *)
(* and with the booking: between the runs a transaction depends on exactly *)
(* the conflicts of its past cone.                                         *)
THEOREM FutureConesInherit == Spec => [](AllPending => FutureConeInherits)
  <1>1. IInv /\ (AllPending => InheritInv) => (AllPending => FutureConeInherits)
    BY QuietConesInherit
  <1>2. Init => (AllPending => InheritInv)
    BY InitInheritInv
  <1>3. IInv /\ IInv' /\ (AllPending => InheritInv) /\ [Next]_vars => (AllPending => InheritInv)'
    BY InheritStep
  <1> QED
    BY <1>1, <1>2, <1>3, Inductive, PTL DEF Spec
=============================================================================
