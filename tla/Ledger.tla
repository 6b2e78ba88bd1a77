-------------------------------- MODULE Ledger --------------------------------
(***************************************************************************)
(* The ledger (packages/protocol/ledger): transactions arrive in any       *)
(* order, are booked once all their inputs are known, and become conflicts *)
(* when they spend an output that was spent before.  The first spender is  *)
(* then forked: it becomes a conflict too, and the transactions of its     *)
(* future cone inherit it.                                                 *)
(*                                                                         *)
(* One goroutine at a time processes a transaction: it holds the           *)
(* transaction's entry of the ledger's DAGMutex from the first to the last *)
(* step, and takes the entries of the transactions it forks or updates on  *)
(* the way.  The goroutine is named by the transaction it processes.  Its  *)
(* steps interleave with those of all the others.                          *)
(*                                                                         *)
(* The ConflictDAG is the module of that name; its operations are atomic.  *)
(* Not modelled: invalid transactions and their pruning.                   *)
(***************************************************************************)
EXTENDS Naturals, Sequences, SequencesExt

CONSTANTS TransactionID,
          EmptyTransactionID,  \* no transaction
          OutputID,
          Inputs,              \* the outputs a transaction spends, in order
          Outputs,             \* the outputs a transaction creates
          Acceptable           \* bound: what consensus may accept in a run

InputIDs(t) == ToSet(Inputs[t])

(* A transaction lists an input once, and an output has one creator.       *)
ASSUME LedgerConstants ==
  /\ EmptyTransactionID \notin TransactionID
  /\ Inputs \in [TransactionID -> Seq(OutputID)]
  /\ Outputs \in [TransactionID -> SUBSET OutputID]
  /\ \A t \in TransactionID : IsInjective(Inputs[t])
  /\ \A t, u \in TransactionID : t # u => Outputs[t] \intersect Outputs[u] = {}
  /\ Acceptable \subseteq TransactionID

VARIABLES
  confirmationState, parents, conflictSetIDs, members, children,  \* the ConflictDAG
  stored,             \* transactions with a TransactionMetadata
  consumers,          \* Consumer references: output -> transactions
  booked,             \* transactions whose metadata has the Booked flag
  conflictIDs,        \* ConflictIDs of a transaction's metadata
  available,          \* the outputs that are stored
  outputConflictIDs,  \* ConflictIDs of an output's metadata
  firstConsumer,      \* FirstConsumer of an output's metadata
  mutex,              \* DAGMutex: who holds the entry of a transaction
  booking,            \* the local state of each goroutine
  bookedEvents,       \* TransactionBooked events that wait for their handler
  tasks               \* transactions that processTransaction is submitted for

conflictVars == <<confirmationState, parents, conflictSetIDs, members, children>>
metadataVars == <<booked, conflictIDs, available, outputConflictIDs>>
vars == <<conflictVars, stored, consumers, metadataVars, firstConsumer,
          mutex, booking, bookedEvents, tasks>>

DAG == INSTANCE ConflictDAG WITH ConflictID <- TransactionID, ResourceID <- OutputID

-----------------------------------------------------------------------------
Predecessors(t) == {p \in TransactionID : Outputs[p] \intersect InputIDs(t) # {}}

Ancestors ==
  [t \in TransactionID |->
     DAG!Closure(Predecessors(t), [u \in TransactionID |-> Predecessors(u)])]

(* An input names a transaction by its hash: none is its own ancestor.     *)
ASSUME InputsAreOlder == \A t \in TransactionID : t \notin Ancestors[t]

(* Outputs that no transaction creates exist from the start.               *)
GenesisOutputs == OutputID \ UNION {Outputs[t] : t \in TransactionID}

(* What the metadata of a transaction lists as its outputs: they are only  *)
(* known once it is booked.                                                *)
OutputIDs(t) == IF t \in booked THEN Outputs[t] ELSE {}

IsConflicting(t) == conflictIDs[t] = {t}

IsSolid(t) == InputIDs(t) \subseteq available

(* The local state of a goroutine that is not running.                     *)
NotRunning ==
  [at |-> "idle",               \* the step it takes next
   registered |-> 0,            \* inputs it is registered for so far
   parentConflicts |-> {},      \* conflicts inherited from the inputs
   conflictingInputs |-> {},    \* inputs somebody else spent before
   consumersToFork |-> <<>>,    \* who spent them first
   previousParents |-> {},      \* of the transaction being forked
   walk |-> {},                 \* outputs the propagation still has to visit
   visiting |-> {},             \* consumers found at the last output
   seen |-> {}]                 \* consumers found so far

Running(t, step) == booking[t].at = step

(* updateConflictsAfterFork for a transaction whose entry is locked.       *)
UpdatesConflictIDs(t, forked) == ~IsConflicting(t) /\ forked \notin conflictIDs[t]

UpdateConflictsAfterFork(t, forked, previousParents) ==
  /\ IF IsConflicting(t) /\ forked \notin parents[t]
     THEN DAG!UpdateConflictParents(t, previousParents, forked)
     ELSE UNCHANGED conflictVars
  /\ LET newConflicts ==
           DAG!UnconfirmedConflicts((conflictIDs[t] \ previousParents) \union {forked})
     IN  IF UpdatesConflictIDs(t, forked)
         THEN /\ conflictIDs' = [conflictIDs EXCEPT ![t] = newConflicts]
              /\ outputConflictIDs' = [o \in OutputID |->
                   IF o \in OutputIDs(t) THEN newConflicts ELSE outputConflictIDs[o]]
         ELSE UNCHANGED <<conflictIDs, outputConflictIDs>>
-----------------------------------------------------------------------------
(* StoreAndProcessTransaction up to the solidity check: the transaction    *)
(* and its Consumer references are stored before its inputs are looked up. *)
Store(t) ==
  /\ t \notin stored
  /\ mutex[t] = EmptyTransactionID
  /\ stored' = stored \union {t}
  /\ consumers' = [o \in OutputID |->
                     IF o \in InputIDs(t) THEN consumers[o] \union {t} ELSE consumers[o]]
  /\ mutex' = [mutex EXCEPT ![t] = t]
  /\ booking' = [booking EXCEPT ![t].at = "check"]
  /\ UNCHANGED <<conflictVars, metadataVars, firstConsumer, bookedEvents, tasks>>

(* Mutant of Unsolid: the entry of the DAGMutex is not released.           *)
Unsolid_KeepsEntry(t) ==
  /\ Running(t, "check")
  /\ ~IsSolid(t)
  /\ booking' = [booking EXCEPT ![t] = NotRunning]
  /\ UNCHANGED <<conflictVars, stored, consumers, metadataVars, firstConsumer,
                 mutex, bookedEvents, tasks>>

(* An input is missing: the goroutine gives up until a retry.              *)
Unsolid(t) ==
  /\ Running(t, "check")
  /\ ~IsSolid(t)
  /\ mutex' = [mutex EXCEPT ![t] = EmptyTransactionID]
  /\ booking' = [booking EXCEPT ![t] = NotRunning]
  /\ UNCHANGED <<conflictVars, stored, consumers, metadataVars, firstConsumer,
                 bookedEvents, tasks>>

(* All inputs are known: their conflicts are read, once.                   *)
InheritConflictIDs(t) ==
  /\ Running(t, "check")
  /\ IsSolid(t)
  /\ booking' = [booking EXCEPT
       ![t].at = "register",
       ![t].parentConflicts =
          DAG!UnconfirmedConflicts(UNION {outputConflictIDs[o] : o \in InputIDs(t)})]
  /\ UNCHANGED <<conflictVars, stored, consumers, metadataVars, firstConsumer,
                 mutex, bookedEvents, tasks>>

(* One iteration of determineConflictDetails.                              *)
RegisterBookedConsumer(t) ==
  LET i == booking[t].registered + 1
      o == Inputs[t][i]
      first == firstConsumer[o]
      toFork == booking[t].consumersToFork
  IN  /\ Running(t, "register")
      /\ i <= Len(Inputs[t])
      /\ \/ /\ first = EmptyTransactionID
            /\ firstConsumer' = [firstConsumer EXCEPT ![o] = t]
            /\ booking' = [booking EXCEPT ![t].registered = i]
         \/ /\ first # EmptyTransactionID
            /\ booking' = [booking EXCEPT
                 ![t].registered = i,
                 ![t].conflictingInputs = @ \union {o},
                 ![t].consumersToFork = IF Contains(toFork, first) THEN @ ELSE Append(@, first)]
            /\ UNCHANGED firstConsumer
      /\ UNCHANGED <<conflictVars, stored, consumers, metadataVars, mutex, bookedEvents, tasks>>

(* Mutant of RegisteredAll: the last input is skipped.                     *)
RegisteredAll_AllButOne(t) ==
  Running(t, "register") /\ booking[t].registered + 1 >= Len(Inputs[t])

RegisteredAll(t) ==
  Running(t, "register") /\ booking[t].registered = Len(Inputs[t])

(* The transaction spends what was spent before: it becomes a conflict.    *)
CreateOwnConflict(t) ==
  /\ RegisteredAll(t)
  /\ booking[t].conflictingInputs # {}
  /\ DAG!CreateConflict(t, booking[t].parentConflicts, booking[t].conflictingInputs)
  /\ booking' = [booking EXCEPT ![t].at = "fork"]
  /\ UNCHANGED <<stored, consumers, metadataVars, firstConsumer, mutex, bookedEvents, tasks>>

(* forkTransaction for the next first spender, with its entry locked.  It  *)
(* becomes a conflict ...                                                  *)
ForkTransaction(t) ==
  LET f == Head(booking[t].consumersToFork)
  IN  /\ Running(t, "fork")
      /\ booking[t].consumersToFork # <<>>
      /\ mutex[f] = EmptyTransactionID
      /\ DAG!CreateConflict(f, conflictIDs[f], InputIDs(f) \intersect booking[t].conflictingInputs)
      /\ mutex' = [mutex EXCEPT ![f] = t]
      /\ booking' = [booking EXCEPT ![t].at = "update", ![t].previousParents = conflictIDs[f]]
      /\ UNCHANGED <<stored, consumers, metadataVars, firstConsumer, bookedEvents, tasks>>

(* ... or it is a conflict already and joins further conflict sets.        *)
JoinConflictSets(t) ==
  LET f == Head(booking[t].consumersToFork)
  IN  /\ Running(t, "fork")
      /\ booking[t].consumersToFork # <<>>
      /\ mutex[f] = EmptyTransactionID
      /\ DAG!UpdateConflictingResources(f, InputIDs(f) \intersect booking[t].conflictingInputs)
      /\ booking' = [booking EXCEPT ![t].consumersToFork = Tail(@)]
      /\ UNCHANGED <<stored, consumers, metadataVars, firstConsumer, mutex, bookedEvents, tasks>>

(* The forked transaction is updated and its entry released.               *)
UpdateForkedTransaction(t) ==
  LET f == Head(booking[t].consumersToFork)
  IN  /\ Running(t, "update")
      /\ UpdateConflictsAfterFork(f, f, booking[t].previousParents)
      /\ mutex' = [mutex EXCEPT ![f] = EmptyTransactionID]
      /\ booking' = [booking EXCEPT
           ![t].at = "propagate", ![t].walk = OutputIDs(f), ![t].visiting = {}, ![t].seen = {}]
      /\ UNCHANGED <<stored, consumers, booked, available, firstConsumer, bookedEvents, tasks>>

(* Mutant of VisitOutput: consumers that are not booked are left out.      *)
VisitOutput_OnlyBooked(t) ==
  /\ Running(t, "propagate")
  /\ booking[t].visiting = {}
  /\ \E o \in booking[t].walk :
       booking' = [booking EXCEPT
         ![t].walk = @ \ {o},
         ![t].visiting = (consumers[o] \intersect booked) \ booking[t].seen]
  /\ UNCHANGED <<conflictVars, stored, consumers, metadataVars, firstConsumer,
                 mutex, bookedEvents, tasks>>

(* propagateForkedConflictToFutureCone: the walk reads the consumers of an *)
(* output ...                                                              *)
VisitOutput(t) ==
  /\ Running(t, "propagate")
  /\ booking[t].visiting = {}
  /\ \E o \in booking[t].walk :
       booking' = [booking EXCEPT
         ![t].walk = @ \ {o},
         ![t].visiting = consumers[o] \ booking[t].seen,
         ![t].seen = @ \union consumers[o]]
  /\ UNCHANGED <<conflictVars, stored, consumers, metadataVars, firstConsumer,
                 mutex, bookedEvents, tasks>>

(* ... and locks, updates and unlocks each of them; it goes on with the    *)
(* outputs of those whose ConflictIDs have changed.                        *)
PropagateToConsumer(t) ==
  LET f == Head(booking[t].consumersToFork)
  IN  /\ Running(t, "propagate")
      /\ \E c \in booking[t].visiting :
           /\ mutex[c] = EmptyTransactionID
           /\ UpdateConflictsAfterFork(c, f, booking[t].previousParents)
           /\ booking' = [booking EXCEPT
                ![t].visiting = @ \ {c},
                ![t].walk = IF UpdatesConflictIDs(c, f) THEN @ \union OutputIDs(c) ELSE @]
      /\ UNCHANGED <<stored, consumers, booked, available, firstConsumer,
                     mutex, bookedEvents, tasks>>

FinishFork(t) ==
  /\ Running(t, "propagate")
  /\ booking[t].walk = {} /\ booking[t].visiting = {}
  /\ booking' = [booking EXCEPT
       ![t].at = "fork", ![t].consumersToFork = Tail(@), ![t].previousParents = {}, ![t].seen = {}]
  /\ UNCHANGED <<conflictVars, stored, consumers, metadataVars, firstConsumer,
                 mutex, bookedEvents, tasks>>

(* Mutant of ReadyToBook: the forks may come later.                        *)
ReadyToBook_BeforeForks(t) ==
  \/ RegisteredAll(t) /\ booking[t].conflictingInputs = {}
  \/ Running(t, "fork")

(* Nothing conflicts, or every first spender has been forked.              *)
ReadyToBook(t) ==
  \/ RegisteredAll(t) /\ booking[t].conflictingInputs = {}
  \/ Running(t, "fork") /\ booking[t].consumersToFork = <<>>

(* The rest of bookTransaction: the outputs become available, the          *)
(* transaction is booked, its entry is released.                           *)
BookTransaction(t) ==
  LET inherited == IF booking[t].conflictingInputs = {} THEN booking[t].parentConflicts ELSE {t}
  IN  /\ ReadyToBook(t)
      /\ conflictIDs' = [conflictIDs EXCEPT ![t] = inherited]
      /\ outputConflictIDs' = [o \in OutputID |->
                                 IF o \in Outputs[t] THEN inherited ELSE outputConflictIDs[o]]
      /\ available' = available \union Outputs[t]
      /\ booked' = booked \union {t}
      /\ mutex' = [mutex EXCEPT ![t] = EmptyTransactionID]
      /\ booking' = [booking EXCEPT ![t] = NotRunning]
      /\ bookedEvents' = bookedEvents \union {t}
      /\ UNCHANGED <<conflictVars, stored, consumers, firstConsumer, tasks>>

(* The handler of TransactionBooked runs later and submits a task for each *)
(* consumer that is not booked.                                            *)
ProcessConsumingTransactions(t) ==
  /\ t \in bookedEvents
  /\ bookedEvents' = bookedEvents \ {t}
  /\ tasks' = tasks \union ((UNION {consumers[o] : o \in Outputs[t]}) \ booked)
  /\ UNCHANGED <<conflictVars, stored, consumers, metadataVars, firstConsumer, mutex, booking>>

(* processTransaction: a task that finds its transaction booked is done.   *)
ProcessTransaction(t) ==
  /\ t \in tasks
  /\ mutex[t] = EmptyTransactionID
  /\ tasks' = tasks \ {t}
  /\ IF t \in booked
     THEN UNCHANGED <<mutex, booking>>
     ELSE /\ mutex' = [mutex EXCEPT ![t] = t]
          /\ booking' = [booking EXCEPT ![t].at = "check"]
  /\ UNCHANGED <<conflictVars, stored, consumers, metadataVars, firstConsumer, bookedEvents>>

(* Mutant of AcceptConflict: conflicts of transactions that are not booked *)
(* are accepted as well.                                                   *)
AcceptConflict_NotBooked(t) ==
  /\ t \in Acceptable
  /\ confirmationState[t] = DAG!Pending
  /\ \A c \in DAG!Conflicting(t) : ~DAG!IsAccepted(c)
  /\ DAG!SetConflictAccepted(t)
  /\ UNCHANGED <<stored, consumers, metadataVars, firstConsumer, mutex, booking,
                 bookedEvents, tasks>>

(* Consensus accepts a booked, pending conflict none of whose competitors  *)
(* is accepted (RefreshConflictAcceptance of the block gadget).            *)
AcceptConflict(t) ==
  /\ t \in Acceptable \intersect booked
  /\ confirmationState[t] = DAG!Pending
  /\ \A c \in DAG!Conflicting(t) : ~DAG!IsAccepted(c)
  /\ DAG!SetConflictAccepted(t)
  /\ UNCHANGED <<stored, consumers, metadataVars, firstConsumer, mutex, booking,
                 bookedEvents, tasks>>
-----------------------------------------------------------------------------
Init ==
  /\ DAG!Init
  /\ stored = {} /\ booked = {} /\ bookedEvents = {} /\ tasks = {}
  /\ consumers = [o \in OutputID |-> {}]
  /\ conflictIDs = [t \in TransactionID |-> {}]
  /\ available = GenesisOutputs
  /\ outputConflictIDs = [o \in OutputID |-> {}]
  /\ firstConsumer = [o \in OutputID |-> EmptyTransactionID]
  /\ mutex = [t \in TransactionID |-> EmptyTransactionID]
  /\ booking = [t \in TransactionID |-> NotRunning]

(* The steps of the goroutine that processes a transaction.                *)
Process(t) ==
  \/ Unsolid(t) \/ InheritConflictIDs(t) \/ RegisterBookedConsumer(t)
  \/ CreateOwnConflict(t) \/ ForkTransaction(t) \/ JoinConflictSets(t)
  \/ UpdateForkedTransaction(t) \/ VisitOutput(t) \/ PropagateToConsumer(t)
  \/ FinishFork(t) \/ BookTransaction(t)

(* The steps of the event loop.                                            *)
EventLoop(t) == ProcessConsumingTransactions(t) \/ ProcessTransaction(t)

Next == \E t \in TransactionID :
          Store(t) \/ Process(t) \/ EventLoop(t) \/ AcceptConflict(t)

Spec == Init /\ [][Next]_vars

(* Goroutines are scheduled and submitted tasks run.  Nothing is promised  *)
(* about the arrival of transactions or about acceptance.                  *)
FairSpec == Spec /\ \A t \in TransactionID : WF_vars(Process(t)) /\ WF_vars(EventLoop(t))
-----------------------------------------------------------------------------
(* Type invariant.                                                         *)
Goroutine ==
  [at : {"idle", "check", "register", "fork", "update", "propagate"},
   registered : Nat, parentConflicts : SUBSET TransactionID,
   conflictingInputs : SUBSET OutputID, consumersToFork : Seq(TransactionID),
   previousParents : SUBSET TransactionID, walk : SUBSET OutputID,
   visiting : SUBSET TransactionID, seen : SUBSET TransactionID]

TypeOK ==
  /\ DAG!TypeOK
  /\ stored \subseteq TransactionID
  /\ consumers \in [OutputID -> SUBSET TransactionID]
  /\ booked \subseteq stored
  /\ conflictIDs \in [TransactionID -> SUBSET TransactionID]
  /\ available \subseteq OutputID
  /\ outputConflictIDs \in [OutputID -> SUBSET TransactionID]
  /\ firstConsumer \in [OutputID -> TransactionID \union {EmptyTransactionID}]
  /\ mutex \in [TransactionID -> TransactionID \union {EmptyTransactionID}]
  /\ booking \in [TransactionID -> Goroutine]
  /\ bookedEvents \subseteq booked
  /\ tasks \subseteq stored

(* No double spend goes unnoticed: as soon as two transactions that spend  *)
(* an output are booked, both are conflicts of that output, whatever was   *)
(* interleaved with the registration of the second and the fork of the     *)
(* first.                                                                  *)
SpendersConflict ==
  \A t, u \in booked : \A o \in InputIDs(t) \intersect InputIDs(u) :
     t # u => {t, u} \subseteq members[o]

PastCone ==
  [t \in TransactionID |-> DAG!Closure({t}, [u \in TransactionID |-> Predecessors(u)])]

(* The conflicts that the booking of a transaction depends on.             *)
Dependencies(t) == DAG!Closure(conflictIDs[t], parents)

NobodyRunning == \A t \in TransactionID : Running(t, "idle")

(* A transaction depends on every conflict of its past cone that is not    *)
(* Accepted and on nothing outside of its past cone, however the forks of  *)
(* the past cone raced with each other and with the booking of the         *)
(* transaction.  (Propagation takes time: it holds between the runs.)      *)
FutureConeInherits ==
  NobodyRunning => \A t \in booked :
    LET cone == PastCone[t]
        dependencies == Dependencies(t)
    IN  /\ {p \in cone : DAG!Exists(p) /\ ~DAG!IsAccepted(p)} \subseteq dependencies
        /\ dependencies \subseteq cone

(* Transactions that spend the same output are never both Accepted, also   *)
(* while the forks that tell the ConflictDAG about it are on their way.    *)
NoDoubleSpendAccepted ==
  \A t, u \in TransactionID :
    t # u /\ InputIDs(t) \intersect InputIDs(u) # {} => ~(DAG!IsAccepted(t) /\ DAG!IsAccepted(u))

(* The entries of the DAGMutex a goroutine cannot go on without, and the   *)
(* goroutines that hold them.                                              *)
Wanted(t) ==
  IF Running(t, "propagate") THEN booking[t].visiting
  ELSE IF Running(t, "fork") /\ booking[t].consumersToFork # <<>>
       THEN {Head(booking[t].consumersToFork)}
       ELSE {}

WaitsFor(t) == {mutex[x] : x \in Wanted(t)} \ {EmptyTransactionID}

(* The DAGMutex makes the ledger safe for concurrent use: no goroutine     *)
(* waits, directly or through others, for itself.                          *)
NoLockCycle ==
  LET waits == [t \in TransactionID |-> WaitsFor(t)]
  IN  \A t \in TransactionID : t \notin DAG!Closure(waits[t], waits)

(* A transaction whose predecessors are booked is booked in the end, and   *)
(* so every transaction whose past cone has arrived: between the solidity  *)
(* check of a transaction and the booking of its inputs no wake-up is      *)
(* lost, and nobody waits forever for a lock.  (What is stored or booked   *)
(* stays so, and one eventuality does for all.)                            *)
NobodyLeftBehind ==
  \A t \in stored : Predecessors(t) \subseteq booked => t \in booked

EventuallyBooked == []<>NobodyLeftBehind

(* The ledger uses the ConflictDAG as the module ConflictDAG assumes: the  *)
(* steps that leave it alone, named first since most do, and the others.   *)
ImplementsConflictDAG ==
  DAG!Init /\ [][UNCHANGED DAG!vars \/ DAG!Next]_(DAG!vars)
=============================================================================
