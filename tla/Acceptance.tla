------------------------------ MODULE Acceptance ------------------------------
(***************************************************************************)
(* How the ledger turns decisions into accepted and rejected transactions  *)
(* (packages/protocol/ledger/ledger.go).  A transaction is accepted when   *)
(* the conflicts it depends on are and a block with it was accepted (it is *)
(* included in an epoch).  The two facts arrive in either order: block     *)
(* acceptance calls SetTransactionInclusionEpoch, and the ConflictDAG      *)
(* submits a task for every ConflictAccepted and ConflictRejected event.   *)
(* Whoever finds both facts triggers TransactionAccepted, whose hooks      *)
(* store the state diff and the mutation of the epoch.  The state diff of   *)
(* an epoch has a store for the outputs that are spent, which follows the  *)
(* inclusion epoch of the transaction, and one for those that are created, *)
(* which follows that of the outputs.                                      *)
(*                                                                         *)
(* All transactions are booked and the conflicts are known (see Ledger for *)
(* how they come about); no epoch is committed meanwhile (see              *)
(* Notarization).  A goroutine is named by what it does: <<"include", t,   *)
(* i>> for a block of epoch i, <<"accept", t, 0>> and <<"reject", t, 0>>   *)
(* for the tasks of the events.                                            *)
(***************************************************************************)
EXTENDS Naturals, FiniteSets

CONSTANTS Transaction,
          Output,
          Spends,            \* the outputs a transaction spends
          Creates,           \* the outputs a transaction creates
          InclusionEpochs    \* the epochs of the blocks with a transaction

ASSUME AcceptanceConstants ==
  /\ Spends \in [Transaction -> SUBSET Output]
  /\ Creates \in [Transaction -> SUBSET Output]
  /\ InclusionEpochs \in [Transaction -> SUBSET (Nat \ {0})]

Consumers(t) == {c \in Transaction : Spends[c] \intersect Creates[t] # {}}

VARIABLES
  confirmationState,  \* of the conflicts
  parents, conflictSetIDs, members, children,  \* the rest of the ConflictDAG
  transactionState,   \* ConfirmationState of a transaction's metadata
  outputState,        \* ConfirmationState of the metadata of its outputs
  inclusionEpoch,     \* InclusionEpoch of a transaction's metadata, 0: none
  outputEpoch,        \* InclusionEpoch of the metadata of its outputs
  spentOutputs,       \* the epochs with its inputs in their state diffs
  createdOutputs,     \* the epochs with its outputs in their state diffs
  mutations,          \* the epochs a transaction is in the mutations of
  acceptedEvents,     \* how often TransactionAccepted was triggered
  running             \* the local state of each goroutine

metadata == <<inclusionEpoch, outputEpoch>>
states == <<transactionState, outputState, acceptedEvents>>
diffs == <<spentOutputs, createdOutputs>>
stores == <<diffs, mutations>>
vars == <<confirmationState, parents, conflictSetIDs, members, children,
          metadata, states, stores, running>>
conflictDAG == <<confirmationState, parents, conflictSetIDs, members, children>>

DAG == INSTANCE ConflictDAG WITH ConflictID <- Transaction, ResourceID <- Output

Goroutine ==
  ({"accept", "reject"} \X Transaction \X {0})
    \union (UNION {{"include"} \X {t} \X InclusionEpochs[t] : t \in Transaction})

(* Of a block: the epoch that is replaced.  Of all: the epoch read last.   *)
NotRunning ==
  [at |-> "idle", tx |-> 0, epoch |-> 0, read |-> 0, walk |-> {}, seen |-> {}]

(* The block replaces a later epoch of the transaction.                    *)
Moves(g) == g[1] = "include" /\ running[g].epoch # 0

(* What the ledger knows when all transactions are booked: the conflict    *)
(* sets, and the conflicts a transaction inherits, those of its past cone  *)
(* that are not hidden behind another one.                                 *)
ConflictSetIDs ==
  [t \in Transaction |-> {o \in Spends[t] : \E u \in Transaction \ {t} : o \in Spends[u]}]

Conflict == {t \in Transaction : ConflictSetIDs[t] # {}}

Inherited ==
  LET producers == [t \in Transaction |-> {p \in Transaction : t \in Consumers(p)}]
  IN  [t \in Transaction |-> Conflict \intersect DAG!Closure(producers[t],
         [u \in Transaction |-> IF u \in Conflict THEN {} ELSE producers[u]])]

(* The ConflictIDs of a transaction's metadata.                            *)
ConflictIDs == [t \in Transaction |-> IF t \in Conflict THEN {t} ELSE Inherited[t]]

(* ConfirmationState of a set of conflicts: Accepted when all of them are. *)
ConflictsAccepted(t) == \A c \in ConflictIDs[t] : DAG!IsAccepted(c)

At(g, step) == running[g].at = step

Go(g, step) == running' = [running EXCEPT ![g].at = step]

(* The epoch is read in one step, and what is stored for it in another.    *)
Read(g, epoch, step) == running' = [running EXCEPT ![g].at = step, ![g].read = epoch]

Store(store, g) == [store EXCEPT ![running[g].tx] = @ \union {running[g].read}]

Init ==
  /\ confirmationState = [t \in Transaction |-> IF t \in Conflict THEN DAG!Pending ELSE DAG!Undefined]
  /\ conflictSetIDs = ConflictSetIDs
  /\ members = [o \in Output |-> {t \in Transaction : o \in ConflictSetIDs[t]}]
  /\ parents = [t \in Transaction |-> IF t \in Conflict THEN Inherited[t] ELSE {}]
  /\ children = [p \in Transaction |-> {t \in Conflict : p \in Inherited[t]}]
  /\ transactionState = [t \in Transaction |-> "Pending"]
  /\ outputState = [t \in Transaction |-> "Pending"]
  /\ inclusionEpoch = [t \in Transaction |-> 0]
  /\ outputEpoch = [t \in Transaction |-> 0]
  /\ spentOutputs = [t \in Transaction |-> {}]
  /\ createdOutputs = [t \in Transaction |-> {}]
  /\ mutations = [t \in Transaction |-> {}]
  /\ acceptedEvents = [t \in Transaction |-> 0]
  /\ running = [g \in Goroutine |-> NotRunning]
-----------------------------------------------------------------------------
(* Consensus accepts a pending conflict none of whose competitors is       *)
(* accepted; every conflict that is decided has its task submitted.        *)
SetConflictAccepted(t) ==
  LET submit(g) == [NotRunning EXCEPT !.at = g[1], !.tx = g[2]]
  IN  /\ confirmationState[t] = DAG!Pending
      /\ \A c \in DAG!Conflicting(t) : ~DAG!IsAccepted(c)
      /\ DAG!SetConflictAccepted(t)
      /\ running' = [g \in Goroutine |->
           IF \/ g[1] = "accept" /\ g[2] \in DAG!NewlyAccepted(t)
              \/ g[1] = "reject" /\ g[2] \in DAG!NewlyRejected(t)
           THEN submit(g) ELSE running[g]]
      /\ UNCHANGED <<metadata, states, stores>>

(* A block with the transaction is accepted: the inclusion epoch is set if *)
(* it is the first or an earlier one.                                      *)
SetInclusionEpoch(g, t, i) ==
  /\ g = <<"include", t, i>> /\ At(g, "idle")
  /\ \/ /\ inclusionEpoch[t] = 0 \/ i < inclusionEpoch[t]
        /\ inclusionEpoch' = [inclusionEpoch EXCEPT ![t] = i]
        /\ running' = [running EXCEPT ![g] =
             [NotRunning EXCEPT !.at = "outputs", !.tx = t, !.epoch = inclusionEpoch[t]]]
     \/ /\ inclusionEpoch[t] # 0 /\ i >= inclusionEpoch[t]
        /\ Go(g, "done")
        /\ UNCHANGED inclusionEpoch
  /\ UNCHANGED <<conflictDAG, outputEpoch, states, stores>>

(* The metadata of the outputs, here taken together, follows; they take any *)
(* epoch.                                                                  *)
SetOutputsInclusionEpoch(g, t, i) ==
  /\ g = <<"include", t, i>> /\ At(g, "outputs")
  /\ outputEpoch' = [outputEpoch EXCEPT ![t] = i]
  /\ Go(g, IF running[g].epoch = 0 THEN "decide" ELSE "move")
  /\ UNCHANGED <<conflictDAG, inclusionEpoch, states, stores>>

(* TransactionInclusionUpdated: the LedgerState takes a transaction whose  *)
(* conflicts are accepted out of the state diff of the later epoch and     *)
(* stores it again ...                                                     *)
MoveTransactionToOtherEpoch(g, t, i) ==
  /\ g = <<"include", t, i>> /\ At(g, "move")
  /\ \/ /\ ConflictsAccepted(t)
        /\ spentOutputs' = [spentOutputs EXCEPT ![t] = @ \ {running[g].epoch}]
        /\ createdOutputs' = [createdOutputs EXCEPT ![t] = @ \ {running[g].epoch}]
        /\ Go(g, "readSpent")
     \/ /\ ~ConflictsAccepted(t)
        /\ Go(g, "update")
        /\ UNCHANGED diffs
  /\ UNCHANGED <<conflictDAG, metadata, states, mutations>>

(* Mutant of UpdateTransactionInclusion: the epochs are swapped.           *)
UpdateTransactionInclusion_Swapped(g, t, i) ==
  /\ g = <<"include", t, i>> /\ At(g, "update")
  /\ mutations' = [mutations EXCEPT ![t] = (@ \ {i}) \union {running[g].epoch}]
  /\ Go(g, "done")
  /\ UNCHANGED <<conflictDAG, metadata, states, diffs>>

(* ... and the EpochMutations move the transaction in any case.            *)
UpdateTransactionInclusion(g, t, i) ==
  /\ g = <<"include", t, i>> /\ At(g, "update")
  /\ mutations' = [mutations EXCEPT ![t] = (@ \ {running[g].epoch}) \union {i}]
  /\ Go(g, "done")
  /\ UNCHANGED <<conflictDAG, metadata, states, diffs>>

(* Mutant of AcceptIfConflictsAccepted: left to the ConflictAccepted event. *)
AcceptIfConflictsAccepted_LeftToEvent(g, t, i) ==
  /\ g = <<"include", t, i>> /\ At(g, "decide")
  /\ Go(g, "done")
  /\ UNCHANGED <<conflictDAG, metadata, states, stores>>

(* Mutant of AcceptIfConflictsAccepted: the conflicts are not looked at.   *)
AcceptIfConflictsAccepted_Unchecked(g, t, i) ==
  /\ g = <<"include", t, i>> /\ At(g, "decide")
  /\ Go(g, "accept")
  /\ UNCHANGED <<conflictDAG, metadata, states, stores>>

(* A transaction that is included for the first time is accepted if its    *)
(* conflicts are.                                                          *)
AcceptIfConflictsAccepted(g, t, i) ==
  /\ g = <<"include", t, i>> /\ At(g, "decide")
  /\ Go(g, IF ConflictsAccepted(t) THEN "accept" ELSE "done")
  /\ UNCHANGED <<conflictDAG, metadata, states, stores>>
-----------------------------------------------------------------------------
(* What the goroutine does when triggerAcceptedEvent has returned.         *)
Continue(g) == IF g[1] = "include" THEN "done" ELSE "walk"

(* Mutant of TriggerAcceptedEvent: no look at the state before.            *)
TriggerAcceptedEvent_Again(g) ==
  LET t == running[g].tx
  IN  /\ At(g, "accept")
      /\ IF inclusionEpoch[t] = 0
         THEN Go(g, Continue(g)) /\ UNCHANGED <<transactionState, acceptedEvents>>
         ELSE /\ transactionState' = [transactionState EXCEPT ![t] = "Accepted"]
              /\ acceptedEvents' = [acceptedEvents EXCEPT ![t] = @ + 1]
              /\ Go(g, "acceptOutputs")
      /\ UNCHANGED <<conflictDAG, metadata, outputState, stores>>

(* triggerAcceptedEvent: nothing happens unless the transaction is         *)
(* included, and to one that is Accepted already.                          *)
TriggerAcceptedEvent(g) ==
  LET t == running[g].tx
  IN  /\ At(g, "accept")
      /\ IF inclusionEpoch[t] = 0 \/ transactionState[t] = "Accepted"
         THEN Go(g, Continue(g)) /\ UNCHANGED <<transactionState, acceptedEvents>>
         ELSE /\ transactionState' = [transactionState EXCEPT ![t] = "Accepted"]
              /\ acceptedEvents' = [acceptedEvents EXCEPT ![t] = @ + 1]
              /\ Go(g, "acceptOutputs")
      /\ UNCHANGED <<conflictDAG, metadata, outputState, stores>>

AcceptOutputs(g) ==
  /\ At(g, "acceptOutputs")
  /\ outputState' = [outputState EXCEPT ![running[g].tx] = "Accepted"]
  /\ Go(g, "readSpent")
  /\ UNCHANGED <<conflictDAG, metadata, transactionState, acceptedEvents, stores>>

(* In the state diffs, what is spent goes to the inclusion epoch of the    *)
(* transaction ...                                                         *)
ReadSpentEpoch(g) ==
  /\ At(g, "readSpent")
  /\ Read(g, inclusionEpoch[running[g].tx], "storeSpent")
  /\ UNCHANGED <<conflictDAG, metadata, states, stores>>

StoreSpentOutputs(g) ==
  /\ At(g, "storeSpent")
  /\ spentOutputs' = Store(spentOutputs, g)
  /\ Go(g, "readCreated")
  /\ UNCHANGED <<conflictDAG, metadata, states, createdOutputs, mutations>>

(* ... and what is created to that of the outputs.                         *)
ReadCreatedEpoch(g) ==
  /\ At(g, "readCreated")
  /\ Read(g, outputEpoch[running[g].tx], "storeCreated")
  /\ UNCHANGED <<conflictDAG, metadata, states, stores>>

StoreCreatedOutputs(g) ==
  /\ At(g, "storeCreated")
  /\ createdOutputs' = Store(createdOutputs, g)
  /\ Go(g, IF Moves(g) THEN "update" ELSE "read")
  /\ UNCHANGED <<conflictDAG, metadata, states, spentOutputs, mutations>>

(* storeTransaction, for TransactionAccepted and for a move.               *)
StoreTransaction(g) ==
  ReadSpentEpoch(g) \/ StoreSpentOutputs(g) \/ ReadCreatedEpoch(g) \/ StoreCreatedOutputs(g)

(* The EpochMutations read the epoch before they change its set.           *)
ReadInclusionEpoch(g) ==
  /\ At(g, "read")
  /\ Read(g, inclusionEpoch[running[g].tx], "add")
  /\ UNCHANGED <<conflictDAG, metadata, states, stores>>

AddAcceptedTransaction(g) ==
  LET new == Consumers(running[g].tx) \ running[g].seen
  IN  /\ At(g, "add")
      /\ mutations' = Store(mutations, g)
      /\ running' = [running EXCEPT ![g].at = Continue(g), ![g].walk = @ \union new,
                                    ![g].seen = @ \union new]
      /\ UNCHANGED <<conflictDAG, metadata, states, diffs>>

(* propagateAcceptanceToIncludedTransactions passes over the consumers     *)
(* whose conflicts are accepted, and goes on with the others.              *)
PropagateAcceptance(g) ==
  /\ At(g, "walk") /\ g[1] = "accept"
  /\ \/ running[g].walk = {} /\ Go(g, "done")
     \/ \E c \in running[g].walk :
          running' = [running EXCEPT ![g].walk = @ \ {c}, ![g].tx = c,
                        ![g].at = IF ConflictsAccepted(c) THEN "walk" ELSE "accept"]
  /\ UNCHANGED <<conflictDAG, metadata, states, stores>>
-----------------------------------------------------------------------------
(* triggerRejectedEvent.                                                   *)
TriggerRejectedEvent(g) ==
  LET t == running[g].tx
  IN  /\ At(g, "reject")
      /\ \/ /\ transactionState[t] = "Rejected"
            /\ Go(g, "walk") /\ UNCHANGED transactionState
         \/ /\ transactionState[t] # "Rejected"
            /\ transactionState' = [transactionState EXCEPT ![t] = "Rejected"]
            /\ Go(g, "rejectOutputs")
      /\ UNCHANGED <<conflictDAG, metadata, outputState, acceptedEvents, stores>>

(* Mutant of RejectOutputs: the walk ends after one generation.            *)
RejectOutputs_NoWalk(g) ==
  /\ At(g, "rejectOutputs")
  /\ outputState' = [outputState EXCEPT ![running[g].tx] = "Rejected"]
  /\ Go(g, "walk")
  /\ UNCHANGED <<conflictDAG, metadata, transactionState, acceptedEvents, stores>>

RejectOutputs(g) ==
  LET t == running[g].tx
      new == Consumers(t) \ running[g].seen
  IN  /\ At(g, "rejectOutputs")
      /\ outputState' = [outputState EXCEPT ![t] = "Rejected"]
      /\ running' = [running EXCEPT ![g].at = "walk", ![g].walk = @ \union new,
                                    ![g].seen = @ \union new]
      /\ UNCHANGED <<conflictDAG, metadata, transactionState, acceptedEvents, stores>>

(* propagatedRejectionToTransactions: every consumer is rejected.          *)
PropagateRejection(g) ==
  /\ At(g, "walk") /\ g[1] = "reject"
  /\ \/ running[g].walk = {} /\ Go(g, "done")
     \/ \E c \in running[g].walk :
          running' = [running EXCEPT ![g].walk = @ \ {c}, ![g].tx = c, ![g].at = "reject"]
  /\ UNCHANGED <<conflictDAG, metadata, states, stores>>
-----------------------------------------------------------------------------
(* The steps of SetTransactionInclusionEpoch.                              *)
SetTransactionInclusionEpoch(g) ==
  \E t \in Transaction : \E i \in InclusionEpochs[t] :
     \/ SetInclusionEpoch(g, t, i) \/ SetOutputsInclusionEpoch(g, t, i)
     \/ MoveTransactionToOtherEpoch(g, t, i) \/ UpdateTransactionInclusion(g, t, i)
     \/ AcceptIfConflictsAccepted(g, t, i)

Proceed(g) ==
  \/ TriggerAcceptedEvent(g) \/ AcceptOutputs(g) \/ StoreTransaction(g)
  \/ ReadInclusionEpoch(g) \/ AddAcceptedTransaction(g) \/ PropagateAcceptance(g)
  \/ TriggerRejectedEvent(g) \/ RejectOutputs(g) \/ PropagateRejection(g)

Next ==
  \/ \E t \in Transaction : SetConflictAccepted(t)
  \/ \E g \in Goroutine : SetTransactionInclusionEpoch(g) \/ Proceed(g)

Spec == Init /\ [][Next]_vars
-----------------------------------------------------------------------------
(* A goroutine that has begun is busy with a transaction.                  *)
LocalState ==
  {r \in [at : {"idle", "outputs", "move", "update", "decide", "accept", "acceptOutputs",
                "readSpent", "storeSpent", "readCreated", "storeCreated", "read", "add",
                "reject", "rejectOutputs", "walk", "done"},
          tx : Transaction \union {0}, epoch : Nat, read : Nat,
          walk : SUBSET Transaction, seen : SUBSET Transaction] :
     /\ r.at \notin {"idle", "done"} => r.tx \in Transaction
     /\ r.walk \subseteq r.seen}

(* Type invariant: epochs that are stored are those of blocks, or none for *)
(* outputs whose metadata has none yet.                                    *)
TypeOK ==
  /\ DAG!TypeOK
  /\ transactionState \in [Transaction -> {"Pending", "Accepted", "Rejected"}]
  /\ outputState \in [Transaction -> {"Pending", "Accepted", "Rejected"}]
  /\ inclusionEpoch \in [Transaction -> Nat] /\ outputEpoch \in [Transaction -> Nat]
  /\ spentOutputs \in [Transaction -> SUBSET Nat] /\ createdOutputs \in [Transaction -> SUBSET Nat]
  /\ mutations \in [Transaction -> SUBSET Nat]
  /\ \A t \in Transaction :
       /\ {inclusionEpoch[t], outputEpoch[t]} \subseteq InclusionEpochs[t] \union {0}
       /\ spentOutputs[t] \union mutations[t] \subseteq InclusionEpochs[t]
       /\ createdOutputs[t] \subseteq InclusionEpochs[t] \union {0}
  /\ acceptedEvents \in [Transaction -> Nat]
  /\ running \in [Goroutine -> LocalState]

Quiet == \A g \in Goroutine : running[g].at \in {"idle", "done"}

(* TransactionAccepted is triggered for accepted transactions: the         *)
(* conflicts a transaction depends on are accepted before it is.           *)
OnlyAcceptedTransactions ==
  \A t \in Transaction : transactionState[t] = "Accepted" => ConflictsAccepted(t)

(* The two facts meet, whichever comes first and however they race: a      *)
(* conflict that is included and accepted is an accepted transaction, and  *)
(* so is a transaction without conflicts that is included.                 *)
IncludedConflictsAccepted ==
  Quiet => \A t \in Transaction :
    inclusionEpoch[t] # 0 /\ ConflictsAccepted(t) /\ ConflictIDs[t] \subseteq {t} =>
      transactionState[t] = "Accepted"

(* TransactionAccepted is triggered once, although the inclusion and the   *)
(* acceptance of a conflict may both find it accepted; what listens to it  *)
(* (balances, mana, the state diff) counts on that.                        *)
AcceptedOnce == \A t \in Transaction : acceptedEvents[t] <= 1

(* A rejection reaches the whole future cone: whatever depends on a        *)
(* rejected conflict is a rejected transaction in the end, whether it was  *)
(* included before or after.                                               *)
RejectionReachesFutureCone ==
  Quiet => \A t \in Transaction :
    (\E c \in ConflictIDs[t] : DAG!IsRejected(c)) =>
      transactionState[t] = "Rejected" /\ outputState[t] = "Rejected"

(* An accepted transaction is in the mutations of its inclusion epoch, and *)
(* its inputs are in the state diff of that epoch as spent, also when that *)
(* epoch changes while it is accepted.  Its outputs are there as created,  *)
(* if the metadata of the outputs ends with the same epoch and had one     *)
(* when the outputs were stored.                                           *)
AcceptedIsStored ==
  Quiet => \A t \in Transaction :
    transactionState[t] = "Accepted" =>
      /\ inclusionEpoch[t] \in spentOutputs[t] \intersect mutations[t]
      /\ outputEpoch[t] = inclusionEpoch[t] /\ 0 \notin createdOutputs[t] =>
           inclusionEpoch[t] \in createdOutputs[t]

(* The ConflictDAG has announced that the conflict is accepted.            *)
Announced(c) == running[<<"accept", c, 0>>].at # "idle"

FutureCone(c) == DAG!Closure({c}, [t \in Transaction |-> Consumers(t)])

(* An acceptance may be triggered too early (see OnlyAcceptedTransactions), *)
(* but only in the future cone of a conflict whose acceptance is announced: *)
(* what has undecided conflicts and nothing accepted in its past waits,    *)
(* however early it is included and whatever else is decided meanwhile.    *)
AcceptedByThePast ==
  \A t \in Transaction : transactionState[t] = "Accepted" =>
    ConflictsAccepted(t) \/ \E c \in Transaction : Announced(c) /\ t \in FutureCone(c)
=============================================================================
