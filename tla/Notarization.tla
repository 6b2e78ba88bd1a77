---------------------------- MODULE Notarization ----------------------------
(***************************************************************************)
(* The commitment of epochs: the notarization Manager with its counters of *)
(* pending conflicts, the EpochMutations and the state diffs of the        *)
(* LedgerState, and the hooks of the engine that feed them.                *)
(*                                                                         *)
(* Three kinds of goroutines meet here.  The one that holds the lock of    *)
(* the ConflictDAG decides a conflict: it triggers ConflictAccepted and    *)
(* ConflictRejected while it holds the lock, and the hooks decrease the    *)
(* counters, which may commit an epoch on the spot.  ConflictCreated is    *)
(* triggered after the lock is released.  The acceptance time advances in  *)
(* a worker of its own and commits what has become old enough.  Accepted   *)
(* transactions reach the state diffs and the mutations in two steps, for  *)
(* a conflict in a task of the event loop.  All changes of the counters    *)
(* and all commitments hold the commitmentMutex.                           *)
(*                                                                         *)
(* Time is measured in epochs and sampled at their ends; MaxTime stands    *)
(* for every later time.  Blocks and attestations are left out, but for    *)
(* the failure of the attestations to be committed.                        *)
(***************************************************************************)
EXTENDS Integers, Sequences, FiniteSets, FiniteSetsExt, SequencesExt

CONSTANTS Transaction,
          Competitors,       \* the transactions that spend an output of it too
          AttachmentEpochs,  \* the epochs of the blocks that contain it
          InclusionEpoch,    \* the epoch of its first accepted block
          MinCommittableEpochAge,
          MaxTime,           \* bound on the acceptance time
          CounterSize,       \* the number of values of a uint64
          MaxFailures        \* bound on the failures of the storage

ASSUME NotarizationConstants ==
  /\ IsFiniteSet(Transaction)
  /\ Competitors \in [Transaction -> SUBSET Transaction]
  /\ \A s, t \in Transaction : s \in Competitors[t] => t \in Competitors[s] /\ s # t
  /\ AttachmentEpochs \in [Transaction -> SUBSET (1..MaxTime)]
  /\ \A t \in Transaction : InclusionEpoch[t] \in AttachmentEpochs[t]
  /\ {MinCommittableEpochAge, MaxTime, MaxFailures} \subseteq Nat
  /\ CounterSize \in Nat \ {0}

Epoch == 0..MaxTime

VARIABLES
  stored,          \* transactions in the ledger
  attachments,     \* the epochs of the attachments that are not evicted
  evictedUntil,    \* the last evicted epoch
  confirmation,    \* state of a conflict; "none" for what is not a conflict
  bornRejected,    \* conflicts that were rejected when they were created
  announcing,      \* conflicts whose ConflictCreated is not yet triggered
  deciding,        \* decided conflicts whose event is not yet triggered
  accepting,       \* progress of the acceptance of a transaction
  included,        \* transactions with an inclusion epoch
  stateDiffs, ledgerState, stateEpoch,
  acceptedTransactions, mutationsEpoch,
  pendingConflictsCounters, acceptanceTime, latestCommitment,
  commitments,     \* the transactions of a committed epoch
  committing,      \* the holder of the commitmentMutex
  failures,
  crashed          \* the attachment of a transaction was nil

conflicts == <<confirmation, bornRejected, announcing, deciding>>
attached == <<stored, attachments, evictedUntil>>
ledger == <<accepting, included, stateDiffs, acceptedTransactions>>
committed == <<ledgerState, stateEpoch, mutationsEpoch, latestCommitment, commitments, failures>>
vars == <<conflicts, attached, ledger, committed, pendingConflictsCounters, acceptanceTime,
          committing, crashed>>

Idle == [at |-> "idle", epoch |-> 0, until |-> 0, time |-> 0, transactions |-> {}, locks |-> FALSE]

MutexFree == committing.at = "idle"
ConflictDAGLocked == deciding # <<>> \/ committing.locks

Init ==
  /\ stored = {} /\ attachments = [t \in Transaction |-> {}] /\ evictedUntil = 0
  /\ confirmation = [t \in Transaction |-> "none"]
  /\ bornRejected = {} /\ announcing = {} /\ deciding = <<>>
  /\ accepting = [t \in Transaction |-> "no"] /\ included = {}
  /\ stateDiffs = {} /\ ledgerState = {} /\ stateEpoch = 0
  /\ acceptedTransactions = {} /\ mutationsEpoch = 0
  /\ pendingConflictsCounters = [i \in Epoch |-> 0]
  /\ acceptanceTime = 0 /\ latestCommitment = 0
  /\ commitments = [i \in Epoch |-> {}]
  /\ committing = Idle
  /\ failures = 0 /\ crashed = FALSE
-----------------------------------------------------------------------------
(* A block with the transaction is attached, of an epoch not evicted.      *)
Attach(t, e) ==
  /\ e \in AttachmentEpochs[t] \ attachments[t]
  /\ e > evictedUntil
  /\ stored' = stored \union {t}
  /\ attachments' = [attachments EXCEPT ![t] = @ \union {e}]
  /\ UNCHANGED <<conflicts, ledger, committed, evictedUntil, pendingConflictsCounters,
                 acceptanceTime, committing, crashed>>

(* EpochCommitted reaches the attachments asynchronously.                  *)
EvictAttachments ==
  /\ evictedUntil < latestCommitment
  /\ evictedUntil' = latestCommitment
  /\ attachments' = [t \in Transaction |-> {e \in attachments[t] : e > latestCommitment}]
  /\ UNCHANGED <<conflicts, ledger, committed, stored, pendingConflictsCounters,
                 acceptanceTime, committing, crashed>>

GetEarliestAttachment(t) == Min(attachments[t])

(* The epoch whose counter the events of a conflict find now.              *)
CountsFor(t, e) == attachments[t] # {} /\ GetEarliestAttachment(t) = e
-----------------------------------------------------------------------------
(* A double spend was booked: the transaction becomes a conflict, rejected *)
(* from the start when a competitor is accepted.                           *)
CreateConflict(t) ==
  LET late == \E c \in Competitors[t] : confirmation[c] = "Accepted"
  IN  /\ t \in stored /\ Competitors[t] \intersect stored # {}
      /\ confirmation[t] = "none"
      /\ ~ConflictDAGLocked
      /\ confirmation' = [confirmation EXCEPT ![t] = IF late THEN "Rejected" ELSE "Pending"]
      /\ bornRejected' = IF late THEN bornRejected \union {t} ELSE bornRejected
      /\ announcing' = announcing \union {t}
      /\ UNCHANGED <<deciding, attached, ledger, committed, pendingConflictsCounters,
                     acceptanceTime, committing, crashed>>

(* ConflictCreated: IncreaseConflictsCounter.                              *)
AnnounceConflict(t) ==
  LET index == GetEarliestAttachment(t)
  IN  /\ t \in announcing
      /\ MutexFree
      /\ announcing' = announcing \ {t}
      /\ crashed' = (attachments[t] = {})
      /\ pendingConflictsCounters' =
           IF attachments[t] = {} \/ index <= latestCommitment THEN pendingConflictsCounters
           ELSE [pendingConflictsCounters EXCEPT ![index] = (@ + 1) % CounterSize]
      /\ UNCHANGED <<confirmation, bornRejected, deciding, attached, ledger, committed,
                     acceptanceTime, committing>>

(* Mutant of AcceptConflict: no event for the rejected competitors.        *)
AcceptConflict_ForgetsRejected(t) ==
  /\ confirmation[t] = "Pending"
  /\ ~ConflictDAGLocked
  /\ confirmation' = [c \in Transaction |->
       IF c = t THEN "Accepted"
       ELSE IF c \in Competitors[t] /\ confirmation[c] = "Pending" THEN "Rejected"
       ELSE confirmation[c]]
  /\ deciding' = <<t>>
  /\ accepting' = IF accepting[t] = "no" THEN [accepting EXCEPT ![t] = "scheduled"] ELSE accepting
  /\ UNCHANGED <<bornRejected, announcing, attached, included, stateDiffs, acceptedTransactions,
                 committed, pendingConflictsCounters, acceptanceTime, committing, crashed>>

(* SetConflictAccepted: the events follow one by one, the lock is kept.    *)
AcceptConflict(t) ==
  LET rejected == {c \in Competitors[t] : confirmation[c] = "Pending"}
  IN  /\ confirmation[t] = "Pending"
      /\ ~ConflictDAGLocked
      /\ confirmation' = [c \in Transaction |->
           IF c = t THEN "Accepted" ELSE IF c \in rejected THEN "Rejected" ELSE confirmation[c]]
      /\ \E order \in SetToSeqs(rejected) : deciding' = <<t>> \o order
      /\ accepting' = IF accepting[t] = "no" THEN [accepting EXCEPT ![t] = "scheduled"] ELSE accepting
      /\ UNCHANGED <<bornRejected, announcing, attached, included, stateDiffs,
                     acceptedTransactions, committed, pendingConflictsCounters, acceptanceTime,
                     committing, crashed>>

Decreased(index) == (pendingConflictsCounters[index] - 1) % CounterSize

(* ConflictAccepted and ConflictRejected: DecreaseConflictsCounter.  The   *)
(* last pending conflict of an epoch starts the commitments.               *)
DecreaseConflictsCounter ==
  LET t == Head(deciding)
      index == GetEarliestAttachment(t)
  IN  /\ deciding # <<>>
      /\ MutexFree
      /\ deciding' = Tail(deciding)
      /\ crashed' = (attachments[t] = {})
      /\ IF attachments[t] = {} \/ index <= latestCommitment
         THEN UNCHANGED <<pendingConflictsCounters, committing>>
         ELSE /\ pendingConflictsCounters' = [pendingConflictsCounters EXCEPT ![index] = Decreased(index)]
              /\ committing' = IF Decreased(index) # 0 THEN Idle
                   ELSE [Idle EXCEPT !.at = "check", !.epoch = latestCommitment + 1, !.until = index,
                                     !.time = acceptanceTime, !.locks = TRUE]
      /\ UNCHANGED <<confirmation, bornRejected, announcing, attached, ledger, committed,
                     acceptanceTime>>
-----------------------------------------------------------------------------
(* SetTransactionInclusionEpoch: a block of the transaction is accepted.   *)
(* Blocks that are not accepted in time are orphaned (TSCManager).         *)
SetTransactionInclusionEpoch(t) ==
  /\ InclusionEpoch[t] \in attachments[t] /\ t \notin included
  /\ acceptanceTime < InclusionEpoch[t] + MinCommittableEpochAge
  /\ ~ConflictDAGLocked
  /\ included' = included \union {t}
  /\ accepting' = IF confirmation[t] \in {"none", "Accepted"} /\ accepting[t] \in {"no", "scheduled"}
                  THEN [accepting EXCEPT ![t] = "state"] ELSE accepting
  /\ UNCHANGED <<conflicts, attached, stateDiffs, acceptedTransactions, committed,
                 pendingConflictsCounters, acceptanceTime, committing, crashed>>

(* The task that ConflictAccepted submitted to the event loop.             *)
PropagateAcceptance(t) ==
  /\ accepting[t] = "scheduled"
  /\ accepting' = [accepting EXCEPT ![t] = IF t \in included THEN "state" ELSE "no"]
  /\ UNCHANGED <<conflicts, attached, included, stateDiffs, acceptedTransactions, committed,
                 pendingConflictsCounters, acceptanceTime, committing, crashed>>

(* TransactionAccepted, first hook: the state diff of the epoch.           *)
StoreStateDiff(t) ==
  /\ accepting[t] = "state"
  /\ stateDiffs' = stateDiffs \union {t}
  /\ accepting' = [accepting EXCEPT ![t] = "mutations"]
  /\ UNCHANGED <<conflicts, attached, included, acceptedTransactions, committed,
                 pendingConflictsCounters, acceptanceTime, committing, crashed>>

(* Mutant of AddAcceptedTransaction: a committed epoch is not refused.     *)
AddAcceptedTransaction_Unchecked(t) ==
  /\ accepting[t] = "mutations"
  /\ acceptedTransactions' = acceptedTransactions \union {t}
  /\ accepting' = [accepting EXCEPT ![t] = "done"]
  /\ UNCHANGED <<conflicts, attached, included, stateDiffs, committed, pendingConflictsCounters,
                 acceptanceTime, committing, crashed>>

(* TransactionAccepted, second hook: the mutations of the epoch, or an     *)
(* error when they are committed.                                          *)
AddAcceptedTransaction(t) ==
  /\ accepting[t] = "mutations"
  /\ IF InclusionEpoch[t] <= mutationsEpoch
     THEN accepting' = [accepting EXCEPT ![t] = "error"] /\ UNCHANGED acceptedTransactions
     ELSE /\ accepting' = [accepting EXCEPT ![t] = "done"]
          /\ acceptedTransactions' = acceptedTransactions \union {t}
  /\ UNCHANGED <<conflicts, attached, included, stateDiffs, committed, pendingConflictsCounters,
                 acceptanceTime, committing, crashed>>
-----------------------------------------------------------------------------
(* The acceptance time advances.                                           *)
SetAcceptanceTime ==
  LET time == IF acceptanceTime < MaxTime THEN acceptanceTime + 1 ELSE MaxTime
  IN  /\ MutexFree
      /\ acceptanceTime' = time
      /\ committing' = IF time <= latestCommitment THEN Idle
           ELSE [Idle EXCEPT !.at = "check", !.epoch = latestCommitment + 1, !.until = time,
                             !.time = time]
      /\ UNCHANGED <<conflicts, attached, ledger, committed, pendingConflictsCounters, crashed>>

(* Mutant of HasNoPendingConflicts: the epoch itself is not looked at.     *)
HasNoPendingConflicts_OnlyOlder(ei) ==
  \A index \in latestCommitment..(ei - 1) : pendingConflictsCounters[index] = 0

HasNoPendingConflicts(ei) ==
  \A index \in latestCommitment..ei : pendingConflictsCounters[index] = 0

IsCommittable(ei) ==
  /\ ei <= committing.until
  /\ committing.time - ei >= MinCommittableEpochAge
  /\ HasNoPendingConflicts(ei)

(* One iteration of tryCommitEpoch.                                        *)
TryCommitEpoch ==
  /\ committing.at = "check"
  /\ IF IsCommittable(committing.epoch)
     THEN /\ committing' = [committing EXCEPT !.at = "state"]
          /\ pendingConflictsCounters' = [pendingConflictsCounters EXCEPT ![committing.epoch] = 0]
     ELSE committing' = Idle /\ UNCHANGED pendingConflictsCounters
  /\ UNCHANGED <<conflicts, attached, ledger, committed, acceptanceTime, crashed>>

(* createCommitment, step by step.  A state diff is applied once.          *)
ApplyStateDiff ==
  /\ committing.at = "state"
  /\ ledgerState' = IF stateEpoch = committing.epoch THEN ledgerState
                    ELSE ledgerState \union {t \in stateDiffs : InclusionEpoch[t] = committing.epoch}
  /\ stateEpoch' = committing.epoch
  /\ committing' = [committing EXCEPT !.at = "mutations"]
  /\ UNCHANGED <<conflicts, attached, ledger, mutationsEpoch, latestCommitment, commitments,
                 failures, pendingConflictsCounters, acceptanceTime, crashed>>

EvictMutations ==
  LET mutations == {t \in acceptedTransactions : InclusionEpoch[t] = committing.epoch}
  IN  /\ committing.at = "mutations"
      /\ IF committing.epoch <= mutationsEpoch
         THEN committing' = Idle /\ UNCHANGED <<mutationsEpoch, acceptedTransactions>>
         ELSE /\ committing' = [committing EXCEPT !.at = "attestations", !.transactions = mutations]
              /\ mutationsEpoch' = committing.epoch
              /\ acceptedTransactions' = acceptedTransactions \ mutations
      /\ UNCHANGED <<conflicts, attached, accepting, included, stateDiffs, ledgerState, stateEpoch,
                     latestCommitment, commitments, failures, pendingConflictsCounters,
                     acceptanceTime, crashed>>

CommitAttestations ==
  /\ committing.at = "attestations"
  /\ \/ committing' = [committing EXCEPT !.at = "commitment"] /\ UNCHANGED failures
     \/ failures < MaxFailures /\ failures' = failures + 1 /\ committing' = Idle
  /\ UNCHANGED <<conflicts, attached, ledger, ledgerState, stateEpoch, mutationsEpoch,
                 latestCommitment, commitments, pendingConflictsCounters, acceptanceTime, crashed>>

SetLatestCommitment ==
  /\ committing.at = "commitment"
  /\ latestCommitment' = committing.epoch
  /\ commitments' = [commitments EXCEPT ![committing.epoch] = committing.transactions]
  /\ committing' = [committing EXCEPT !.at = "check", !.epoch = @ + 1, !.transactions = {}]
  /\ UNCHANGED <<conflicts, attached, ledger, ledgerState, stateEpoch, mutationsEpoch, failures,
                 pendingConflictsCounters, acceptanceTime, crashed>>

CreateCommitment ==
  TryCommitEpoch \/ ApplyStateDiff \/ EvictMutations \/ CommitAttestations \/ SetLatestCommitment
-----------------------------------------------------------------------------
(* What the engine does by itself once it is under way.                    *)
Proceed ==
  \/ CreateCommitment \/ DecreaseConflictsCounter \/ EvictAttachments
  \/ \E t \in Transaction : \/ AnnounceConflict(t) \/ PropagateAcceptance(t)
                            \/ StoreStateDiff(t) \/ AddAcceptedTransaction(t)

Next ==
  /\ ~crashed
  /\ \/ Proceed \/ SetAcceptanceTime
     \/ \E t \in Transaction :
          \/ \E e \in AttachmentEpochs[t] : Attach(t, e)
          \/ CreateConflict(t) \/ AcceptConflict(t) \/ SetTransactionInclusionEpoch(t)

Spec == Init /\ [][Next]_vars

-----------------------------------------------------------------------------
(* Type invariant.                                                         *)
TypeOK ==
  /\ stored \subseteq Transaction /\ included \subseteq Transaction
  /\ attachments \in [Transaction -> SUBSET (1..MaxTime)]
  /\ confirmation \in [Transaction -> {"none", "Pending", "Accepted", "Rejected"}]
  /\ bornRejected \subseteq Transaction /\ announcing \subseteq Transaction
  /\ deciding \in Seq(Transaction)
  /\ accepting \in [Transaction -> {"no", "scheduled", "state", "mutations", "done", "error"}]
  /\ stateDiffs \subseteq Transaction /\ ledgerState \subseteq Transaction
  /\ acceptedTransactions \subseteq Transaction
  /\ {stateEpoch, mutationsEpoch, latestCommitment, acceptanceTime, evictedUntil} \subseteq Epoch
  /\ pendingConflictsCounters \in [Epoch -> 0..(CounterSize - 1)]
  /\ commitments \in [Epoch -> SUBSET Transaction]
  /\ committing \in [at : {"idle", "check", "state", "mutations", "attestations", "commitment"},
                     epoch : Nat, until : Nat, time : Nat, transactions : SUBSET Transaction,
                     locks : BOOLEAN]
  /\ failures \in 0..MaxFailures
  /\ crashed \in BOOLEAN

(* A conflict whose counter is not back where it was: the announcement or  *)
(* the decision is still to be counted, or there will be no decision.      *)
Unsettled(t) ==
  \/ confirmation[t] = "Pending" \/ t \in announcing \union bornRejected
  \/ \E i \in 1..Len(deciding) : deciding[i] = t

(* The earliest attachment of such a conflict stays what it is: no block   *)
(* of an earlier epoch brings the transaction again, and the attachment is *)
(* not evicted while there are later ones.  The code does not see to it.   *)
EarliestStays ==
  \A t \in Transaction :
    Unsettled(t) /\ attachments'[t] # {} => CountsFor(t, Min(attachments'[t]))

SpecEarliestStays == Init /\ [][Next /\ EarliestStays]_vars

(* Goroutines and the event loop are scheduled, and the acceptance time    *)
(* advances; arrivals and decisions are not promised.  None of the fair    *)
(* actions changes an attachment.                                          *)
FairSpec ==
  /\ SpecEarliestStays
  /\ WF_vars(~crashed /\ (CreateCommitment \/ DecreaseConflictsCounter))
  /\ SF_vars(~crashed /\ SetAcceptanceTime)
  /\ \A t \in Transaction : SF_vars(~crashed /\ AnnounceConflict(t))

(* An epoch is not committed while a conflict that counts for it is        *)
(* pending.  The one exception: the ConflictCreated event of another       *)
(* conflict of the epoch, already decided, is still on its way.            *)
NoPendingConflictCommitted ==
  [][\A t \in Transaction :
       /\ latestCommitment' # latestCommitment
       /\ confirmation[t] = "Pending" /\ t \notin announcing
       /\ CountsFor(t, latestCommitment')
       => \E s \in announcing : CountsFor(s, latestCommitment') /\ confirmation[s] # "Pending"]_vars

(* The commitment of an epoch holds every transaction that was added to    *)
(* its mutations: a transaction that comes too late is refused, and none   *)
(* is lost between the refusal and the eviction.                           *)
AddedTransactionsCommitted ==
  \A t \in Transaction :
    accepting[t] = "done" /\ InclusionEpoch[t] <= latestCommitment => t \in commitments[InclusionEpoch[t]]

(* The ledger state has the state diffs of the committed epochs.           *)
StateDiffsApplied ==
  \A t \in stateDiffs : InclusionEpoch[t] <= latestCommitment => t \in ledgerState

Due(i) ==
  /\ acceptanceTime >= i + MinCommittableEpochAge
  /\ ~crashed /\ deciding = <<>>
  /\ \A t \in Transaction : confirmation[t] # "Pending"

(* Epochs are committed as the acceptance time advances, unless a conflict *)
(* was rejected when it was created or a commitment failed halfway.        *)
EventuallyCommittedUnlessDisturbed ==
  \A i \in Epoch :
    <>[](Due(i) /\ bornRejected = {} /\ failures = 0) => <>(latestCommitment >= i)
=============================================================================
