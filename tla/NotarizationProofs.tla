-------------------------- MODULE NotarizationProofs --------------------------
(* Proofs about the Notarization, for every set of transactions, every     *)
(* distribution of them over epochs, and any number of failures.           *)
EXTENDS Notarization, FiniteSetTheorems, WellFoundedInduction, TLAPS

(* A set of epochs has a first one: GetEarliestAttachment returns an epoch *)
(* of an attachment whenever there is one.                                 *)
LEMMA EarliestIsAttached ==
  ASSUME NEW S \in SUBSET Nat, S # {}
  PROVE  Min(S) \in S
  <1>1. PICK x \in S : \A y \in S : ~(<<y, x>> \in OpToRel(<, Nat))
    BY WFMin, NatLessThanWellFounded
  <1>2. \A y \in S : x <= y
    <2> SUFFICES ASSUME NEW y \in S, y < x PROVE FALSE
      BY DEF Min
    <2>1. <<y, x>> \in OpToRel(<, Nat)
      BY DEF OpToRel
    <2> QED
      BY <1>1, <2>1
  <1> QED
    BY <1>2 DEF Min

(* The events of the rejected competitors are a finite sequence.           *)
LEMMA EventsAreSequences ==
  ASSUME NEW S \in SUBSET Transaction, NEW order \in SetToSeqs(S)
  PROVE  order \in Seq(Transaction)
  <1>1. Cardinality(S) \in Nat
    BY NotarizationConstants, FS_Subset, FS_CardinalityType
  <1>2. order \in [1..Cardinality(S) -> Transaction]
    BY DEF SetToSeqs
  <1> QED
    BY <1>1, <1>2

------------------------------------------------------------------------------
(* How far a commitment has come, seen from outside: whoever commits works *)
(* on the successor of the latest commitment, an epoch that is in the      *)
(* past, and the mutations are of that epoch or of its predecessor.  A     *)
(* commitment that failed leaves them one epoch ahead.                     *)
CommitInv ==
  /\ committing.time \in Epoch
  /\ committing.at # "idle" => committing.epoch = latestCommitment + 1
  /\ committing.at \notin {"idle", "check"} => committing.epoch \in Epoch
  /\ mutationsEpoch \in {latestCommitment, latestCommitment + 1}
  /\ committing.at \in {"attestations", "commitment"} => mutationsEpoch = committing.epoch

(* The states of the committing goroutine, as the type invariant has them. *)
Holders ==
  [at : {"idle", "check", "state", "mutations", "attestations", "commitment"},
   epoch : Nat, until : Nat, time : Nat, transactions : SUBSET Transaction, locks : BOOLEAN]

(* The epochs of attachments and of their blocks.                          *)
LEMMA AttachedEpochs ==
  ASSUME TypeOK, NEW t \in Transaction
  PROVE  /\ attachments[t] # {} => GetEarliestAttachment(t) \in 1..MaxTime
         /\ InclusionEpoch[t] \in 1..MaxTime
  <1>1. attachments[t] \in SUBSET Nat /\ attachments[t] \subseteq 1..MaxTime
    BY NotarizationConstants DEF TypeOK
  <1>2. attachments[t] # {} => Min(attachments[t]) \in attachments[t]
    BY <1>1, EarliestIsAttached
  <1> QED
    BY <1>1, <1>2, NotarizationConstants DEF GetEarliestAttachment

(* The counters stay in the range of a uint64 when they are increased and  *)
(* decreased, even below 0.                                                *)
LEMMA CountersWrap ==
  ASSUME NEW n \in 0..(CounterSize - 1)
  PROVE  /\ (n + 1) % CounterSize \in 0..(CounterSize - 1)
         /\ (n - 1) % CounterSize \in 0..(CounterSize - 1)
  <1>1. n + 1 \in Int /\ n - 1 \in Int /\ CounterSize \in Nat /\ CounterSize > 0
    BY NotarizationConstants
  <1> QED
    BY <1>1

(* Every step preserves the types: one step of the proof per action.       *)
LEMMA TypeStep == TypeOK /\ CommitInv /\ [Next]_vars => TypeOK'
  <1> SUFFICES ASSUME TypeOK, CommitInv, [Next]_vars
               PROVE  TypeOK'
    OBVIOUS
  <1>0. MaxTime \in Nat /\ 0 \in 0..(CounterSize - 1)
    BY NotarizationConstants
  <1>idle. Idle \in Holders
    BY DEF Idle, Holders
  <1>busy. committing \in Holders
    BY DEF TypeOK, Holders
  <1> USE DEF Holders
  <1>1. ASSUME NEW t \in Transaction, NEW e \in AttachmentEpochs[t], Attach(t, e)
        PROVE  TypeOK'
    <2>1. AttachmentEpochs[t] \subseteq 1..MaxTime
      BY NotarizationConstants
    <2>2. attachments' \in [Transaction -> SUBSET (1..MaxTime)]
      BY <1>1, <2>1 DEF Attach, TypeOK
    <2> QED
      BY <1>1, <2>2 DEF Attach, TypeOK, conflicts, ledger, committed
  <1>2. ASSUME EvictAttachments
        PROVE  TypeOK'
    <2>1. attachments' \in [Transaction -> SUBSET (1..MaxTime)]
      BY <1>2 DEF EvictAttachments, TypeOK
    <2>2. evictedUntil' \in Epoch
      BY <1>2 DEF EvictAttachments, TypeOK
    <2> QED
      BY <1>2, <2>1, <2>2 DEF EvictAttachments, TypeOK, conflicts, ledger, committed
  <1>3. ASSUME NEW t \in Transaction, CreateConflict(t)
        PROVE  TypeOK'
    BY <1>3 DEF CreateConflict, TypeOK, attached, ledger, committed
  <1>4. ASSUME NEW t \in Transaction, AnnounceConflict(t)
        PROVE  TypeOK'
    <2>1. pendingConflictsCounters' \in [Epoch -> 0..(CounterSize - 1)]
      BY <1>4, CountersWrap DEF AnnounceConflict, TypeOK
    <2>2. announcing' \subseteq Transaction /\ crashed' \in BOOLEAN
      BY <1>4 DEF AnnounceConflict, TypeOK
    <2> QED
      BY <1>4, <2>1, <2>2 DEF AnnounceConflict, TypeOK, attached, ledger, committed
  <1>5. ASSUME NEW t \in Transaction, AcceptConflict(t)
        PROVE  TypeOK'
    <2> DEFINE rejected == {c \in Competitors[t] : confirmation[c] = "Pending"}
    <2>1. rejected \in SUBSET Transaction
      BY NotarizationConstants
    <2>2. PICK order \in SetToSeqs(rejected) : deciding' = <<t>> \o order
      BY <1>5 DEF AcceptConflict
    <2>3. order \in Seq(Transaction)
      BY <2>1, <2>2, EventsAreSequences
    <2>4. deciding' \in Seq(Transaction)
      BY <2>2, <2>3
    <2>5. confirmation' \in [Transaction -> {"none", "Pending", "Accepted", "Rejected"}]
      BY <1>5 DEF AcceptConflict, TypeOK
    <2>6. accepting' \in [Transaction -> {"no", "scheduled", "state", "mutations", "done", "error"}]
      BY <1>5 DEF AcceptConflict, TypeOK
    <2>7. UNCHANGED <<bornRejected, announcing, attached, included, stateDiffs, acceptedTransactions,
                      committed, pendingConflictsCounters, acceptanceTime, committing, crashed>>
      BY <1>5 DEF AcceptConflict
    <2> QED
      BY <2>4, <2>5, <2>6, <2>7 DEF TypeOK, attached, committed
  <1>6. ASSUME DecreaseConflictsCounter
        PROVE  TypeOK'
    <2> DEFINE t == Head(deciding)
               index == GetEarliestAttachment(t)
    <2>1. deciding \in Seq(Transaction) /\ deciding # <<>>
      BY <1>6 DEF DecreaseConflictsCounter, TypeOK
    <2>2. t \in Transaction /\ deciding' \in Seq(Transaction)
      BY <1>6, <2>1 DEF DecreaseConflictsCounter
    <2>3. attachments[t] # {} => index \in 1..MaxTime
      BY <2>2, AttachedEpochs
    <2>4. pendingConflictsCounters' \in [Epoch -> 0..(CounterSize - 1)]
      <3>1. CASE attachments[t] = {} \/ index <= latestCommitment
        BY <1>6, <3>1 DEF DecreaseConflictsCounter, TypeOK
      <3>2. CASE ~(attachments[t] = {} \/ index <= latestCommitment)
        <4>1. index \in Epoch
          BY <1>0, <2>3, <3>2 DEF Epoch
        <4>2. pendingConflictsCounters[index] \in 0..(CounterSize - 1)
          BY <4>1 DEF TypeOK
        <4>3. Decreased(index) \in 0..(CounterSize - 1)
          BY <4>2, CountersWrap DEF Decreased
        <4> QED
          <5>1. pendingConflictsCounters' = [pendingConflictsCounters EXCEPT ![index] = Decreased(index)]
            BY <1>6, <3>2 DEF DecreaseConflictsCounter
          <5>2. pendingConflictsCounters \in [Epoch -> 0..(CounterSize - 1)]
            BY DEF TypeOK
          <5> QED
            BY <4>3, <5>1, <5>2
      <3> QED
        BY <3>1, <3>2
    <2>5. committing' \in Holders
      <3>1. latestCommitment + 1 \in Nat /\ acceptanceTime \in Nat
        <4>1. latestCommitment \in 0..MaxTime /\ acceptanceTime \in 0..MaxTime
          BY DEF TypeOK, Epoch
        <4> QED
          BY <1>0, <4>1
      <3>2. Idle \in Holders
        BY DEF Idle
      <3>3. attachments[t] # {} => index \in Nat
        BY <1>0, <2>3
      <3> QED
        <4>1. CASE UNCHANGED committing
          BY <1>busy, <4>1
        <4>2. CASE committing' = Idle
          BY <3>2, <4>2
        <4>3. CASE /\ attachments[t] # {}
                   /\ committing' = [Idle EXCEPT !.at = "check", !.epoch = latestCommitment + 1,
                        !.until = index, !.time = acceptanceTime, !.locks = TRUE]
          BY <3>1, <3>2, <3>3, <4>3
        <4> QED
          BY <1>6, <4>1, <4>2, <4>3 DEF DecreaseConflictsCounter
    <2>6. /\ UNCHANGED <<confirmation, bornRejected, announcing, attached, ledger, committed, acceptanceTime>>
          /\ crashed' \in BOOLEAN
      BY <1>6 DEF DecreaseConflictsCounter
    <2> QED
      BY <2>2, <2>4, <2>5, <2>6 DEF TypeOK, attached, ledger, committed
  <1>7. ASSUME NEW t \in Transaction, SetTransactionInclusionEpoch(t)
        PROVE  TypeOK'
    <2>1. accepting' \in [Transaction -> {"no", "scheduled", "state", "mutations", "done", "error"}]
      BY <1>7 DEF SetTransactionInclusionEpoch, TypeOK
    <2>2. included' \subseteq Transaction
      BY <1>7 DEF SetTransactionInclusionEpoch, TypeOK
    <2>3. UNCHANGED <<conflicts, attached, stateDiffs, acceptedTransactions, committed,
                      pendingConflictsCounters, acceptanceTime, committing, crashed>>
      BY <1>7 DEF SetTransactionInclusionEpoch
    <2> QED
      BY <2>1, <2>2, <2>3 DEF TypeOK, conflicts, attached, committed
  <1>8. ASSUME NEW t \in Transaction,
               PropagateAcceptance(t) \/ StoreStateDiff(t) \/ AddAcceptedTransaction(t)
        PROVE  TypeOK'
    <2>1. accepting' \in [Transaction -> {"no", "scheduled", "state", "mutations", "done", "error"}]
      <3>1. CASE PropagateAcceptance(t)
        BY <3>1 DEF PropagateAcceptance, TypeOK
      <3>2. CASE StoreStateDiff(t)
        BY <3>2 DEF StoreStateDiff, TypeOK
      <3>3. CASE AddAcceptedTransaction(t)
        <4>1. \E a \in {"error", "done"} : accepting' = [accepting EXCEPT ![t] = a]
          BY <3>3 DEF AddAcceptedTransaction
        <4> QED
          BY <4>1 DEF TypeOK
      <3> QED
        BY <1>8, <3>1, <3>2, <3>3
    <2>2. stateDiffs' \subseteq Transaction /\ acceptedTransactions' \subseteq Transaction
      BY <1>8 DEF PropagateAcceptance, StoreStateDiff, AddAcceptedTransaction, TypeOK
    <2>3. UNCHANGED <<conflicts, attached, included, committed, pendingConflictsCounters,
                      acceptanceTime, committing, crashed>>
      BY <1>8 DEF PropagateAcceptance, StoreStateDiff, AddAcceptedTransaction
    <2> QED
      BY <2>1, <2>2, <2>3 DEF TypeOK, conflicts, attached, committed
  <1>9. ASSUME SetAcceptanceTime
        PROVE  TypeOK'
    <2>1. acceptanceTime' \in Epoch /\ acceptanceTime' \in Nat /\ latestCommitment + 1 \in Nat
      <3>1. acceptanceTime \in 0..MaxTime /\ latestCommitment \in 0..MaxTime
        BY DEF TypeOK, Epoch
      <3>2. acceptanceTime' = IF acceptanceTime < MaxTime THEN acceptanceTime + 1 ELSE MaxTime
        BY <1>9 DEF SetAcceptanceTime
      <3> QED
        BY <1>0, <3>1, <3>2 DEF Epoch
    <2>2. committing' \in Holders
      <3>1. \/ committing' = Idle
            \/ committing' = [Idle EXCEPT !.at = "check", !.epoch = latestCommitment + 1,
                                !.until = acceptanceTime', !.time = acceptanceTime']
        BY <1>9 DEF SetAcceptanceTime
      <3> QED
        BY <1>idle, <2>1, <3>1
    <2>3. UNCHANGED <<conflicts, attached, ledger, committed, pendingConflictsCounters, crashed>>
      BY <1>9 DEF SetAcceptanceTime
    <2> QED
      BY <2>1, <2>2, <2>3 DEF TypeOK, conflicts, attached, ledger, committed
  <1>10. ASSUME TryCommitEpoch
         PROVE  TypeOK'
    <2>1. committing' \in Holders
      <3>1. committing' = Idle \/ committing' = [committing EXCEPT !.at = "state"]
        BY <1>10 DEF TryCommitEpoch
      <3> QED
        BY <1>idle, <1>busy, <3>1
    <2>2. pendingConflictsCounters' \in [Epoch -> 0..(CounterSize - 1)]
      BY <1>0, <1>10 DEF TryCommitEpoch, TypeOK
    <2> QED
      BY <1>10, <2>1, <2>2 DEF TryCommitEpoch, TypeOK, conflicts, attached, ledger, committed
  <1>11. ASSUME ApplyStateDiff
         PROVE  TypeOK'
    <2>1. committing' \in Holders
      BY <1>11 DEF ApplyStateDiff, TypeOK
    <2>2. ledgerState' \subseteq Transaction /\ stateEpoch' \in Epoch
      BY <1>11 DEF ApplyStateDiff, TypeOK, CommitInv
    <2> QED
      BY <1>11, <2>1, <2>2 DEF ApplyStateDiff, TypeOK, conflicts, attached, ledger
  <1>12. ASSUME EvictMutations
         PROVE  TypeOK'
    <2>1. committing' \in Holders
      <3>1. \/ committing' = Idle
            \/ \E mutations \in SUBSET Transaction :
                 committing' = [committing EXCEPT !.at = "attestations", !.transactions = mutations]
        BY <1>12 DEF EvictMutations, TypeOK
      <3> QED
        BY <1>idle, <1>busy, <3>1
    <2>2. mutationsEpoch' \in Epoch /\ acceptedTransactions' \subseteq Transaction
      BY <1>12 DEF EvictMutations, TypeOK, CommitInv
    <2> QED
      BY <1>12, <2>1, <2>2 DEF EvictMutations, TypeOK, conflicts, attached
  <1>13. ASSUME CommitAttestations
         PROVE  TypeOK'
    <2>1. committing' \in Holders
      <3>1. committing' = Idle \/ committing' = [committing EXCEPT !.at = "commitment"]
        BY <1>13 DEF CommitAttestations
      <3> QED
        BY <1>idle, <1>busy, <3>1
    <2>2. failures' \in 0..MaxFailures
      <3>1. failures \in 0..MaxFailures /\ MaxFailures \in Nat
        BY NotarizationConstants DEF TypeOK
      <3>2. failures' = failures \/ (failures < MaxFailures /\ failures' = failures + 1)
        BY <1>13 DEF CommitAttestations
      <3> QED
        BY <3>1, <3>2
    <2> QED
      BY <1>13, <2>1, <2>2 DEF CommitAttestations, TypeOK, conflicts, attached, ledger
  <1>14. ASSUME SetLatestCommitment
         PROVE  TypeOK'
    <2>1. committing.epoch \in Epoch /\ committing.epoch + 1 \in Nat
      BY <1>14 DEF SetLatestCommitment, TypeOK, CommitInv
    <2>2. committing' \in Holders
      BY <1>14, <2>1 DEF SetLatestCommitment, TypeOK
    <2>3. commitments' \in [Epoch -> SUBSET Transaction]
      BY <1>14 DEF SetLatestCommitment, TypeOK
    <2> QED
      <3>1. /\ latestCommitment' \in Epoch
            /\ UNCHANGED <<conflicts, attached, ledger, ledgerState, stateEpoch, mutationsEpoch,
                           failures, pendingConflictsCounters, acceptanceTime, crashed>>
        BY <1>14, <2>1 DEF SetLatestCommitment
      <3> QED
        BY <2>2, <2>3, <3>1 DEF TypeOK, conflicts, attached, ledger
  <1>15. CASE UNCHANGED vars
    BY <1>15 DEF vars, conflicts, attached, ledger, committed, TypeOK
  <1> QED
    BY <1>1, <1>2, <1>3, <1>4, <1>5, <1>6, <1>7, <1>8, <1>9, <1>10, <1>11, <1>12, <1>13, <1>14,
       <1>15 DEF Next, Proceed, CreateCommitment

(* Every step preserves the progress of a commitment.                      *)
LEMMA CommitStep == TypeOK /\ CommitInv /\ [Next]_vars => CommitInv'
  <1> SUFFICES ASSUME TypeOK, CommitInv, [Next]_vars
               PROVE  CommitInv'
    OBVIOUS
  <1>0. /\ MaxTime \in Nat /\ MinCommittableEpochAge \in Nat
        /\ acceptanceTime \in 0..MaxTime /\ latestCommitment \in 0..MaxTime
        /\ mutationsEpoch \in 0..MaxTime /\ committing.epoch \in Nat
    BY NotarizationConstants DEF TypeOK, Epoch
  <1>idle. Idle.at = "idle" /\ Idle.time \in Epoch
    BY <1>0 DEF Idle, Epoch
  <1>check. ASSUME UNCHANGED <<mutationsEpoch, latestCommitment>>, committing'.at = "check",
                   committing'.epoch = latestCommitment + 1, committing'.time \in 0..MaxTime
            PROVE  CommitInv'
    BY <1>check DEF CommitInv, Epoch
  <1>stop. ASSUME UNCHANGED <<mutationsEpoch, latestCommitment>>, committing' = Idle
           PROVE  CommitInv'
    BY <1>stop, <1>idle DEF CommitInv
  <1>1. ASSUME NEW t \in Transaction,
               \/ \E e \in AttachmentEpochs[t] : Attach(t, e)
               \/ CreateConflict(t) \/ AnnounceConflict(t) \/ AcceptConflict(t)
               \/ SetTransactionInclusionEpoch(t) \/ PropagateAcceptance(t)
               \/ StoreStateDiff(t) \/ AddAcceptedTransaction(t)
        PROVE  CommitInv'
    <2>1. UNCHANGED <<committing, mutationsEpoch, latestCommitment>>
      BY <1>1 DEF Attach, CreateConflict, AnnounceConflict, AcceptConflict,
                  SetTransactionInclusionEpoch, PropagateAcceptance, StoreStateDiff,
                  AddAcceptedTransaction, committed
    <2> QED
      BY <2>1 DEF CommitInv
  <1>2. ASSUME EvictAttachments
        PROVE  CommitInv'
    BY <1>2 DEF EvictAttachments, CommitInv, committed
  <1>3. ASSUME DecreaseConflictsCounter
        PROVE  CommitInv'
    <2>1. UNCHANGED <<mutationsEpoch, latestCommitment>>
      BY <1>3 DEF DecreaseConflictsCounter, committed
    <2>2. CASE UNCHANGED committing
      BY <2>1, <2>2 DEF CommitInv
    <2>3. CASE committing' = Idle
      BY <1>stop, <2>1, <2>3
    <2>4. CASE committing' = [Idle EXCEPT !.at = "check", !.epoch = latestCommitment + 1,
                 !.until = GetEarliestAttachment(Head(deciding)), !.time = acceptanceTime, !.locks = TRUE]
      <3>1. /\ committing'.at = "check" /\ committing'.epoch = latestCommitment + 1
            /\ committing'.time = acceptanceTime
        BY <2>4 DEF Idle
      <3> QED
        BY <1>0, <1>check, <2>1, <3>1
    <2> QED
      BY <1>3, <2>2, <2>3, <2>4 DEF DecreaseConflictsCounter
  <1>4. ASSUME SetAcceptanceTime
        PROVE  CommitInv'
    <2>1. UNCHANGED <<mutationsEpoch, latestCommitment>>
      BY <1>4 DEF SetAcceptanceTime, committed
    <2> DEFINE time == IF acceptanceTime < MaxTime THEN acceptanceTime + 1 ELSE MaxTime
    <2>2. time \in 0..MaxTime
      BY <1>0
    <2>3. CASE committing' = Idle
      BY <1>stop, <2>1, <2>3
    <2>4. CASE committing' = [Idle EXCEPT !.at = "check", !.epoch = latestCommitment + 1,
                               !.until = time, !.time = time]
      <3>1. /\ committing'.at = "check" /\ committing'.epoch = latestCommitment + 1
            /\ committing'.time = time
        BY <2>4 DEF Idle
      <3> QED
        BY <1>check, <2>1, <2>2, <3>1
    <2> QED
      BY <1>4, <2>3, <2>4 DEF SetAcceptanceTime
  <1>5. ASSUME TryCommitEpoch
        PROVE  CommitInv'
    <2>1. UNCHANGED <<mutationsEpoch, latestCommitment>> /\ committing.at = "check"
      BY <1>5 DEF TryCommitEpoch, committed
    <2>2. CASE ~IsCommittable(committing.epoch)
      <3>1. committing' = Idle
        BY <1>5, <2>2 DEF TryCommitEpoch
      <3> QED
        BY <1>stop, <2>1, <3>1
    <2>3. CASE IsCommittable(committing.epoch)
      <3>1. committing' = [committing EXCEPT !.at = "state"]
        BY <1>5, <2>3 DEF TryCommitEpoch
      <3>2. committing.time \in 0..MaxTime /\ committing.time - committing.epoch >= MinCommittableEpochAge
        BY <2>3 DEF IsCommittable, CommitInv, Epoch
      <3>3. committing.epoch \in Epoch
        BY <1>0, <3>2 DEF Epoch
      <3>4. committing \in Holders
        BY DEF TypeOK, Holders
      <3>5. /\ committing'.time = committing.time /\ committing'.epoch = committing.epoch
            /\ committing'.at = "state"
        BY <3>1, <3>4 DEF Holders
      <3> QED
        BY <2>1, <3>3, <3>5 DEF CommitInv
    <2> QED
      BY <2>2, <2>3
  <1>6. ASSUME ApplyStateDiff
        PROVE  CommitInv'
    BY <1>6 DEF ApplyStateDiff, TypeOK, CommitInv
  <1>7. ASSUME EvictMutations
        PROVE  CommitInv'
    <2>1. /\ latestCommitment' = latestCommitment
          /\ committing.epoch = latestCommitment + 1 /\ committing.epoch \in Epoch
      BY <1>7 DEF EvictMutations, CommitInv
    <2>2. CASE committing.epoch <= mutationsEpoch
      BY <1>7, <1>stop, <2>1, <2>2 DEF EvictMutations
    <2>3. CASE ~(committing.epoch <= mutationsEpoch)
      <3>1. mutationsEpoch' = committing.epoch
        BY <1>7, <2>3 DEF EvictMutations
      <3>2. committing \in Holders
        BY DEF TypeOK, Holders
      <3>3. /\ committing'.time = committing.time /\ committing'.epoch = committing.epoch
            /\ committing'.at = "attestations"
        BY <1>7, <2>3, <3>2 DEF EvictMutations, Holders
      <3> QED
        BY <2>1, <3>1, <3>3 DEF CommitInv
    <2> QED
      BY <2>2, <2>3
  <1>8. ASSUME CommitAttestations
        PROVE  CommitInv'
    <2>1. UNCHANGED <<mutationsEpoch, latestCommitment>> /\ committing.at = "attestations"
      BY <1>8 DEF CommitAttestations
    <2>2. CASE committing' = Idle
      BY <1>stop, <2>1, <2>2
    <2>3. CASE committing' = [committing EXCEPT !.at = "commitment"]
      BY <2>1, <2>3 DEF CommitInv, TypeOK
    <2> QED
      BY <1>8, <2>2, <2>3 DEF CommitAttestations
  <1>9. ASSUME SetLatestCommitment
        PROVE  CommitInv'
    <2>1. mutationsEpoch' = mutationsEpoch /\ mutationsEpoch = committing.epoch
      BY <1>9 DEF SetLatestCommitment, CommitInv
    <2>2. latestCommitment' = committing.epoch
      BY <1>9 DEF SetLatestCommitment
    <2>3. committing \in Holders
      BY DEF TypeOK, Holders
    <2>4. /\ committing'.time = committing.time /\ committing'.epoch = committing.epoch + 1
          /\ committing'.at = "check"
      BY <1>9, <2>3 DEF SetLatestCommitment, Holders
    <2> QED
      BY <2>1, <2>2, <2>4 DEF CommitInv
  <1>10. CASE UNCHANGED vars
    BY <1>10 DEF vars, committed, CommitInv
  <1> QED
    BY <1>1, <1>2, <1>3, <1>4, <1>5, <1>6, <1>7, <1>8, <1>9, <1>10 DEF Next, Proceed, CreateCommitment

(* An accepted transaction that was added to the mutations of its epoch is *)
(* still there, or in the hands of whoever commits the epoch, or in the    *)
(* commitment.                                                             *)
AddedInv ==
  \A t \in Transaction : accepting[t] = "done" =>
    /\ InclusionEpoch[t] > mutationsEpoch => t \in acceptedTransactions
    /\ InclusionEpoch[t] = mutationsEpoch /\ committing.at \in {"attestations", "commitment"}
         => t \in committing.transactions
    /\ InclusionEpoch[t] <= latestCommitment => t \in commitments[InclusionEpoch[t]]

(* Every step preserves it.  The refusal of a late transaction and the     *)
(* eviction of the mutations look at the same mutationsEpoch, so that no   *)
(* transaction can be added behind the back of a commitment.               *)
LEMMA AddedStep == TypeOK /\ CommitInv /\ AddedInv /\ [Next]_vars => AddedInv'
  <1> SUFFICES ASSUME TypeOK, CommitInv, AddedInv, [Next]_vars, NEW t \in Transaction,
                      accepting'[t] = "done"
               PROVE  /\ InclusionEpoch[t] > mutationsEpoch' => t \in acceptedTransactions'
                      /\ InclusionEpoch[t] = mutationsEpoch' /\ committing'.at \in {"attestations", "commitment"}
                           => t \in committing'.transactions
                      /\ InclusionEpoch[t] <= latestCommitment' => t \in commitments'[InclusionEpoch[t]]
    BY DEF AddedInv
  <1> DEFINE Added(s) == accepting[s] = "done" =>
                /\ InclusionEpoch[s] > mutationsEpoch => s \in acceptedTransactions
                /\ InclusionEpoch[s] = mutationsEpoch /\ committing.at \in {"attestations", "commitment"}
                     => s \in committing.transactions
                /\ InclusionEpoch[s] <= latestCommitment => s \in commitments[InclusionEpoch[s]]
  <1>0. /\ MaxTime \in Nat /\ InclusionEpoch[t] \in 1..MaxTime
        /\ latestCommitment \in 0..MaxTime /\ mutationsEpoch \in 0..MaxTime
    BY NotarizationConstants, AttachedEpochs DEF TypeOK, Epoch
  <1>ahead. mutationsEpoch \in {latestCommitment, latestCommitment + 1}
    BY DEF CommitInv
  <1>inv. Added(t)
    BY DEF AddedInv
  <1>1. ASSUME NEW s \in Transaction,
               \/ \E e \in AttachmentEpochs[s] : Attach(s, e)
               \/ CreateConflict(s) \/ AnnounceConflict(s) \/ AcceptConflict(s)
               \/ SetTransactionInclusionEpoch(s) \/ PropagateAcceptance(s) \/ StoreStateDiff(s)
        PROVE  accepting[t] = "done" /\ UNCHANGED <<committing, mutationsEpoch, latestCommitment,
                                                    acceptedTransactions, commitments>>
    <2>1. UNCHANGED <<committing, mutationsEpoch, latestCommitment, acceptedTransactions, commitments>>
      BY <1>1 DEF Attach, CreateConflict, AnnounceConflict, AcceptConflict,
                  SetTransactionInclusionEpoch, PropagateAcceptance, StoreStateDiff, committed, ledger
    <2>2. accepting[t] = "done"
      BY <1>1 DEF Attach, CreateConflict, AnnounceConflict, AcceptConflict,
                  SetTransactionInclusionEpoch, PropagateAcceptance, StoreStateDiff, ledger, TypeOK
    <2> QED
      BY <2>1, <2>2
  <1>2. ASSUME NEW s \in Transaction, AddAcceptedTransaction(s), s # t
        PROVE  /\ accepting[t] = "done"
               /\ UNCHANGED <<committing, mutationsEpoch, latestCommitment, commitments>>
               /\ acceptedTransactions \subseteq acceptedTransactions'
    BY <1>2 DEF AddAcceptedTransaction, committed, TypeOK
  <1>3. ASSUME AddAcceptedTransaction(t)
        PROVE  /\ UNCHANGED <<committing, mutationsEpoch, latestCommitment>>
               /\ InclusionEpoch[t] > mutationsEpoch /\ t \in acceptedTransactions'
    <2>1. ~(InclusionEpoch[t] <= mutationsEpoch)
      BY <1>3 DEF AddAcceptedTransaction, TypeOK
    <2> QED
      BY <1>0, <1>3, <2>1 DEF AddAcceptedTransaction, committed
  <1>4. ASSUME \/ EvictAttachments \/ DecreaseConflictsCounter \/ SetAcceptanceTime
               \/ TryCommitEpoch \/ ApplyStateDiff \/ UNCHANGED vars
        PROVE  /\ UNCHANGED <<accepting, mutationsEpoch, latestCommitment, acceptedTransactions, commitments>>
               /\ \/ committing'.at \in {"idle", "check", "state", "mutations"}
                  \/ UNCHANGED committing
    <2>1. UNCHANGED <<accepting, mutationsEpoch, latestCommitment, acceptedTransactions, commitments>>
      BY <1>4 DEF EvictAttachments, DecreaseConflictsCounter, SetAcceptanceTime, TryCommitEpoch,
                  ApplyStateDiff, vars, ledger, committed
    <2>2. committing'.at \in {"idle", "check", "state", "mutations"} \/ UNCHANGED committing
      <3>1. CASE EvictAttachments \/ UNCHANGED vars
        BY <3>1 DEF EvictAttachments, vars
      <3>2. CASE DecreaseConflictsCounter
        <4>1. CASE UNCHANGED committing
          BY <4>1
        <4>2. CASE committing' = Idle
          BY <4>2 DEF Idle
        <4>3. CASE committing' = [Idle EXCEPT !.at = "check", !.epoch = latestCommitment + 1,
                     !.until = GetEarliestAttachment(Head(deciding)), !.time = acceptanceTime, !.locks = TRUE]
          BY <4>3 DEF Idle
        <4> QED
          BY <3>2, <4>1, <4>2, <4>3 DEF DecreaseConflictsCounter
      <3>3. CASE SetAcceptanceTime
        BY <3>3 DEF SetAcceptanceTime, Idle
      <3>4. CASE TryCommitEpoch
        BY <3>4 DEF TryCommitEpoch, Idle, TypeOK
      <3>5. CASE ApplyStateDiff
        BY <3>5 DEF ApplyStateDiff, TypeOK
      <3> QED
        BY <1>4, <3>1, <3>2, <3>3, <3>4, <3>5
    <2> QED
      BY <2>1, <2>2
  <1>5. ASSUME EvictMutations
        PROVE  \/ /\ UNCHANGED <<accepting, mutationsEpoch, latestCommitment, acceptedTransactions, commitments>>
                  /\ committing'.at = "idle"
               \/ /\ UNCHANGED <<accepting, latestCommitment, commitments>>
                  /\ mutationsEpoch < mutationsEpoch' /\ mutationsEpoch' \in 0..MaxTime
                  /\ \A s \in acceptedTransactions : InclusionEpoch[s] = mutationsEpoch' => s \in committing'.transactions
                  /\ \A s \in acceptedTransactions : InclusionEpoch[s] # mutationsEpoch' => s \in acceptedTransactions'
    <2>1. CASE committing.epoch <= mutationsEpoch
      BY <1>5, <2>1 DEF EvictMutations, Idle
    <2>2. CASE ~(committing.epoch <= mutationsEpoch)
      <3>1. committing.epoch \in 0..MaxTime
        BY <1>5 DEF EvictMutations, CommitInv, Epoch
      <3>2. mutationsEpoch' = committing.epoch /\ mutationsEpoch < mutationsEpoch'
        BY <1>0, <1>5, <2>2, <3>1 DEF EvictMutations
      <3>3. committing'.transactions = {s \in acceptedTransactions : InclusionEpoch[s] = committing.epoch}
        BY <1>5, <2>2 DEF EvictMutations, TypeOK
      <3>4. acceptedTransactions' = {s \in acceptedTransactions : InclusionEpoch[s] # committing.epoch}
        BY <1>5, <2>2 DEF EvictMutations
      <3> QED
        BY <1>5, <3>1, <3>2, <3>3, <3>4 DEF EvictMutations
    <2> QED
      BY <2>1, <2>2
  <1>6. ASSUME CommitAttestations
        PROVE  /\ UNCHANGED <<accepting, mutationsEpoch, latestCommitment, acceptedTransactions, commitments>>
               /\ committing.at = "attestations"
               /\ \/ committing'.at = "idle"
                  \/ committing'.transactions = committing.transactions
    BY <1>6 DEF CommitAttestations, Idle, ledger, TypeOK
  <1>7. ASSUME SetLatestCommitment
        PROVE  /\ UNCHANGED <<accepting, mutationsEpoch, acceptedTransactions>>
               /\ committing.at = "commitment" /\ committing'.at = "check"
               /\ latestCommitment' = mutationsEpoch /\ latestCommitment' = latestCommitment + 1
               /\ commitments' = [commitments EXCEPT ![mutationsEpoch] = committing.transactions]
    <2>1. committing.epoch = mutationsEpoch /\ committing.epoch = latestCommitment + 1
      BY <1>7 DEF SetLatestCommitment, CommitInv
    <2>2. committing'.at = "check"
      BY <1>7 DEF SetLatestCommitment, TypeOK
    <2> QED
      BY <1>7, <2>1, <2>2 DEF SetLatestCommitment, ledger
  <1>8. commitments \in [Epoch -> SUBSET Transaction]
    BY DEF TypeOK
  <1>9. CASE EvictMutations
    <2>1. CASE UNCHANGED acceptedTransactions /\ committing'.at = "idle" /\ UNCHANGED mutationsEpoch
      BY <1>inv, <1>5, <1>9, <2>1
    <2>2. CASE mutationsEpoch' \in 0..MaxTime /\ mutationsEpoch < mutationsEpoch'
      BY <1>0, <1>inv, <1>5, <1>9, <2>2
    <2> QED
      BY <1>5, <1>9, <2>1, <2>2
  <1>10. CASE CommitAttestations
    BY <1>0, <1>inv, <1>6, <1>10
  <1>11. CASE SetLatestCommitment
    BY <1>0, <1>inv, <1>7, <1>8, <1>11 DEF Epoch
  <1>12. CASE \/ EvictAttachments \/ DecreaseConflictsCounter \/ SetAcceptanceTime
              \/ TryCommitEpoch \/ ApplyStateDiff \/ UNCHANGED vars
    BY <1>inv, <1>4, <1>12
  <1>13. CASE \E s \in Transaction : AddAcceptedTransaction(s)
    <2>1. PICK s \in Transaction : AddAcceptedTransaction(s)
      BY <1>13
    <2>2. CASE s = t
      BY <1>0, <1>inv, <1>3, <1>ahead, <2>1, <2>2
    <2>3. CASE s # t
      BY <1>inv, <1>2, <2>1, <2>3
    <2> QED
      BY <2>2, <2>3
  <1> QED
    BY <1>inv, <1>1, <1>9, <1>10, <1>11, <1>12, <1>13 DEF Next, Proceed, CreateCommitment

------------------------------------------------------------------------------
(* The inductive invariant holds in every reachable state.                 *)
LEMMA Inductive == Spec => [](TypeOK /\ CommitInv /\ AddedInv)
  <1>1. Init => TypeOK /\ CommitInv /\ AddedInv
    <2> SUFFICES ASSUME Init PROVE TypeOK /\ CommitInv /\ AddedInv
      OBVIOUS
    <2>0. MaxTime \in Nat /\ MaxFailures \in Nat /\ 0 \in 0..(CounterSize - 1)
      BY NotarizationConstants
    <2>1. 0 \in Epoch
      BY <2>0 DEF Epoch
    <2>2. Idle \in Holders /\ Idle.at = "idle" /\ Idle.time = 0
      BY DEF Idle, Holders
    <2>3. deciding \in Seq(Transaction)
      BY DEF Init
    <2>4. TypeOK
      BY <2>0, <2>1, <2>2, <2>3 DEF Init, TypeOK, Holders
    <2>5. CommitInv
      BY <2>1, <2>2 DEF Init, CommitInv
    <2>6. AddedInv
      BY DEF Init, AddedInv
    <2> QED
      BY <2>4, <2>5, <2>6
  <1>2. TypeOK /\ CommitInv /\ AddedInv /\ [Next]_vars => (TypeOK /\ CommitInv /\ AddedInv)'
    BY TypeStep, CommitStep, AddedStep
  <1> QED
    BY <1>1, <1>2, PTL DEF Spec

(* The variables keep their types.  The counters of pending conflicts wrap *)
(* around like a uint64, and every commitment is of an epoch that          *)
(* IsCommittable accepted (manager.go).                                    *)
THEOREM TypeCorrect == Spec => []TypeOK
  BY Inductive, PTL

(* A transaction that EpochMutations took is in the commitment of its      *)
(* epoch once that epoch is committed, however the two hooks of            *)
(* TransactionAccepted, the commitments and their failures interleave      *)
(* (epochmutations.go, manager.go).                                        *)
THEOREM AcceptedTransactionsCommitted == Spec => []AddedTransactionsCommitted
  <1>1. AddedInv => AddedTransactionsCommitted
    BY DEF AddedInv, AddedTransactionsCommitted
  <1> QED
    BY <1>1, Inductive, PTL

(* Commitments are built in the order of the epochs: whoever commits works *)
(* on the successor of the latest commitment, and the mutations are never  *)
(* more than one epoch ahead, even when a commitment failed (manager.go).  *)
THEOREM CommitmentsInOrder == Spec => []CommitInv
  BY Inductive, PTL


------------------------------------------------------------------------------
(* Conflicts and epochs.  The counter of an epoch is only as good as the   *)
(* attachments: increase and decrease both look for the earliest one, and  *)
(* find the same epoch as long as EarliestStays.  A uint64 counts more     *)
(* conflicts than there are transactions.                                  *)
WideCounters == CounterSize > Cardinality(Transaction)

Decided(t) == confirmation[t] \in {"Accepted", "Rejected"}

(* The events that are not yet triggered are of distinct conflicts, which  *)
(* are decided and were not born rejected.                                 *)
EventsInv ==
  /\ \A t \in announcing : confirmation[t] # "none"
  /\ \A t \in bornRejected : confirmation[t] = "Rejected"
  /\ \A i \in 1..Len(deciding) : Decided(deciding[i]) /\ deciding[i] \notin bornRejected
  /\ \A i, j \in 1..Len(deciding) : deciding[i] = deciding[j] => i = j

(* What is evicted is committed.                                           *)
AttachedInv == evictedUntil <= latestCommitment

Undelivered == {deciding[i] : i \in 1..Len(deciding)}

(* The conflicts of an epoch that were added to its counter and are not    *)
(* subtracted, and those that were subtracted and are not yet added.       *)
Open(e) ==
  {t \in Transaction : /\ CountsFor(t, e) /\ t \notin announcing
                       /\ confirmation[t] = "Pending" \/ t \in bornRejected \union Undelivered}

Owing(e) ==
  {t \in announcing : /\ CountsFor(t, e) /\ Decided(t)
                      /\ t \notin bornRejected /\ t \notin Undelivered}

Balance(e) == Cardinality(Open(e)) - Cardinality(Owing(e))

(* The counter of an epoch that is not committed is the difference, even   *)
(* when a conflict is decided before it is announced and the counter wraps.*)
CounterInv ==
  \A e \in Epoch : e > latestCommitment =>
    pendingConflictsCounters[e] = IF Balance(e) >= 0 THEN Balance(e) ELSE Balance(e) + CounterSize

(* From the check of the counters to the commitment nobody is announced    *)
(* and no counter changes, since the mutex is held.                        *)
CommittingInv ==
  committing.at \notin {"idle", "check"} =>
    \A t \in Transaction :
      confirmation[t] = "Pending" /\ t \notin announcing /\ CountsFor(t, committing.epoch)
        => \E s \in announcing : CountsFor(s, committing.epoch) /\ Decided(s)

(* A uint64 is increased and decreased modulo its size.                    *)
LEMMA CountersWrapAround ==
  ASSUME NEW n \in 0..(CounterSize - 1)
  PROVE  /\ (n + 1) % CounterSize = IF n = CounterSize - 1 THEN 0 ELSE n + 1
         /\ (n - 1) % CounterSize = IF n = 0 THEN CounterSize - 1 ELSE n - 1
  <1>1. n \in Int /\ CounterSize \in Nat /\ CounterSize > 0
    BY NotarizationConstants
  <1>2. CASE n = CounterSize - 1
    BY <1>1, <1>2
  <1>3. CASE n # CounterSize - 1
    BY <1>1, <1>3
  <1> QED
    BY <1>2, <1>3

(* Each of the conflicts in D has exactly one of the events.               *)
EventsOf(events, D) ==
  /\ \A i, j \in 1..Len(events) : events[i] = events[j] => i = j
  /\ {events[i] : i \in 1..Len(events)} = D

(* SetConflictAccepted announces each conflict that it decides once.       *)
LEMMA EventsOfDecision ==
  ASSUME NEW t \in Transaction, NEW S \in SUBSET Transaction, t \notin S,
         NEW order \in SetToSeqs(S), NEW events, events = <<t>> \o order
  PROVE  EventsOf(events, S \union {t})
  <1> DEFINE n == Cardinality(S)
  <1>1. n \in Nat /\ IsFiniteSet(S)
    BY NotarizationConstants, FS_Subset, FS_CardinalityType
  <1>2. order \in [1..n -> S] /\ \A i, j \in 1..n : order[i] = order[j] => i = j
    BY DEF SetToSeqs
  <1>3. order \in Seq(S) /\ Len(order) = n
    BY <1>1, <1>2
  <1>4. \A s \in S : \E i \in 1..n : order[i] = s
    <2>1. order \in Injection(1..n, S)
      BY <1>2 DEF Injection, IsInjective
    <2>2. Cardinality(1..n) = n
      BY <1>1, FS_Interval
    <2>3. order \in Surjection(1..n, S)
      BY <1>1, <2>1, <2>2, FS_Injection
    <2> QED
      BY <2>3 DEF Surjection
  <1> HIDE DEF n
  <1>5. Len(events) = n + 1 /\ events[1] = t /\ \A i \in 1..n : events[i + 1] = order[i]
    <2>1. <<t>> \in Seq(S \union {t}) /\ order \in Seq(S \union {t}) /\ Len(<<t>>) = 1
      BY <1>3
    <2>2. \A k \in 1..(Len(<<t>>) + Len(order)) :
            events[k] = IF k <= Len(<<t>>) THEN <<t>>[k] ELSE order[k - Len(<<t>>)]
      BY <2>1
    <2>3. \A k \in 1..(1 + n) : events[k] = IF k <= 1 THEN t ELSE order[k - 1]
      BY <1>3, <2>1, <2>2
    <2>4. \A k \in 1..n : k + 1 \in 1..(1 + n) /\ ~(k + 1 <= 1) /\ (k + 1) - 1 = k
      BY <1>1
    <2> QED
      BY <1>1, <1>3, <2>1, <2>3, <2>4
  <1>6. \A i \in 1..(n + 1) : i = 1 \/ \E j \in 1..n : i = j + 1
    <2> SUFFICES ASSUME NEW i \in 1..(n + 1), i # 1 PROVE \E j \in 1..n : i = j + 1
      OBVIOUS
    <2>1. i - 1 \in 1..n /\ i = (i - 1) + 1
      BY <1>1
    <2> QED
      BY <2>1
  <1>7. \A i \in 1..(n + 1) : events[i] = t \/ events[i] \in S
    BY <1>2, <1>5, <1>6
  <1>8. ASSUME NEW i \in 1..(n + 1), NEW j \in 1..(n + 1), events[i] = events[j]
        PROVE  i = j
    <2>1. CASE i = 1 /\ j # 1
      <3>1. PICK k \in 1..n : j = k + 1
        BY <1>6, <2>1
      <3> QED
        <4>1. events[i] = t /\ events[j] = order[k] /\ order[k] \in S
          BY <1>2, <1>5, <2>1, <3>1
        <4> QED
          BY <1>8, <4>1
    <2>2. CASE i # 1 /\ j = 1
      <3>1. PICK k \in 1..n : i = k + 1
        BY <1>6, <2>2
      <3> QED
        <4>1. events[j] = t /\ events[i] = order[k] /\ order[k] \in S
          BY <1>2, <1>5, <2>2, <3>1
        <4> QED
          BY <1>8, <4>1
    <2>3. CASE i # 1 /\ j # 1
      <3>1. PICK k \in 1..n : i = k + 1
        BY <1>6, <2>3
      <3>2. PICK l \in 1..n : j = l + 1
        BY <1>6, <2>3
      <3> QED
        BY <1>2, <1>5, <1>8, <3>1, <3>2
    <2> QED
      BY <2>1, <2>2, <2>3
  <1>9. \A s \in S \union {t} : \E i \in 1..(n + 1) : events[i] = s
    <2>1. 1 \in 1..(n + 1) /\ \A i \in 1..n : i + 1 \in 1..(n + 1)
      BY <1>1
    <2> QED
      BY <1>4, <1>5, <2>1
  <1> QED
    BY <1>5, <1>7, <1>8, <1>9 DEF EventsOf


(* The actions that neither decide nor announce a conflict.                *)
Elsewhere ==
  \/ \E t \in Transaction : \/ \E e \in AttachmentEpochs[t] : Attach(t, e)
                            \/ SetTransactionInclusionEpoch(t) \/ PropagateAcceptance(t)
                            \/ StoreStateDiff(t) \/ AddAcceptedTransaction(t)
  \/ EvictAttachments \/ SetAcceptanceTime \/ CreateCommitment \/ UNCHANGED vars

(* They leave the conflicts and their events alone.                        *)
LEMMA ElsewhereLeavesConflicts == Elsewhere => UNCHANGED conflicts
  BY DEF Elsewhere, Attach, EvictAttachments, SetTransactionInclusionEpoch, PropagateAcceptance,
         StoreStateDiff, AddAcceptedTransaction, SetAcceptanceTime, CreateCommitment, TryCommitEpoch,
         ApplyStateDiff, EvictMutations, CommitAttestations, SetLatestCommitment, vars, conflicts

(* Every step is one of them or one of the four that do.                   *)
LEMMA NextOrElsewhere ==
  [Next]_vars =>
    \/ Elsewhere \/ DecreaseConflictsCounter
    \/ \E t \in Transaction : CreateConflict(t) \/ AnnounceConflict(t) \/ AcceptConflict(t)
  BY DEF Next, Proceed, Elsewhere

(* SetConflictAccepted: who is decided by it, and the events to come.      *)
LEMMA DecisionsHaveEvents ==
  ASSUME TypeOK, NEW t \in Transaction, AcceptConflict(t)
  PROVE  /\ deciding = <<>> /\ deciding' \in Seq(Transaction)
         /\ \A i, j \in 1..Len(deciding') : deciding'[i] = deciding'[j] => i = j
         /\ \A c \in Undelivered' : confirmation[c] = "Pending" /\ Decided(c)'
         /\ \A c \in Transaction : c \notin Undelivered' => confirmation'[c] = confirmation[c]
         /\ UNCHANGED <<bornRejected, announcing>>
  <1> DEFINE rejected == {c \in Competitors[t] : confirmation[c] = "Pending"}
  <1>1. rejected \in SUBSET Transaction /\ t \notin rejected
    BY NotarizationConstants
  <1>2. PICK order \in SetToSeqs(rejected) : deciding' = <<t>> \o order
    BY DEF AcceptConflict
  <1>3. confirmation' = [c \in Transaction |->
          IF c = t THEN "Accepted" ELSE IF c \in rejected THEN "Rejected" ELSE confirmation[c]]
    BY DEF AcceptConflict
  <1>4. confirmation[t] = "Pending" /\ deciding = <<>> /\ UNCHANGED <<bornRejected, announcing>>
    BY DEF AcceptConflict, ConflictDAGLocked
  <1>5. \A c \in rejected : confirmation[c] = "Pending"
    OBVIOUS
  <1> HIDE DEF rejected
  <1>6. EventsOf(deciding', rejected \union {t})
    BY <1>1, <1>2, EventsOfDecision
  <1>7. order \in Seq(Transaction)
    BY <1>1, <1>2, EventsAreSequences
  <1>8. deciding' \in Seq(Transaction)
    BY <1>2, <1>7
  <1>9. Undelivered' = rejected \union {t}
    BY <1>6 DEF Undelivered, EventsOf
  <1>10. \A c \in Undelivered' : confirmation[c] = "Pending" /\ Decided(c)'
    BY <1>1, <1>3, <1>4, <1>5, <1>9 DEF Decided
  <1>11. \A c \in Transaction : c \notin Undelivered' => confirmation'[c] = confirmation[c]
    BY <1>3, <1>9
  <1> QED
    BY <1>4, <1>6, <1>8, <1>10, <1>11 DEF EventsOf

(* An event leaves the queue, and only that one.                           *)
LEMMA EventLeaves ==
  ASSUME TypeOK, EventsInv, DecreaseConflictsCounter
  PROVE  /\ Head(deciding) \in Undelivered \ bornRejected /\ Head(deciding) \in Transaction
         /\ Decided(Head(deciding))
         /\ Undelivered' = Undelivered \ {Head(deciding)}
         /\ Len(deciding') = Len(deciding) - 1
         /\ \A i \in 1..Len(deciding') : deciding'[i] = deciding[i + 1] /\ i + 1 \in 1..Len(deciding)
  <1> DEFINE n == Len(deciding)
  <1>1. deciding \in Seq(Transaction) /\ deciding # <<>> /\ deciding' = Tail(deciding)
    BY DEF TypeOK, DecreaseConflictsCounter
  <1>2. n \in Nat /\ n > 0 /\ Len(deciding') = n - 1
    BY <1>1
  <1>3. \A i \in 1..(n - 1) : deciding'[i] = deciding[i + 1]
    BY <1>1
  <1>4. Head(deciding) = deciding[1] /\ 1 \in 1..n
    BY <1>1, <1>2
  <1>5. Head(deciding) \in Transaction
    BY <1>1
  <1> HIDE DEF n
  <1>6. \A i \in 1..(n - 1) : i + 1 \in 1..n /\ i + 1 # 1
    BY <1>2
  <1>7. \A i \in 1..n : i = 1 \/ \E j \in 1..(n - 1) : i = j + 1
    <2> SUFFICES ASSUME NEW i \in 1..n, i # 1 PROVE \E j \in 1..(n - 1) : i = j + 1
      OBVIOUS
    <2>1. i - 1 \in 1..(n - 1) /\ i = (i - 1) + 1
      BY <1>2
    <2> QED
      BY <2>1
  <1>8. \A i, j \in 1..n : deciding[i] = deciding[j] => i = j
    BY DEF EventsInv, n
  <1>9. Undelivered = {deciding[i] : i \in 1..n} /\ Undelivered' = {deciding'[i] : i \in 1..(n - 1)}
    BY <1>2 DEF Undelivered, n
  <1>10. \A i \in 1..(n - 1) : deciding[i + 1] # deciding[1]
    BY <1>4, <1>6, <1>8
  <1>11. Undelivered' \subseteq Undelivered \ {deciding[1]}
    BY <1>3, <1>6, <1>9, <1>10
  <1>12. Undelivered \ {deciding[1]} \subseteq Undelivered'
    <2> SUFFICES ASSUME NEW i \in 1..n, deciding[i] # deciding[1] PROVE deciding[i] \in Undelivered'
      BY <1>9
    <2>1. PICK j \in 1..(n - 1) : i = j + 1
      BY <1>7
    <2> QED
      BY <1>3, <1>9, <2>1
  <1>13. Decided(Head(deciding)) /\ Head(deciding) \in Undelivered /\ Head(deciding) \notin bornRejected
    BY <1>4, <1>9 DEF EventsInv, n
  <1> QED
    BY <1>2, <1>3, <1>4, <1>5, <1>6, <1>11, <1>12, <1>13 DEF n


(* Every step preserves the facts about events.                            *)
LEMMA EventsStep == TypeOK /\ EventsInv /\ [Next]_vars => EventsInv'
  <1> SUFFICES ASSUME TypeOK, EventsInv, [Next]_vars PROVE EventsInv'
    OBVIOUS
  <1>1. CASE Elsewhere
    BY <1>1, ElsewhereLeavesConflicts DEF conflicts, EventsInv, Decided
  <1>2. ASSUME NEW t \in Transaction, CreateConflict(t) PROVE EventsInv'
    <2>1. \A c \in Transaction : c # t => confirmation'[c] = confirmation[c]
      BY <1>2 DEF CreateConflict, TypeOK
    <2>2. /\ confirmation[t] = "none" /\ deciding' = deciding
          /\ announcing' = announcing \union {t}
          /\ \/ confirmation'[t] = "Pending" /\ bornRejected' = bornRejected
             \/ confirmation'[t] = "Rejected" /\ bornRejected' = bornRejected \union {t}
      BY <1>2 DEF CreateConflict, TypeOK
    <2>3. /\ announcing \subseteq Transaction /\ bornRejected \subseteq Transaction
          /\ \A i \in 1..Len(deciding) : deciding[i] \in Transaction
      BY DEF TypeOK
    <2>4. \A i \in 1..Len(deciding) : deciding[i] # t
      BY <2>2 DEF EventsInv, Decided
    <2> QED
      BY <2>1, <2>2, <2>3, <2>4 DEF EventsInv, Decided
  <1>3. ASSUME NEW t \in Transaction, AnnounceConflict(t) PROVE EventsInv'
    BY <1>3 DEF AnnounceConflict, EventsInv, Decided
  <1>4. ASSUME NEW t \in Transaction, AcceptConflict(t) PROVE EventsInv'
    <2>1. /\ \A i, j \in 1..Len(deciding') : deciding'[i] = deciding'[j] => i = j
          /\ \A c \in Undelivered' : confirmation[c] = "Pending" /\ Decided(c)'
          /\ \A c \in Transaction : c \notin Undelivered' => confirmation'[c] = confirmation[c]
          /\ UNCHANGED <<bornRejected, announcing>>
      BY <1>4, DecisionsHaveEvents
    <2>2. \A i \in 1..Len(deciding') : deciding'[i] \in Undelivered'
      BY DEF Undelivered
    <2>3. announcing \subseteq Transaction /\ bornRejected \subseteq Transaction
      BY DEF TypeOK
    <2>4. \A c \in announcing : confirmation'[c] # "none"
      BY <2>1, <2>3 DEF EventsInv, Decided
    <2>5. \A c \in bornRejected : c \notin Undelivered' /\ confirmation'[c] = "Rejected"
      BY <2>1, <2>3 DEF EventsInv
    <2> QED
      BY <2>1, <2>2, <2>4, <2>5 DEF EventsInv, Decided
  <1>5. ASSUME DecreaseConflictsCounter PROVE EventsInv'
    <2>1. UNCHANGED <<confirmation, bornRejected, announcing>>
      BY <1>5 DEF DecreaseConflictsCounter
    <2>2. /\ Len(deciding') = Len(deciding) - 1
          /\ \A i \in 1..Len(deciding') : deciding'[i] = deciding[i + 1] /\ i + 1 \in 1..Len(deciding)
      BY <1>5, EventLeaves
    <2>3. ASSUME NEW i \in 1..Len(deciding'), NEW j \in 1..Len(deciding'), deciding'[i] = deciding'[j]
          PROVE  i = j
      <3>1. deciding[i + 1] = deciding[j + 1] /\ i + 1 \in 1..Len(deciding) /\ j + 1 \in 1..Len(deciding)
        BY <2>2, <2>3
      <3>2. i + 1 = j + 1
        BY <3>1 DEF EventsInv
      <3> QED
        BY <3>2
    <2>4. ASSUME NEW i \in 1..Len(deciding')
          PROVE  /\ confirmation'[deciding'[i]] \in {"Accepted", "Rejected"}
                 /\ deciding'[i] \notin bornRejected'
      <3>1. deciding'[i] = deciding[i + 1] /\ i + 1 \in 1..Len(deciding)
        BY <2>2
      <3>2. Decided(deciding[i + 1]) /\ deciding[i + 1] \notin bornRejected
        BY <3>1 DEF EventsInv
      <3> QED
        BY <2>1, <3>1, <3>2 DEF Decided
    <2>5. announcing' = announcing /\ bornRejected' = bornRejected /\ confirmation' = confirmation
      BY <2>1
    <2> QED
      BY <2>3, <2>4, <2>5 DEF EventsInv, Decided
  <1> QED
    BY <1>1, <1>2, <1>3, <1>4, <1>5, NextOrElsewhere

(* Every step preserves the order of commitment and eviction.              *)
LEMMA AttachedStep == TypeOK /\ CommitInv /\ AttachedInv /\ [Next]_vars => AttachedInv'
  <1> SUFFICES ASSUME TypeOK, CommitInv, AttachedInv, [Next]_vars PROVE AttachedInv'
    OBVIOUS
  <1>0. MaxTime \in Nat /\ evictedUntil \in 0..MaxTime /\ latestCommitment \in 0..MaxTime
    BY NotarizationConstants DEF TypeOK, Epoch
  <1>1. CASE EvictAttachments
    <2>1. evictedUntil' = latestCommitment /\ latestCommitment' = latestCommitment
      BY <1>1 DEF EvictAttachments, committed
    <2> QED
      BY <1>0, <2>1 DEF AttachedInv
  <1>2. CASE SetLatestCommitment
    <2>1. latestCommitment' = latestCommitment + 1 /\ evictedUntil' = evictedUntil
      BY <1>2 DEF SetLatestCommitment, CommitInv, attached
    <2> QED
      BY <1>0, <2>1 DEF AttachedInv
  <1>3. ASSUME NEW t \in Transaction,
               \/ \E e \in AttachmentEpochs[t] : Attach(t, e)
               \/ CreateConflict(t) \/ AcceptConflict(t)
               \/ SetTransactionInclusionEpoch(t) \/ PropagateAcceptance(t) \/ StoreStateDiff(t)
               \/ AddAcceptedTransaction(t) \/ AnnounceConflict(t)
        PROVE  AttachedInv'
    <2>1. UNCHANGED <<evictedUntil, latestCommitment>>
      BY <1>3 DEF Attach, CreateConflict, AcceptConflict, SetTransactionInclusionEpoch,
                  PropagateAcceptance, StoreStateDiff, AddAcceptedTransaction, AnnounceConflict,
                  attached, committed
    <2> QED
      BY <2>1 DEF AttachedInv
  <1>4. ASSUME \/ SetAcceptanceTime \/ TryCommitEpoch \/ ApplyStateDiff \/ EvictMutations
               \/ CommitAttestations \/ UNCHANGED vars \/ DecreaseConflictsCounter
        PROVE  AttachedInv'
    <2>1. UNCHANGED <<evictedUntil, latestCommitment>>
      BY <1>4 DEF SetAcceptanceTime, TryCommitEpoch, ApplyStateDiff, DecreaseConflictsCounter,
                  EvictMutations, CommitAttestations, vars, attached, committed
    <2> QED
      BY <2>1 DEF AttachedInv
  <1> QED
    BY <1>1, <1>2, <1>3, <1>4 DEF Next, Proceed, CreateCommitment

(* Attachments come with blocks and go with evictions.                     *)
LEMMA AttachmentsChange ==
  [Next]_vars =>
    \/ attachments' = attachments \/ EvictAttachments
    \/ \E c \in Transaction : \E d \in AttachmentEpochs[c] : Attach(c, d)
  <1> SUFFICES ASSUME [Next]_vars
               PROVE  \/ attachments' = attachments \/ EvictAttachments
                      \/ \E c \in Transaction : \E d \in AttachmentEpochs[c] : Attach(c, d)
    OBVIOUS
  <1>1. ASSUME NEW t \in Transaction,
               \/ CreateConflict(t) \/ AcceptConflict(t)
               \/ SetTransactionInclusionEpoch(t) \/ PropagateAcceptance(t) \/ StoreStateDiff(t)
               \/ AddAcceptedTransaction(t) \/ AnnounceConflict(t)
        PROVE  attachments' = attachments
    BY <1>1 DEF CreateConflict, AcceptConflict, SetTransactionInclusionEpoch, PropagateAcceptance,
                StoreStateDiff, AddAcceptedTransaction, AnnounceConflict, attached
  <1>2. ASSUME \/ SetAcceptanceTime \/ TryCommitEpoch \/ ApplyStateDiff \/ EvictMutations
               \/ CommitAttestations \/ UNCHANGED vars \/ DecreaseConflictsCounter
               \/ SetLatestCommitment
        PROVE  attachments' = attachments
    BY <1>2 DEF SetAcceptanceTime, TryCommitEpoch, ApplyStateDiff, DecreaseConflictsCounter,
                EvictMutations, CommitAttestations, SetLatestCommitment, vars, attached
  <1> QED
    BY <1>1, <1>2 DEF Next, Proceed, CreateCommitment

(* The attachments of conflicts change only elsewhere, and an unsettled    *)
(* conflict counts for the same epoch as before, if it is not committed.   *)
LEMMA EarliestKept ==
  ASSUME TypeOK, AttachedInv, [Next]_vars, [EarliestStays]_vars,
         NEW t \in Transaction, Unsettled(t), NEW e \in Epoch, e > latestCommitment
  PROVE  CountsFor(t, e)' <=> CountsFor(t, e)
  <1>0. /\ MaxTime \in Nat /\ latestCommitment \in 0..MaxTime /\ e \in Nat
        /\ attachments \in [Transaction -> SUBSET (1..MaxTime)]
    BY NotarizationConstants DEF TypeOK, Epoch
  <1>1. attachments'[t] # {} => CountsFor(t, Min(attachments'[t])) \/ attachments' = attachments
    BY DEF EarliestStays, vars, attached
  <1>2. CountsFor(t, e)' => CountsFor(t, e)
    BY <1>1 DEF CountsFor, GetEarliestAttachment
  <1>3. ASSUME CountsFor(t, e) PROVE attachments'[t] # {}
    <2>1. attachments[t] \in SUBSET Nat /\ attachments[t] # {} /\ Min(attachments[t]) = e
      BY <1>0, <1>3 DEF CountsFor, GetEarliestAttachment
    <2>2. e \in attachments[t]
      BY <2>1, EarliestIsAttached
    <2>3. CASE EvictAttachments
      BY <1>0, <2>2, <2>3 DEF EvictAttachments
    <2>4. ASSUME NEW c \in Transaction, NEW d \in AttachmentEpochs[c], Attach(c, d)
          PROVE  attachments[t] \subseteq attachments'[t]
      BY <1>0, <2>4 DEF Attach
    <2>5. attachments' = attachments \/ EvictAttachments
            \/ \E c \in Transaction : \E d \in AttachmentEpochs[c] : Attach(c, d)
      BY AttachmentsChange
    <2> QED
      BY <2>2, <2>3, <2>4, <2>5
  <1>4. CountsFor(t, e) => CountsFor(t, e)'
    BY <1>1, <1>3 DEF CountsFor, GetEarliestAttachment
  <1> QED
    BY <1>2, <1>4


(* What is counted is finite, and less than a uint64 holds.                *)
LEMMA BalanceBounded ==
  ASSUME WideCounters, NEW S \in SUBSET Transaction
  PROVE  IsFiniteSet(S) /\ Cardinality(S) \in Nat /\ Cardinality(S) < CounterSize
  <1>1. IsFiniteSet(Transaction) /\ CounterSize \in Nat
    BY NotarizationConstants
  <1>2. IsFiniteSet(S) /\ Cardinality(S) <= Cardinality(Transaction)
    BY <1>1, FS_Subset
  <1>3. Cardinality(S) \in Nat /\ Cardinality(Transaction) \in Nat
    BY <1>1, <1>2, FS_CardinalityType
  <1> QED
    BY <1>1, <1>2, <1>3 DEF WideCounters

(* The counter of an epoch has its value.                                  *)
CounterShows(e) ==
  pendingConflictsCounters[e] = IF Balance(e) >= 0 THEN Balance(e) ELSE Balance(e) + CounterSize

(* What is open and what is owed, and how many.                            *)
LEMMA OpenAndOwing ==
  ASSUME TypeOK, WideCounters, NEW e
  PROVE  /\ IsFiniteSet(Open(e)) /\ Cardinality(Open(e)) \in Nat /\ Cardinality(Open(e)) < CounterSize
         /\ IsFiniteSet(Owing(e)) /\ Cardinality(Owing(e)) \in Nat /\ Cardinality(Owing(e)) < CounterSize
  <1>1. Open(e) \in SUBSET Transaction /\ Owing(e) \in SUBSET Transaction
    BY DEF Open, Owing, TypeOK
  <1> QED
    BY <1>1, BalanceBounded

(* The counter is increased: one more is open, or one less is owed.        *)
LEMMA CounterIncreases ==
  ASSUME TypeOK, TypeOK', WideCounters, NEW e \in Epoch, CounterShows(e), NEW t,
         \/ t \notin Open(e) /\ Open(e)' = Open(e) \union {t} /\ Owing(e)' = Owing(e)
         \/ t \in Owing(e) /\ Owing(e)' = Owing(e) \ {t} /\ Open(e)' = Open(e),
         pendingConflictsCounters'[e] = (pendingConflictsCounters[e] + 1) % CounterSize
  PROVE  CounterShows(e)'
  <1> DEFINE c == Cardinality(Open(e))
             d == Cardinality(Owing(e))
             n == pendingConflictsCounters[e]
  <1>1. /\ IsFiniteSet(Open(e)) /\ c \in Nat /\ c < CounterSize
        /\ IsFiniteSet(Owing(e)) /\ d \in Nat /\ d < CounterSize
    BY OpenAndOwing
  <1>2. Cardinality(Open(e)') < CounterSize
    <2>1. Open(e)' \in SUBSET Transaction
      BY DEF Open
    <2> QED
      BY <2>1, BalanceBounded
  <1>3. \/ Cardinality(Open(e)') = c + 1 /\ Cardinality(Owing(e)') = d
        \/ Cardinality(Open(e)') = c /\ Cardinality(Owing(e)') = d - 1 /\ d - 1 \in Nat
    <2>1. CASE t \notin Open(e) /\ Open(e)' = Open(e) \union {t} /\ Owing(e)' = Owing(e)
      BY <1>1, <2>1, FS_AddElement
    <2>2. CASE t \in Owing(e) /\ Owing(e)' = Owing(e) \ {t} /\ Open(e)' = Open(e)
      <3>1. IsFiniteSet(Owing(e) \ {t}) /\ Cardinality(Owing(e) \ {t}) = d - 1
        BY <1>1, <2>2, FS_RemoveElement
      <3>2. Cardinality(Owing(e) \ {t}) \in Nat
        BY <3>1, FS_CardinalityType
      <3> QED
        BY <2>2, <3>1, <3>2
    <2> QED
      BY <2>1, <2>2
  <1>4. n \in 0..(CounterSize - 1) /\ CounterSize \in Nat \ {0}
    BY NotarizationConstants DEF TypeOK
  <1>5. pendingConflictsCounters'[e] = IF n = CounterSize - 1 THEN 0 ELSE n + 1
    BY <1>4, CountersWrapAround
  <1>6. n = IF c - d >= 0 THEN c - d ELSE c - d + CounterSize
    BY DEF CounterShows, Balance
  <1> HIDE DEF c, d, n
  <1>7. Balance(e)' = c - d + 1
    BY <1>1, <1>3 DEF Balance
  <1>8. c - d + 1 < CounterSize
    BY <1>1, <1>2, <1>3, <1>4
  <1>9. pendingConflictsCounters'[e] = IF c - d + 1 >= 0 THEN c - d + 1 ELSE c - d + 1 + CounterSize
    BY <1>1, <1>4, <1>5, <1>6, <1>8
  <1> QED
    BY <1>7, <1>9 DEF CounterShows

(* The counter is decreased: one less is open, or one more is owed.        *)
LEMMA CounterDecreases ==
  ASSUME TypeOK, TypeOK', WideCounters, NEW e \in Epoch, CounterShows(e), NEW t,
         \/ t \in Open(e) /\ Open(e)' = Open(e) \ {t} /\ Owing(e)' = Owing(e)
         \/ t \notin Owing(e) /\ Owing(e)' = Owing(e) \union {t} /\ Open(e)' = Open(e),
         pendingConflictsCounters'[e] = (pendingConflictsCounters[e] - 1) % CounterSize
  PROVE  CounterShows(e)'
  <1> DEFINE c == Cardinality(Open(e))
             d == Cardinality(Owing(e))
             n == pendingConflictsCounters[e]
  <1>1. /\ IsFiniteSet(Open(e)) /\ c \in Nat /\ c < CounterSize
        /\ IsFiniteSet(Owing(e)) /\ d \in Nat /\ d < CounterSize
    BY OpenAndOwing
  <1>2. Cardinality(Owing(e)') < CounterSize
    <2>1. Owing(e)' \in SUBSET Transaction
      BY DEF Owing, TypeOK
    <2> QED
      BY <2>1, BalanceBounded
  <1>3. \/ Cardinality(Owing(e)') = d + 1 /\ Cardinality(Open(e)') = c
        \/ Cardinality(Owing(e)') = d /\ Cardinality(Open(e)') = c - 1 /\ c - 1 \in Nat
    <2>1. CASE t \notin Owing(e) /\ Owing(e)' = Owing(e) \union {t} /\ Open(e)' = Open(e)
      BY <1>1, <2>1, FS_AddElement
    <2>2. CASE t \in Open(e) /\ Open(e)' = Open(e) \ {t} /\ Owing(e)' = Owing(e)
      <3>1. IsFiniteSet(Open(e) \ {t}) /\ Cardinality(Open(e) \ {t}) = c - 1
        BY <1>1, <2>2, FS_RemoveElement
      <3>2. Cardinality(Open(e) \ {t}) \in Nat
        BY <3>1, FS_CardinalityType
      <3> QED
        BY <2>2, <3>1, <3>2
    <2> QED
      BY <2>1, <2>2
  <1>4. n \in 0..(CounterSize - 1) /\ CounterSize \in Nat \ {0}
    BY NotarizationConstants DEF TypeOK
  <1>5. pendingConflictsCounters'[e] = IF n = 0 THEN CounterSize - 1 ELSE n - 1
    BY <1>4, CountersWrapAround
  <1>6. n = IF c - d >= 0 THEN c - d ELSE c - d + CounterSize
    BY DEF CounterShows, Balance
  <1> HIDE DEF c, d, n
  <1>7. Balance(e)' = c - d - 1
    BY <1>1, <1>3 DEF Balance
  <1>8. c - d - 1 + CounterSize >= 0
    BY <1>1, <1>2, <1>3, <1>4
  <1>9. pendingConflictsCounters'[e] = IF c - d - 1 >= 0 THEN c - d - 1 ELSE c - d - 1 + CounterSize
    BY <1>1, <1>4, <1>5, <1>6, <1>8
  <1> QED
    BY <1>7, <1>9 DEF CounterShows

(* Nothing happened to the epoch.                                          *)
LEMMA CounterStays ==
  ASSUME NEW e \in Epoch, CounterShows(e), Open(e)' = Open(e), Owing(e)' = Owing(e),
         pendingConflictsCounters'[e] = pendingConflictsCounters[e]
  PROVE  CounterShows(e)'
  <1>1. Balance(e)' = Balance(e)
    BY DEF Balance
  <1> QED
    BY <1>1 DEF CounterShows


(* Commitments leave the counters alone: the counter that tryCommitEpoch   *)
(* resets is 0 already.                                                    *)
LEMMA ElsewhereLeavesCounters ==
  ASSUME TypeOK, CommitInv, Elsewhere
  PROVE  /\ pendingConflictsCounters' = pendingConflictsCounters
         /\ latestCommitment' = latestCommitment
              \/ (SetLatestCommitment /\ latestCommitment' = latestCommitment + 1)
  <1>1. CASE TryCommitEpoch
    <2>1. latestCommitment' = latestCommitment
      BY <1>1 DEF TryCommitEpoch, committed
    <2>2. CASE ~IsCommittable(committing.epoch)
      BY <1>1, <2>1, <2>2 DEF TryCommitEpoch
    <2>3. CASE IsCommittable(committing.epoch)
      <3>1. latestCommitment \in Nat /\ committing.epoch = latestCommitment + 1
        BY <1>1, NotarizationConstants DEF TryCommitEpoch, CommitInv, TypeOK, Epoch
      <3>2. committing.epoch \in latestCommitment..committing.epoch
        BY <3>1
      <3>3. pendingConflictsCounters[committing.epoch] = 0
        BY <2>3, <3>2 DEF IsCommittable, HasNoPendingConflicts
      <3>4. pendingConflictsCounters' = [pendingConflictsCounters EXCEPT ![committing.epoch] = 0]
        BY <1>1, <2>3 DEF TryCommitEpoch
      <3>5. pendingConflictsCounters \in [Epoch -> 0..(CounterSize - 1)]
        BY DEF TypeOK
      <3> QED
        BY <2>1, <3>3, <3>4, <3>5
    <2> QED
      BY <2>2, <2>3
  <1>2. CASE SetLatestCommitment
    BY <1>2 DEF SetLatestCommitment, CommitInv
  <1>3. CASE \/ EvictAttachments \/ SetAcceptanceTime \/ ApplyStateDiff \/ EvictMutations
             \/ CommitAttestations \/ UNCHANGED vars
    BY <1>3 DEF EvictAttachments, SetAcceptanceTime, ApplyStateDiff, EvictMutations,
                CommitAttestations, vars, committed
  <1>4. ASSUME NEW t \in Transaction,
               \/ \E e \in AttachmentEpochs[t] : Attach(t, e)
               \/ SetTransactionInclusionEpoch(t) \/ PropagateAcceptance(t)
               \/ StoreStateDiff(t) \/ AddAcceptedTransaction(t)
        PROVE  UNCHANGED <<pendingConflictsCounters, latestCommitment>>
    BY <1>4 DEF Attach, SetTransactionInclusionEpoch, PropagateAcceptance, StoreStateDiff,
                AddAcceptedTransaction, committed
  <1> QED
    BY <1>1, <1>2, <1>3, <1>4 DEF Elsewhere, CreateCommitment

(* Every step preserves the values of the counters.                        *)
LEMMA CounterStep ==
  ASSUME WideCounters
  PROVE  /\ TypeOK /\ CommitInv /\ EventsInv /\ AttachedInv /\ CounterInv
         /\ [Next]_vars /\ [EarliestStays]_vars
         => CounterInv'
  <1> SUFFICES ASSUME TypeOK, CommitInv, EventsInv, AttachedInv, CounterInv, [Next]_vars,
                      [EarliestStays]_vars, NEW e \in Epoch, e > latestCommitment'
               PROVE  CounterShows(e)'
    BY DEF CounterInv, CounterShows
  <1>0. /\ MaxTime \in Nat /\ latestCommitment \in Nat /\ e \in Nat
        /\ pendingConflictsCounters \in [Epoch -> 0..(CounterSize - 1)]
        /\ confirmation \in [Transaction -> {"none", "Pending", "Accepted", "Rejected"}]
        /\ announcing \subseteq Transaction
    <2>1. /\ latestCommitment \in Epoch /\ announcing \subseteq Transaction
          /\ pendingConflictsCounters \in [Epoch -> 0..(CounterSize - 1)]
          /\ confirmation \in [Transaction -> {"none", "Pending", "Accepted", "Rejected"}]
      BY DEF TypeOK
    <2>2. MaxTime \in Nat /\ Epoch \subseteq Nat
      BY NotarizationConstants DEF Epoch
    <2> QED
      BY <2>1, <2>2
  <1>type. TypeOK'
    BY TypeStep
  <1>shows. ASSUME latestCommitment' = latestCommitment PROVE CounterShows(e) /\ e > latestCommitment
    BY <1>shows DEF CounterInv, CounterShows
  <1>1. CASE Elsewhere
    <2>1. UNCHANGED conflicts /\ pendingConflictsCounters' = pendingConflictsCounters
      BY <1>1, ElsewhereLeavesConflicts, ElsewhereLeavesCounters
    <2>2. e > latestCommitment
      BY <1>0, <1>1, ElsewhereLeavesCounters
    <2>3. CounterShows(e)
      BY <2>2 DEF CounterInv, CounterShows
    <2>4. \A t \in Transaction : Unsettled(t) => (CountsFor(t, e)' <=> CountsFor(t, e))
      BY <2>2, EarliestKept
    <2>5. Undelivered' = Undelivered /\ \A t \in Transaction : t \in Undelivered => Unsettled(t)
      BY <2>1 DEF Undelivered, Unsettled, conflicts
    <2>6. UNCHANGED <<confirmation, announcing, bornRejected>>
      BY <2>1 DEF conflicts
    <2>7. Open(e)' = Open(e)
      BY <2>4, <2>5, <2>6 DEF Open, Unsettled
    <2>8. Owing(e)' = Owing(e)
      BY <1>0, <2>4, <2>5, <2>6 DEF Owing, Unsettled, Decided
    <2> QED
      BY <2>1, <2>3, <2>7, <2>8, CounterStays
  <1>2. ASSUME NEW t \in Transaction, CreateConflict(t) PROVE CounterShows(e)'
    <2>1. /\ \A c \in Transaction : c # t => confirmation'[c] = confirmation[c]
          /\ confirmation[t] = "none" /\ announcing' = announcing \union {t}
          /\ \/ confirmation'[t] = "Pending" /\ bornRejected' = bornRejected
             \/ confirmation'[t] = "Rejected" /\ bornRejected' = bornRejected \union {t}
          /\ UNCHANGED <<deciding, attachments, pendingConflictsCounters, latestCommitment>>
      BY <1>0, <1>2 DEF CreateConflict, committed, attached
    <2>2. Undelivered' = Undelivered /\ \A c \in Transaction : CountsFor(c, e)' <=> CountsFor(c, e)
      BY <2>1 DEF Undelivered, CountsFor, GetEarliestAttachment
    <2>3. t \notin Undelivered /\ t \notin bornRejected /\ t \notin announcing
      BY <2>1 DEF EventsInv, Undelivered, Decided
    <2>4. Open(e)' = Open(e)
      <3>1. t \notin Open(e) /\ t \notin Open(e)'
        BY <2>1, <2>3 DEF Open
      <3>2. \A c \in Transaction : c # t => (c \in Open(e)' <=> c \in Open(e))
        BY <2>1, <2>2 DEF Open
      <3>3. Open(e) \subseteq Transaction /\ Open(e)' \subseteq Transaction
        BY DEF Open
      <3> QED
        BY <3>1, <3>2, <3>3
    <2>5. Owing(e)' = Owing(e)
      <3>1. t \notin Owing(e) /\ t \notin Owing(e)'
        BY <2>1, <2>3 DEF Owing, Decided
      <3>2. \A c \in Transaction : c # t => (c \in Owing(e)' <=> c \in Owing(e))
        BY <2>1, <2>2 DEF Owing, Decided
      <3>3. Owing(e) \subseteq Transaction /\ Owing(e)' \subseteq Transaction
        BY <1>0, <2>1 DEF Owing
      <3> QED
        BY <3>1, <3>2, <3>3
    <2> QED
      BY <1>shows, <2>1, <2>4, <2>5, CounterStays
  <1>3. ASSUME NEW t \in Transaction, AnnounceConflict(t) PROVE CounterShows(e)'
    <2>1. /\ UNCHANGED <<confirmation, bornRejected, deciding, attachments, latestCommitment>>
          /\ t \in announcing /\ announcing' = announcing \ {t}
      BY <1>3 DEF AnnounceConflict, committed, attached
    <2>2. Undelivered' = Undelivered /\ \A c \in Transaction : CountsFor(c, e)' <=> CountsFor(c, e)
      BY <2>1 DEF Undelivered, CountsFor, GetEarliestAttachment
    <2>3. confirmation[t] \in {"Pending", "Accepted", "Rejected"}
      BY <1>0, <2>1 DEF EventsInv
    <2>4. CounterShows(e) /\ e > latestCommitment
      BY <1>shows, <2>1
    <2>5. CASE CountsFor(t, e)
      <3>1. attachments[t] # {} /\ GetEarliestAttachment(t) = e
        BY <2>5 DEF CountsFor
      <3>2. pendingConflictsCounters' =
              [pendingConflictsCounters EXCEPT ![e] = (pendingConflictsCounters[e] + 1) % CounterSize]
        BY <1>0, <1>3, <2>4, <3>1 DEF AnnounceConflict
      <3>3. pendingConflictsCounters'[e] = (pendingConflictsCounters[e] + 1) % CounterSize
        BY <1>0, <3>2
      <3>4. CASE confirmation[t] = "Pending" \/ t \in bornRejected \union Undelivered
        <4>1. t \notin Open(e) /\ Open(e)' = Open(e) \union {t}
          BY <2>1, <2>2, <2>5, <3>4 DEF Open
        <4>2. Owing(e)' = Owing(e)
          BY <1>0, <2>1, <2>2, <3>4 DEF Owing, Decided
        <4> QED
          BY <1>type, <2>4, <3>3, <4>1, <4>2, CounterIncreases
      <3>5. CASE ~(confirmation[t] = "Pending" \/ t \in bornRejected \union Undelivered)
        <4>1. t \in Owing(e) /\ Owing(e)' = Owing(e) \ {t}
          BY <1>0, <2>1, <2>2, <2>3, <2>5, <3>5 DEF Owing, Decided
        <4>2. Open(e)' = Open(e)
          BY <2>1, <2>2, <3>5 DEF Open
        <4> QED
          BY <1>type, <2>4, <3>3, <4>1, <4>2, CounterIncreases
      <3> QED
        BY <3>4, <3>5
    <2>6. CASE ~CountsFor(t, e)
      <3>1. Open(e)' = Open(e) /\ Owing(e)' = Owing(e)
        BY <1>0, <2>1, <2>2, <2>6 DEF Open, Owing, Decided
      <3>2. attachments[t] # {} => GetEarliestAttachment(t) # e
        BY <2>6 DEF CountsFor
      <3>3. pendingConflictsCounters'[e] = pendingConflictsCounters[e]
        BY <1>0, <1>3, <3>2 DEF AnnounceConflict
      <3> QED
        BY <2>4, <3>1, <3>3, CounterStays
    <2> QED
      BY <2>5, <2>6
  <1>4. ASSUME NEW t \in Transaction, AcceptConflict(t) PROVE CounterShows(e)'
    <2>1. /\ deciding = <<>>
          /\ \A c \in Undelivered' : confirmation[c] = "Pending" /\ Decided(c)'
          /\ \A c \in Transaction : c \notin Undelivered' => confirmation'[c] = confirmation[c]
          /\ UNCHANGED <<bornRejected, announcing>>
      BY <1>4, DecisionsHaveEvents
    <2>2. UNCHANGED <<attachments, pendingConflictsCounters, latestCommitment>>
      BY <1>4 DEF AcceptConflict, committed, attached
    <2>3. Undelivered = {} /\ \A c \in Transaction : CountsFor(c, e)' <=> CountsFor(c, e)
      BY <2>1, <2>2 DEF Undelivered, CountsFor, GetEarliestAttachment
    <2>4. Open(e)' = Open(e)
      BY <2>1, <2>3 DEF Open, Decided
    <2>5. Owing(e)' = Owing(e)
      BY <1>0, <2>1, <2>3 DEF Owing, Decided
    <2> QED
      BY <1>shows, <2>2, <2>4, <2>5, CounterStays
  <1>5. CASE DecreaseConflictsCounter
    <2> DEFINE t == Head(deciding)
    <2>1. /\ UNCHANGED <<confirmation, bornRejected, announcing, attachments, latestCommitment>>
      BY <1>5 DEF DecreaseConflictsCounter, committed, attached
    <2>2. /\ t \in Undelivered \ bornRejected /\ t \in Transaction /\ Decided(t)
          /\ Undelivered' = Undelivered \ {t}
      BY <1>5, EventLeaves
    <2>3. \A c \in Transaction : CountsFor(c, e)' <=> CountsFor(c, e)
      BY <2>1 DEF CountsFor, GetEarliestAttachment
    <2>4. CounterShows(e) /\ e > latestCommitment
      BY <1>shows, <2>1
    <2>5. confirmation[t] # "Pending"
      BY <2>2 DEF Decided
    <2>6. IF attachments[t] = {} \/ GetEarliestAttachment(t) <= latestCommitment
          THEN UNCHANGED pendingConflictsCounters
          ELSE pendingConflictsCounters' = [pendingConflictsCounters EXCEPT
                 ![GetEarliestAttachment(t)] = (pendingConflictsCounters[GetEarliestAttachment(t)] - 1) % CounterSize]
      BY <1>5 DEF DecreaseConflictsCounter, Decreased
    <2> HIDE DEF t
    <2>7. CASE CountsFor(t, e)
      <3>1. attachments[t] # {} /\ GetEarliestAttachment(t) = e
        BY <2>7 DEF CountsFor
      <3>2. pendingConflictsCounters'[e] = (pendingConflictsCounters[e] - 1) % CounterSize
        BY <1>0, <2>4, <2>6, <3>1
      <3>3. CASE t \in announcing
        <4>1. t \notin Owing(e) /\ Owing(e)' = Owing(e) \union {t}
          BY <1>0, <2>1, <2>2, <2>3, <2>7, <3>3 DEF Owing, Decided
        <4>2. Open(e)' = Open(e)
          BY <2>1, <2>2, <2>3, <3>3 DEF Open
        <4> QED
          BY <1>type, <2>4, <3>2, <4>1, <4>2, CounterDecreases
      <3>4. CASE t \notin announcing
        <4>1. t \in Open(e) /\ Open(e)' = Open(e) \ {t}
          BY <2>1, <2>2, <2>3, <2>5, <2>7, <3>4 DEF Open
        <4>2. Owing(e)' = Owing(e)
          BY <1>0, <2>1, <2>2, <2>3, <3>4 DEF Owing, Decided
        <4> QED
          BY <1>type, <2>4, <3>2, <4>1, <4>2, CounterDecreases
      <3> QED
        BY <3>3, <3>4
    <2>8. CASE ~CountsFor(t, e)
      <3>1. Open(e)' = Open(e) /\ Owing(e)' = Owing(e)
        BY <1>0, <2>1, <2>2, <2>3, <2>8 DEF Open, Owing, Decided
      <3>2. attachments[t] # {} => GetEarliestAttachment(t) # e
        BY <2>8 DEF CountsFor
      <3>3. pendingConflictsCounters'[e] = pendingConflictsCounters[e]
        BY <1>0, <2>6, <3>2
      <3> QED
        BY <2>4, <3>1, <3>3, CounterStays
    <2> QED
      BY <2>7, <2>8
  <1> QED
    BY <1>1, <1>2, <1>3, <1>4, <1>5, NextOrElsewhere


(* A counter of 0 hides a pending conflict only behind a decided one whose *)
(* ConflictCreated is still to come.                                       *)
LEMMA ZeroCounter ==
  ASSUME TypeOK, WideCounters, NEW e \in Epoch, CounterShows(e), pendingConflictsCounters[e] = 0,
         Open(e) # {}
  PROVE  \E s \in announcing : CountsFor(s, e) /\ Decided(s)
  <1>1. /\ IsFiniteSet(Open(e)) /\ Cardinality(Open(e)) \in Nat
        /\ IsFiniteSet(Owing(e)) /\ Cardinality(Owing(e)) \in Nat
        /\ Cardinality(Owing(e)) < CounterSize /\ CounterSize \in Nat
    BY OpenAndOwing, NotarizationConstants
  <1>2. Cardinality(Open(e)) # 0
    BY <1>1, FS_EmptySet
  <1>3. Cardinality(Owing(e)) # 0
    BY <1>1, <1>2 DEF CounterShows, Balance
  <1>4. Owing(e) # {}
    BY <1>3, FS_EmptySet
  <1> QED
    BY <1>4 DEF Owing

(* While an epoch is being committed, what was true of its conflicts when  *)
(* the counters were looked at stays true.                                 *)
LEMMA CommittingStep ==
  ASSUME WideCounters
  PROVE  /\ TypeOK /\ CommitInv /\ CounterInv /\ EventsInv /\ AttachedInv /\ CommittingInv
         /\ [Next]_vars /\ [EarliestStays]_vars
         => CommittingInv'
  <1> SUFFICES ASSUME TypeOK, CommitInv, CounterInv, EventsInv, AttachedInv, CommittingInv,
                      [Next]_vars, [EarliestStays]_vars,
                      committing'.at \notin {"idle", "check"}, NEW t \in Transaction,
                      confirmation'[t] = "Pending", t \notin announcing', CountsFor(t, committing.epoch)'
               PROVE  \E s \in announcing' : CountsFor(s, committing.epoch)' /\ Decided(s)'
    BY DEF CommittingInv
  <1>0. /\ MaxTime \in Nat /\ latestCommitment \in Nat /\ committing \in Holders
        /\ confirmation \in [Transaction -> {"none", "Pending", "Accepted", "Rejected"}]
        /\ announcing \subseteq Transaction
    <2>1. /\ latestCommitment \in Epoch /\ committing \in Holders
          /\ confirmation \in [Transaction -> {"none", "Pending", "Accepted", "Rejected"}]
          /\ announcing \subseteq Transaction
      BY DEF TypeOK, Holders
    <2>2. MaxTime \in Nat
      BY NotarizationConstants
    <2> QED
      BY <2>1, <2>2 DEF Epoch
  <1>kept. ASSUME NEW c \in Transaction, Unsettled(c), committing'.epoch = committing.epoch,
                  committing.epoch \in Epoch, committing.at # "idle"
           PROVE  CountsFor(c, committing.epoch)' <=> CountsFor(c, committing.epoch)
    <2> DEFINE e == committing.epoch
    <2>1. e = latestCommitment + 1
      BY <1>kept DEF CommitInv
    <2>2. e > latestCommitment
      BY <1>0, <2>1
    <2>3. (attachments'[c] # {} /\ Min(attachments'[c]) = e) <=> (attachments[c] # {} /\ Min(attachments[c]) = e)
      <3> HIDE DEF e
      <3>1. e \in Epoch
        BY <1>kept DEF e
      <3>2. PICK f \in Epoch : f = e
        BY <3>1
      <3>3. f > latestCommitment
        BY <2>2, <3>2
      <3>4. CountsFor(c, f)' <=> CountsFor(c, f)
        BY <1>kept, <3>3, EarliestKept
      <3> QED
        BY <3>2, <3>4 DEF CountsFor, GetEarliestAttachment
    <2> QED
      BY <1>kept, <2>3 DEF CountsFor, GetEarliestAttachment
  <1>old. ASSUME confirmation[t] = "Pending", t \notin announcing,
                 committing.at \notin {"idle", "check"}, committing'.epoch = committing.epoch
          PROVE  \E s \in announcing : CountsFor(s, committing.epoch)' /\ Decided(s)
    <2>1. committing.epoch \in Epoch /\ committing.at # "idle"
      BY <1>old DEF CommitInv
    <2>2. CountsFor(t, committing.epoch)
      BY <1>old, <1>kept, <2>1 DEF Unsettled
    <2>3. PICK s \in announcing : CountsFor(s, committing.epoch) /\ Decided(s)
      BY <1>old, <2>2, Zenon DEF CommittingInv
    <2>4. CountsFor(s, committing.epoch)'
      BY <1>0, <1>old, <1>kept, <2>1, <2>3 DEF Unsettled
    <2> QED
      BY <2>3, <2>4
  <1>1. ASSUME UNCHANGED conflicts, committing.at \notin {"idle", "check"}, committing'.epoch = committing.epoch
        PROVE  \E s \in announcing' : CountsFor(s, committing.epoch)' /\ Decided(s)'
    <2>1. UNCHANGED <<confirmation, announcing>>
      BY <1>1 DEF conflicts
    <2>2. PICK s \in announcing : CountsFor(s, committing.epoch)' /\ Decided(s)
      BY <1>old, <1>1, <2>1
    <2> QED
      BY <2>1, <2>2 DEF Decided
  <1>2. CASE TryCommitEpoch
    <2>1. IsCommittable(committing.epoch) /\ committing.at = "check"
      BY <1>2 DEF TryCommitEpoch, Idle
    <2>2. committing' = [committing EXCEPT !.at = "state"]
      BY <1>2, <2>1 DEF TryCommitEpoch
    <2>3. committing'.epoch = committing.epoch
      BY <1>0, <2>2 DEF Holders
    <2>4. committing.epoch = latestCommitment + 1
      BY <2>1 DEF CommitInv
    <2>5. committing.epoch \in Epoch
      <3>1. /\ committing.time \in 0..MaxTime /\ committing.time - committing.epoch >= MinCommittableEpochAge
            /\ MinCommittableEpochAge \in Nat
        BY <2>1, NotarizationConstants DEF IsCommittable, CommitInv, Epoch
      <3> QED
        BY <1>0, <2>4, <3>1 DEF Epoch
    <2>6. pendingConflictsCounters[committing.epoch] = 0
      <3>1. committing.epoch \in latestCommitment..committing.epoch
        BY <1>0, <2>4
      <3> QED
        BY <2>1, <3>1 DEF IsCommittable, HasNoPendingConflicts
    <2>7. CounterShows(committing.epoch)
      <3>1. committing.epoch > latestCommitment
        BY <1>0, <2>4
      <3> QED
        BY <2>5, <3>1 DEF CounterInv, CounterShows
    <2>8. UNCHANGED <<confirmation, announcing, attachments>>
      BY <1>2 DEF TryCommitEpoch, conflicts, attached
    <2>9. \A c : CountsFor(c, committing.epoch)' <=> CountsFor(c, committing.epoch)
      BY <2>3, <2>8 DEF CountsFor, GetEarliestAttachment
    <2>10. t \in Open(committing.epoch)
      BY <2>8, <2>9 DEF Open
    <2>11. PICK s \in announcing : CountsFor(s, committing.epoch) /\ Decided(s)
      BY <2>5, <2>6, <2>7, <2>10, ZeroCounter
    <2> QED
      BY <2>8, <2>9, <2>11 DEF Decided
  <1>3. CASE ApplyStateDiff
    BY <1>0, <1>1, <1>3 DEF ApplyStateDiff, Holders
  <1>4. CASE EvictMutations
    <2>1. committing' = [committing EXCEPT !.at = "attestations",
                           !.transactions = {s \in acceptedTransactions : InclusionEpoch[s] = committing.epoch}]
      BY <1>4 DEF EvictMutations, Idle
    <2>2. committing'.epoch = committing.epoch /\ committing.at = "mutations" /\ UNCHANGED conflicts
      BY <1>0, <1>4, <2>1 DEF EvictMutations, Holders
    <2> QED
      BY <1>1, <2>2
  <1>5. CASE CommitAttestations
    <2>1. committing' = [committing EXCEPT !.at = "commitment"]
      BY <1>5 DEF CommitAttestations, Idle
    <2>2. committing'.epoch = committing.epoch /\ committing.at = "attestations" /\ UNCHANGED conflicts
      BY <1>0, <1>5, <2>1 DEF CommitAttestations, Holders
    <2> QED
      BY <1>1, <2>2
  <1>6. CASE SetLatestCommitment
    BY <1>0, <1>6 DEF SetLatestCommitment, Holders
  <1>7. CASE SetAcceptanceTime
    <2>1. committing'.at = "idle" \/ committing'.at = "check"
      BY <1>7 DEF SetAcceptanceTime, Idle
    <2> QED
      BY <2>1
  <1>8. CASE DecreaseConflictsCounter
    <2>1. committing.at = "idle"
      BY <1>8 DEF DecreaseConflictsCounter, MutexFree
    <2>2. CASE UNCHANGED committing
      BY <2>1, <2>2
    <2>3. CASE committing' = Idle
      BY <2>3 DEF Idle
    <2>4. CASE committing' = [Idle EXCEPT !.at = "check", !.epoch = latestCommitment + 1,
                 !.until = GetEarliestAttachment(Head(deciding)), !.time = acceptanceTime, !.locks = TRUE]
      BY <2>4 DEF Idle
    <2> QED
      BY <1>8, <2>2, <2>3, <2>4 DEF DecreaseConflictsCounter
  <1>9. CASE EvictAttachments \/ UNCHANGED vars
    BY <1>1, <1>9 DEF EvictAttachments, vars
  <1>10. ASSUME NEW c \in Transaction,
                \/ \E e \in AttachmentEpochs[c] : Attach(c, e)
                \/ SetTransactionInclusionEpoch(c) \/ PropagateAcceptance(c)
                \/ StoreStateDiff(c) \/ AddAcceptedTransaction(c)
         PROVE  UNCHANGED <<conflicts, committing>>
    BY <1>10 DEF Attach, SetTransactionInclusionEpoch, PropagateAcceptance, StoreStateDiff,
                AddAcceptedTransaction
  <1>11. ASSUME NEW c \in Transaction, AnnounceConflict(c)
         PROVE  FALSE
    BY <1>11 DEF AnnounceConflict, MutexFree
  <1>12. ASSUME NEW c \in Transaction, CreateConflict(c)
         PROVE  \E s \in announcing' : CountsFor(s, committing.epoch)' /\ Decided(s)'
    <2>1. /\ \A s \in Transaction : s # c => confirmation'[s] = confirmation[s]
          /\ confirmation[c] = "none" /\ announcing' = announcing \union {c}
          /\ committing' = committing
      BY <1>0, <1>12 DEF CreateConflict
    <2>2. confirmation[t] = "Pending" /\ t \notin announcing
      BY <2>1
    <2>4. PICK s \in announcing : CountsFor(s, committing.epoch)' /\ Decided(s)
      BY <1>old, <2>1, <2>2
    <2>5. s # c /\ s \in Transaction
      BY <1>0, <2>1, <2>4 DEF Decided
    <2> QED
      BY <2>1, <2>4, <2>5 DEF Decided
  <1>13. ASSUME NEW c \in Transaction, AcceptConflict(c)
         PROVE  \E s \in announcing' : CountsFor(s, committing.epoch)' /\ Decided(s)'
    <2>1. /\ \A s \in Undelivered' : confirmation[s] = "Pending" /\ Decided(s)'
          /\ \A s \in Transaction : s \notin Undelivered' => confirmation'[s] = confirmation[s]
          /\ UNCHANGED announcing
      BY <1>13, DecisionsHaveEvents
    <2>2. committing' = committing
      BY <1>13 DEF AcceptConflict
    <2>3. confirmation[t] = "Pending" /\ t \notin announcing
      BY <2>1 DEF Decided
    <2>4. PICK s \in announcing : CountsFor(s, committing.epoch)' /\ Decided(s)
      BY <1>old, <2>2, <2>3
    <2>5. s \in Transaction /\ s \notin Undelivered'
      BY <2>1, <2>4 DEF Decided, TypeOK
    <2> QED
      BY <2>1, <2>4, <2>5 DEF Decided
  <1>14. CASE UNCHANGED <<conflicts, committing>>
    BY <1>1, <1>14
  <1> QED
    BY <1>2, <1>3, <1>4, <1>5, <1>6, <1>7, <1>8, <1>9, <1>10, <1>11, <1>12, <1>13, <1>14
       DEF Next, Proceed, CreateCommitment

(* The inductive invariant of the counters.                                *)
PendingInv == EventsInv /\ AttachedInv /\ CounterInv /\ CommittingInv

(* It holds in every reachable state.                                      *)
LEMMA PendingInductive ==
  ASSUME WideCounters
  PROVE  Spec /\ [][EarliestStays]_vars => [](TypeOK /\ CommitInv /\ PendingInv)
  <1>1. Init => PendingInv
    <2> SUFFICES ASSUME Init PROVE PendingInv
      OBVIOUS
    <2>1. Len(deciding) = 0 /\ \A t \in Transaction : confirmation[t] = "none" /\ attachments[t] = {}
      BY DEF Init
    <2>2. EventsInv /\ CommittingInv
      BY <2>1 DEF Init, Idle, EventsInv, CommittingInv
    <2>3. AttachedInv
      BY DEF Init, AttachedInv
    <2>4. \A e \in Epoch : Open(e) = {} /\ Owing(e) = {} /\ pendingConflictsCounters[e] = 0
      BY <2>1 DEF Open, Owing, CountsFor, Init
    <2>5. CounterInv
      BY <2>4, FS_EmptySet DEF CounterInv, Balance
    <2> QED
      BY <2>2, <2>3, <2>5 DEF PendingInv
  <1>2. TypeOK /\ CommitInv /\ PendingInv /\ [Next]_vars /\ [EarliestStays]_vars => PendingInv'
    BY EventsStep, AttachedStep, CounterStep, CommittingStep DEF PendingInv
  <1> QED
    BY <1>1, <1>2, Inductive, PTL DEF Spec

(* An epoch is not committed over the head of a pending conflict that      *)
(* counts for it, unless a decided conflict of the epoch is still to be    *)
(* announced: while the earliest attachments of conflicts stay what they   *)
(* are, whatever is attached again later, HasNoPendingConflicts sees the   *)
(* balance of what is open and what is owed, although the counters wrap,   *)
(* the events trail the decisions and the commitments take several steps   *)
(* (manager.go, engine.go).                                                *)
THEOREM PendingConflictsBlockCommitments ==
  ASSUME WideCounters
  PROVE  Spec /\ [][EarliestStays]_vars => NoPendingConflictCommitted
  <1> DEFINE Allowed ==
        \A t \in Transaction :
          /\ latestCommitment' # latestCommitment
          /\ confirmation[t] = "Pending" /\ t \notin announcing
          /\ CountsFor(t, latestCommitment')
          => \E s \in announcing : CountsFor(s, latestCommitment') /\ confirmation[s] # "Pending"
  <1>1. TypeOK /\ CommitInv /\ PendingInv /\ [Next]_vars => [Allowed]_vars
    <2> SUFFICES ASSUME TypeOK, CommitInv, PendingInv, [Next]_vars, NEW t \in Transaction,
                        latestCommitment' # latestCommitment,
                        confirmation[t] = "Pending", t \notin announcing,
                        CountsFor(t, latestCommitment')
                 PROVE  \E s \in announcing :
                          CountsFor(s, latestCommitment') /\ confirmation[s] # "Pending"
      OBVIOUS
    <2>1. SetLatestCommitment
      <3>1. CASE Elsewhere
        <4>1. latestCommitment' = latestCommitment \/ SetLatestCommitment
          BY <3>1, ElsewhereLeavesCounters
        <4> QED
          BY <4>1
      <3>2. ASSUME NEW c \in Transaction,
                   \/ CreateConflict(c) \/ AnnounceConflict(c) \/ AcceptConflict(c)
                   \/ DecreaseConflictsCounter
            PROVE  FALSE
        BY <3>2 DEF CreateConflict, AnnounceConflict, AcceptConflict, DecreaseConflictsCounter, committed
      <3> QED
        BY <3>1, <3>2, NextOrElsewhere
    <2>2. latestCommitment' = committing.epoch /\ committing.at = "commitment"
      BY <2>1 DEF SetLatestCommitment
    <2>3. CountsFor(t, committing.epoch)
      BY <2>2
    <2>4. PICK s \in announcing : CountsFor(s, committing.epoch) /\ Decided(s)
      BY <2>2, <2>3 DEF PendingInv, CommittingInv
    <2> QED
      BY <2>2, <2>4 DEF Decided
  <1>2. NoPendingConflictCommitted <=> [][Allowed]_vars
    BY DEF NoPendingConflictCommitted
  <1> HIDE DEF Allowed
  <1> QED
    BY <1>1, <1>2, PendingInductive, PTL DEF Spec


(* The counter of an epoch that is not committed is the number of its      *)
(* conflicts that are added and not subtracted less the number of those    *)
(* that are subtracted and not added, modulo 2^64: what wrapped around     *)
(* below 0 while a decision overtook its announcement comes back with the  *)
(* announcement (manager.go).                                              *)
THEOREM CountersAreBalances ==
  ASSUME WideCounters
  PROVE  Spec /\ [][EarliestStays]_vars => []CounterInv
  <1>1. PendingInv => CounterInv
    BY DEF PendingInv
  <1> QED
    BY <1>1, PendingInductive, PTL
=============================================================================
