----------------------------- MODULE ConflictDAG -----------------------------
(***************************************************************************)
(* The ConflictDAG of the ledger (packages/protocol/ledger/conflictdag):   *)
(* the conflicts a node knows, the conflict sets they compete in, the      *)
(* parents they depend on, and the confirmation state of each.             *)
(*                                                                         *)
(* Every operation runs under the lock of the ConflictDAG, so each is one  *)
(* action.  CreateConflict and SetConflictAccepted take the write lock;    *)
(* UpdateConflictParents and UpdateConflictingResources hold only the read *)
(* lock, but the caller (packages/protocol/ledger/booker.go) holds the     *)
(* DAGMutex of the transaction whose conflict it updates, so two updates   *)
(* of one conflict never overlap.                                          *)
(***************************************************************************)
EXTENDS Naturals

CONSTANTS ConflictID,  \* identifiers of conflicts (transaction ids)
          ResourceID   \* identifiers of conflict sets (the contested outputs)

VARIABLES confirmationState,  \* confirmation.State of each conflict
          parents,            \* the conflicts that a conflict depends on
          conflictSetIDs,     \* the conflict sets that a conflict is part of
          members,            \* ConflictMember references: set -> conflicts
          children            \* ChildConflict references: parent -> children

vars == <<confirmationState, parents, conflictSetIDs, members, children>>

(* confirmation.Undefined is the zero value that reading a conflict that   *)
(* is not stored yields; the ConflictDAG itself never sets Confirmed.      *)
Undefined == "Undefined"
Rejected  == "Rejected"
Pending   == "Pending"
Accepted  == "Accepted"

Exists(id) == confirmationState[id] # Undefined

IsAccepted(id) == confirmationState[id] = Accepted
IsRejected(id) == confirmationState[id] = Rejected

-----------------------------------------------------------------------------
(* What the walkers visit: the smallest set that holds the starting        *)
(* elements and, with an element, its successors.                          *)
Closure(start, successors) ==
  LET near == start \union UNION {successors[x] : x \in ConflictID}
  IN  {c \in near :
         \A S \in SUBSET near :
            start \subseteq S /\ (\A x \in S : successors[x] \subseteq S) => c \in S}

(* The other members of the conflict sets that a conflict is part of.      *)
Conflicting(id) ==
  {c \in ConflictID \ {id} : \E r \in conflictSetIDs[id] : c \in members[r]}

(* Mutant of NewlyAccepted: no walk.                                       *)
NewlyAccepted_NoWalk(id) == {c \in {id} : ~IsAccepted(c)}

(* The conflicts that SetConflictAccepted(id) turns Accepted: the walk     *)
(* continues with the parents of every conflict that was not Accepted.     *)
NewlyAccepted(id) ==
  Closure({id} \ {c \in ConflictID : IsAccepted(c)},
          [c \in ConflictID |-> {p \in parents[c] : ~IsAccepted(p)}])

(* Mutants of NewlyRejected: only the competitors of the named conflict;   *)
(* no walk to the children.                                                *)
NewlyRejected_OnlyOwnCompetitors(id) ==
  Closure({c \in Conflicting(id) : ~IsRejected(c)},
          [c \in ConflictID |-> {d \in children[c] : ~IsRejected(d)}])

NewlyRejected_NoWalk(id) == UNION {Conflicting(c) : c \in NewlyAccepted(id)}

(* The conflicts that SetConflictAccepted(id) turns Rejected afterwards:   *)
(* the walk starts at everything that conflicts with a newly accepted      *)
(* conflict and continues with the children of every conflict that was     *)
(* not Rejected by then.                                                   *)
NewlyRejected(id) ==
  LET accepted == NewlyAccepted(id)
      stays    == {c \in ConflictID : IsRejected(c) /\ c \notin accepted}
  IN  Closure((UNION {Conflicting(c) : c \in accepted}) \ stays,
              [c \in ConflictID |-> children[c] \ stays])

(* UnconfirmedConflicts with mergeToMaster, the default.                   *)
UnconfirmedConflicts(ids) == {c \in ids : ~IsAccepted(c)}

(* Mutant of RejectedAtCreation: the parents are not looked at.            *)
RejectedAtCreation_IgnoresParents(id, parentIDs, resourceIDs) ==
  \E r \in resourceIDs : \E c \in members[r] \ {id} : IsAccepted(c)

(* anyParentRejected and anyConflictingConflictAccepted, for the conflict  *)
(* that is being created.                                                  *)
RejectedAtCreation(id, parentIDs, resourceIDs) ==
  \/ \E p \in parentIDs : IsRejected(p)
  \/ \E r \in resourceIDs : \E c \in members[r] \ {id} : IsAccepted(c)
-----------------------------------------------------------------------------
(* Mutant of CreateConflict: the two sets of identifiers are swapped.      *)
CreateConflict_SwappedSets(id, parentIDs, resourceIDs) ==
  /\ ~Exists(id)
  /\ conflictSetIDs' = [conflictSetIDs EXCEPT ![id] = parentIDs]
  /\ parents' = [parents EXCEPT ![id] = resourceIDs]
  /\ confirmationState' = [confirmationState EXCEPT ![id] = Pending]
  /\ UNCHANGED <<members, children>>

(* Registers a conflict that is not stored yet.                            *)
CreateConflict(id, parentIDs, resourceIDs) ==
  /\ ~Exists(id)
  /\ conflictSetIDs' = [conflictSetIDs EXCEPT ![id] = resourceIDs]
  /\ members' = [r \in ResourceID |->
                   IF r \in resourceIDs THEN members[r] \union {id} ELSE members[r]]
  /\ parents' = [parents EXCEPT ![id] = parentIDs]
  /\ children' = [p \in ConflictID |->
                    IF p \in parentIDs THEN children[p] \union {id} ELSE children[p]]
  /\ confirmationState' =
       [confirmationState EXCEPT ![id] =
          IF RejectedAtCreation(id, parentIDs, resourceIDs) THEN Rejected ELSE Pending]

(* Mutant of UpdateConflictParents: the references from the removed        *)
(* parents stay behind.                                                    *)
UpdateConflictParents_KeepsReferences(id, removedIDs, addedID) ==
  /\ Exists(id)
  /\ addedID \notin parents[id]
  /\ parents' = [parents EXCEPT ![id] = (@ \union {addedID}) \ removedIDs]
  /\ children' = [children EXCEPT ![addedID] = @ \union {id}]
  /\ UNCHANGED <<confirmationState, conflictSetIDs, members>>

(* Puts the forked conflict addedID between a conflict and the parents     *)
(* removedIDs that the forked conflict now represents.                     *)
UpdateConflictParents(id, removedIDs, addedID) ==
  /\ Exists(id)
  /\ addedID \notin parents[id]
  /\ UNCHANGED <<confirmationState, conflictSetIDs, members>>
  /\ parents' = [parents EXCEPT ![id] = (@ \union {addedID}) \ removedIDs]
  /\ children' = [p \in ConflictID |->
                    IF p = addedID THEN children[p] \union {id}
                    ELSE IF p \in removedIDs \intersect parents[id]
                         THEN children[p] \ {id}
                         ELSE children[p]]

(* Adds a stored conflict to further conflict sets.                        *)
UpdateConflictingResources(id, resourceIDs) ==
  /\ Exists(id)
  /\ UNCHANGED <<confirmationState, parents, children>>
  /\ conflictSetIDs' = [conflictSetIDs EXCEPT ![id] = @ \union resourceIDs]
  /\ members' = [r \in ResourceID |->
                   IF r \in resourceIDs \ conflictSetIDs[id]
                   THEN members[r] \union {id} ELSE members[r]]

(* Accepts a conflict and its past cone and rejects whatever conflicts     *)
(* with what was accepted, with its future cone.                           *)
SetConflictAccepted(id) ==
  /\ Exists(id)
  /\ UNCHANGED <<parents, conflictSetIDs, members, children>>
  /\ LET accepted == NewlyAccepted(id)
         rejected == NewlyRejected(id)
     IN  confirmationState' =
           [c \in ConflictID |->
              IF c \in rejected THEN Rejected
              ELSE IF c \in accepted THEN Accepted
                   ELSE confirmationState[c]]
-----------------------------------------------------------------------------
Init ==
  /\ confirmationState = [c \in ConflictID |-> Undefined]
  /\ parents = [c \in ConflictID |-> {}]
  /\ conflictSetIDs = [c \in ConflictID |-> {}]
  /\ members = [r \in ResourceID |-> {}]
  /\ children = [c \in ConflictID |-> {}]

Stored == {c \in ConflictID : Exists(c)}

(* A transaction depends on outputs of transactions that are booked        *)
(* already, so the parents of a new conflict are stored conflicts, and a   *)
(* conflict competes for at least one resource.                            *)
Create ==
  \E id \in ConflictID, parentIDs \in SUBSET Stored, resourceIDs \in (SUBSET ResourceID) \ {{}} :
     CreateConflict(id, parentIDs, resourceIDs)

(* Mutant of ForkParents: the fork also reaches its own past cone.         *)
ForkParents_ReachesPastCone ==
  \E id, addedID \in Stored : \E removedIDs \in SUBSET (ConflictID \ {addedID}) :
     UpdateConflictParents(id, removedIDs, addedID)

(* A fork moves a conflict below addedID, which lies in its past cone: it  *)
(* is neither the conflict itself nor one of its descendants, and it does  *)
(* not replace itself.                                                     *)
ForkParents ==
  \E id, addedID \in Stored : \E removedIDs \in SUBSET (ConflictID \ {addedID}) :
     /\ UpdateConflictParents(id, removedIDs, addedID)
     /\ addedID \notin Closure({id}, children)

(* What a fork must guarantee when it adds a conflict to another conflict  *)
(* set: not both the conflict and a member of that set are Accepted.  The  *)
(* ledger gives this guarantee by joining the first consumer of an output  *)
(* to its conflict set before a second consumer of the output is booked,   *)
(* and hence before that second consumer can be accepted.                  *)
ForkResources ==
  \E id \in Stored, resourceIDs \in (SUBSET ResourceID) \ {{}} :
     /\ IsAccepted(id) => \A r \in resourceIDs : \A c \in members[r] \ {id} : ~IsAccepted(c)
     /\ UpdateConflictingResources(id, resourceIDs)

Accept == \E id \in Stored : SetConflictAccepted(id)

Next == Accept \/ ForkResources \/ ForkParents \/ Create

Spec == Init /\ [][Next]_vars

(* Without forks: every conflict is created with all the parents and all   *)
(* the conflict sets that it will ever have.                               *)
UnforkedNext == Create \/ Accept

UnforkedSpec == Init /\ [][UnforkedNext]_vars
-----------------------------------------------------------------------------
(* Type invariant.                                                         *)
TypeOK ==
  /\ confirmationState \in [ConflictID -> {Undefined, Rejected, Pending, Accepted}]
  /\ parents \in [ConflictID -> SUBSET ConflictID]
  /\ conflictSetIDs \in [ConflictID -> SUBSET ResourceID]
  /\ members \in [ResourceID -> SUBSET ConflictID]
  /\ children \in [ConflictID -> SUBSET ConflictID]

(* The two stored directions of each reference agree: the ChildConflict    *)
(* references are the parents read backwards, the ConflictMember           *)
(* references are the conflict sets read backwards, and only stored        *)
(* conflicts are referenced.  SetConflictAccepted accepts along one        *)
(* direction and rejects along the other, so a reference that a fork       *)
(* forgets to move makes a conflict miss its rejection.                    *)
ReferencesMirrored ==
  /\ \A p, c \in ConflictID : c \in children[p] <=> p \in parents[c]
  /\ \A r \in ResourceID, c \in ConflictID : c \in members[r] <=> r \in conflictSetIDs[c]
  /\ \A c \in ConflictID : parents[c] # {} \/ conflictSetIDs[c] # {} => Exists(c)
  /\ \A c \in ConflictID : parents[c] \subseteq Stored

(* Forks keep the conflicts a DAG: no conflict is in its own future cone.  *)
Acyclic == \A c \in ConflictID : c \notin Closure(children[c], children)

(* The double spend property of the ledger: two conflicts that compete for *)
(* a resource are never both Accepted.                                     *)
AtMostOneAccepted ==
  \A c \in ConflictID : IsAccepted(c) => \A d \in Conflicting(c) : ~IsAccepted(d)

(* Accepting a conflict settles everything around it in the same step:     *)
(* what turned Accepted has only Accepted parents and only Rejected        *)
(* competitors, also when the walk met conflicts that had been decided     *)
(* the other way before.                                                   *)
AcceptanceSettles ==
  [][\A c \in ConflictID :
       ~IsAccepted(c) /\ confirmationState'[c] = Accepted =>
         /\ \A p \in parents'[c] : confirmationState'[p] = Accepted
         /\ \A d \in Conflicting(c) : confirmationState'[d] = Rejected]_vars

(* A conflict that turns Rejected takes its whole stored future cone with  *)
(* it: no child keeps hoping.                                              *)
RejectionReachesChildren ==
  [][\A c \in ConflictID :
       ~IsRejected(c) /\ confirmationState'[c] = Rejected =>
         \A d \in children'[c] : confirmationState'[d] = Rejected]_vars

(* As long as no fork rearranges the DAG (UnforkedSpec), the decided       *)
(* states are consistent at all times, not only when they are taken.       *)

(* An Accepted conflict has only Accepted parents.                         *)
AcceptedPastCone ==
  \A c \in ConflictID : IsAccepted(c) => \A p \in parents[c] : IsAccepted(p)

(* A conflict with a Rejected parent is Rejected.                          *)
RejectedFutureCone ==
  \A c \in ConflictID : IsRejected(c) => \A d \in children[c] : IsRejected(d)

(* Whatever competes with an Accepted conflict is Rejected, also when it   *)
(* arrives after the acceptance.                                           *)
ConflictSetsSettled ==
  \A c \in ConflictID : IsAccepted(c) => \A d \in Conflicting(c) : IsRejected(d)
=============================================================================
