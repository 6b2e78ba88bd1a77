------------------------- MODULE ConflictDAGProofs -------------------------
(***************************************************************************)
(* Theorems about the ConflictDAG, for any sets of conflicts and           *)
(* resources.  The first part establishes what the walkers compute, the    *)
(* second what one call of SetConflictAccepted does to the confirmation    *)
(* states, the third the invariants.                                       *)
(***************************************************************************)
EXTENDS ConflictDAG, TLAPS

-----------------------------------------------------------------------------
(* A walk visits the elements it starts with.                              *)
LEMMA ClosureHoldsStart ==
  ASSUME NEW start \in SUBSET ConflictID, NEW successors
  PROVE  start \subseteq Closure(start, successors)
  BY DEF Closure

(* A walk that visits an element visits its successors.                    *)
LEMMA ClosureIsClosed ==
  ASSUME NEW start \in SUBSET ConflictID,
         NEW successors \in [ConflictID -> SUBSET ConflictID],
         NEW x \in Closure(start, successors)
  PROVE  successors[x] \subseteq Closure(start, successors)
  <1> DEFINE near == start \union UNION {successors[z] : z \in ConflictID}
  <1>1. x \in ConflictID
    BY DEF Closure
  <1>2. SUFFICES ASSUME NEW y \in successors[x],
                        NEW S \in SUBSET near,
                        start \subseteq S,
                        \A z \in S : successors[z] \subseteq S
                 PROVE  y \in S
    BY <1>1 DEF Closure
  <1>3. x \in S
    BY <1>2 DEF Closure
  <1> QED
    BY <1>2, <1>3

(* A walk visits nothing but identifiers.                                  *)
LEMMA ClosureOfIDs ==
  ASSUME NEW start \in SUBSET ConflictID,
         NEW successors \in [ConflictID -> SUBSET ConflictID]
  PROVE  Closure(start, successors) \subseteq ConflictID
  BY DEF Closure

(* A walk stays within any set that holds its start and is closed.         *)
LEMMA ClosureIsLeast ==
  ASSUME NEW start \in SUBSET ConflictID, NEW successors,
         NEW S \in SUBSET ConflictID,
         start \subseteq S,
         \A z \in S : successors[z] \subseteq S
  PROVE  Closure(start, successors) \subseteq S
  <1> DEFINE near == start \union UNION {successors[z] : z \in ConflictID}
             T == S \intersect near
  <1>1. start \subseteq T
    OBVIOUS
  <1>2. ASSUME NEW z \in T
        PROVE  successors[z] \subseteq T
    OBVIOUS
  <1>3. T \in SUBSET near
    OBVIOUS
  <1> HIDE DEF T
  <1>4. Closure(start, successors) \subseteq T
    BY <1>1, <1>2, <1>3 DEF Closure
  <1> QED
    BY <1>4 DEF T

(* It visits what every set visits that holds its start and is closed.     *)
LEMMA ClosureIsIntersection ==
  ASSUME NEW start \in SUBSET ConflictID,
         NEW successors \in [ConflictID -> SUBSET ConflictID]
  PROVE  Closure(start, successors) =
           {c \in ConflictID : \A S \in SUBSET ConflictID :
              start \subseteq S /\ (\A x \in S : successors[x] \subseteq S) => c \in S}
  <1>1. ASSUME NEW c \in Closure(start, successors), NEW S \in SUBSET ConflictID,
               start \subseteq S, \A x \in S : successors[x] \subseteq S
        PROVE  c \in S
    BY <1>1, ClosureIsLeast
  <1> HIDE DEF Closure
  <1> QED
    BY <1>1, ClosureHoldsStart, ClosureIsClosed, ClosureOfIDs

-----------------------------------------------------------------------------
(* The walk of SetConflictAccepted over the past cone turns only           *)
(* conflicts that were not Accepted, the named one among them, and leaves  *)
(* no parent behind.                                                       *)
LEMMA AcceptanceWalk ==
  ASSUME TypeOK, NEW id \in ConflictID
  PROVE  /\ NewlyAccepted(id) \subseteq ConflictID
         /\ ~IsAccepted(id) => id \in NewlyAccepted(id)
         /\ \A c \in NewlyAccepted(id) : ~IsAccepted(c)
         /\ \A c \in NewlyAccepted(id) :
               \A p \in parents[c] : IsAccepted(p) \/ p \in NewlyAccepted(id)
  <1> DEFINE start == {id} \ {c \in ConflictID : IsAccepted(c)}
             succ  == [c \in ConflictID |-> {p \in parents[c] : ~IsAccepted(p)}]
             S     == {c \in ConflictID : ~IsAccepted(c)}
  <1>1. NewlyAccepted(id) = Closure(start, succ)
    BY DEF NewlyAccepted
  <1>2. /\ start \in SUBSET ConflictID
        /\ succ \in [ConflictID -> SUBSET ConflictID]
    BY DEF TypeOK
  <1>3. start \subseteq Closure(start, succ)
    BY <1>2, ClosureHoldsStart
  <1>4. Closure(start, succ) \subseteq S
    <2>1. start \subseteq S
      OBVIOUS
    <2>2. \A z \in S : succ[z] \subseteq S
      BY DEF TypeOK
    <2>3. S \in SUBSET ConflictID
      OBVIOUS
    <2> HIDE DEF start, succ, S
    <2> QED
      BY <1>2, <2>1, <2>2, <2>3, ClosureIsLeast
  <1>5. ASSUME NEW c \in Closure(start, succ)
        PROVE  succ[c] \subseteq Closure(start, succ)
    <2> HIDE DEF start, succ
    <2> QED
      BY <1>2, ClosureIsClosed
  <1>6. \A c \in Closure(start, succ) :
           \A p \in parents[c] : IsAccepted(p) \/ p \in Closure(start, succ)
    <2> SUFFICES ASSUME NEW c \in Closure(start, succ),
                        NEW p \in parents[c], ~IsAccepted(p)
                 PROVE  p \in Closure(start, succ)
      OBVIOUS
    <2>1. c \in ConflictID
      BY <1>4
    <2>2. p \in succ[c]
      BY <2>1
    <2> QED
      BY <1>5, <2>2
  <1> HIDE DEF succ
  <1> QED
    BY <1>1, <1>3, <1>4, <1>6

(* The walk of SetConflictAccepted over the competitors and their future   *)
(* cones leaves no competitor of an accepted conflict and no child of a    *)
(* rejected one undecided.                                                 *)
LEMMA RejectionWalk ==
  ASSUME TypeOK, NEW id \in ConflictID
  PROVE  /\ NewlyRejected(id) \subseteq ConflictID
         /\ \A c \in NewlyAccepted(id) : \A d \in Conflicting(c) :
               \/ d \in NewlyRejected(id)
               \/ IsRejected(d) /\ d \notin NewlyAccepted(id)
         /\ \A c \in NewlyRejected(id) : \A d \in children[c] :
               \/ d \in NewlyRejected(id)
               \/ IsRejected(d) /\ d \notin NewlyAccepted(id)
  <1> DEFINE accepted == NewlyAccepted(id)
             stays == {c \in ConflictID : IsRejected(c) /\ c \notin accepted}
             start == (UNION {Conflicting(c) : c \in accepted}) \ stays
             succ  == [c \in ConflictID |-> children[c] \ stays]
  <1>1. NewlyRejected(id) = Closure(start, succ)
    BY DEF NewlyRejected
  <1>2. start \in SUBSET ConflictID
    BY DEF Conflicting
  <1>3. succ \in [ConflictID -> SUBSET ConflictID]
    BY DEF TypeOK
  <1>4. Closure(start, succ) \subseteq ConflictID
    BY <1>2, <1>3, ClosureOfIDs
  <1>5. start \subseteq Closure(start, succ)
    BY <1>2, ClosureHoldsStart
  <1>6. ASSUME NEW c \in Closure(start, succ)
        PROVE  succ[c] \subseteq Closure(start, succ)
    <2> HIDE DEF start, succ
    <2> QED
      BY <1>2, <1>3, ClosureIsClosed
  <1>7. ASSUME NEW c \in accepted, NEW d \in Conflicting(c)
        PROVE  d \in Closure(start, succ) \/ d \in stays
    <2>1. d \in stays \/ d \in start
      OBVIOUS
    <2> QED
      BY <2>1, <1>5
  <1>8. ASSUME NEW c \in Closure(start, succ), NEW d \in children[c]
        PROVE  d \in Closure(start, succ) \/ d \in stays
    <2>1. c \in ConflictID
      BY <1>4
    <2>2. d \in stays \/ d \in succ[c]
      BY <2>1
    <2> QED
      BY <2>2, <1>6
  <1> HIDE DEF start, succ, accepted
  <1>9. \A d \in stays : IsRejected(d) /\ d \notin accepted
    OBVIOUS
  <1> HIDE DEF stays
  <1> QED
    BY <1>1, <1>4, <1>7, <1>8, <1>9 DEF accepted
-----------------------------------------------------------------------------
(* Every operation keeps the types.                                        *)
LEMMA TypeStep == TypeOK /\ [Next]_vars => TypeOK'
  <1> SUFFICES ASSUME TypeOK, [Next]_vars
               PROVE  TypeOK'
    OBVIOUS
  <1> USE DEF TypeOK
  <1>1. CASE Create
    BY <1>1 DEF Create, CreateConflict, Stored, Undefined, Rejected, Pending, Accepted
  <1>2. CASE ForkParents
    BY <1>2 DEF ForkParents, UpdateConflictParents, Stored
  <1>3. CASE ForkResources
    BY <1>3 DEF ForkResources, UpdateConflictingResources, Stored
  <1>4. CASE Accept
    BY <1>4 DEF Accept, SetConflictAccepted, Stored, Undefined, Rejected, Pending, Accepted
  <1>5. CASE UNCHANGED vars
    BY <1>5 DEF vars
  <1> QED
    BY <1>1, <1>2, <1>3, <1>4, <1>5 DEF Next

(* The ConflictDAG is type correct.                                        *)
THEOREM TypeCorrect == Spec => []TypeOK
  <1>1. Init => TypeOK
    BY DEF Init, TypeOK, Undefined, Rejected, Pending, Accepted
  <1> QED
    BY <1>1, TypeStep, PTL DEF Spec

-----------------------------------------------------------------------------
(* Every operation moves both directions of the references together.       *)
LEMMA ReferencesStep ==
  TypeOK /\ ReferencesMirrored /\ [Next]_vars => ReferencesMirrored'
  <1> SUFFICES ASSUME TypeOK, ReferencesMirrored, [Next]_vars
               PROVE  ReferencesMirrored'
    OBVIOUS
  <1> USE DEF TypeOK, Exists, Stored
  <1>1. ASSUME NEW id \in ConflictID, NEW parentIDs \in SUBSET Stored,
               NEW resourceIDs \in SUBSET ResourceID,
               CreateConflict(id, parentIDs, resourceIDs)
        PROVE  ReferencesMirrored'
    <2> USE <1>1 DEF CreateConflict
    <2>1. confirmationState'[id] # Undefined
      BY DEF Rejected, Pending, Undefined
    <2>2. \A c \in ConflictID \ {id} : confirmationState'[c] = confirmationState[c]
      OBVIOUS
    <2>3. \A p, c \in ConflictID : c \in children'[p] <=> p \in parents'[c]
      BY DEF ReferencesMirrored
    <2>4. \A r \in ResourceID, c \in ConflictID :
             c \in members'[r] <=> r \in conflictSetIDs'[c]
      BY DEF ReferencesMirrored
    <2>5. \A c \in ConflictID :
             parents'[c] # {} \/ conflictSetIDs'[c] # {} => Exists(c)'
      BY <2>1, <2>2 DEF ReferencesMirrored
    <2>6. \A c \in ConflictID : parents'[c] \subseteq Stored'
      BY <2>1, <2>2 DEF ReferencesMirrored
    <2> QED
      BY <2>3, <2>4, <2>5, <2>6 DEF ReferencesMirrored
  <1>2. ASSUME NEW id \in Stored, NEW addedID \in Stored,
               NEW removedIDs \in SUBSET (ConflictID \ {addedID}),
               UpdateConflictParents(id, removedIDs, addedID)
        PROVE  ReferencesMirrored'
    BY <1>2 DEF UpdateConflictParents, ReferencesMirrored
  <1>3. ASSUME NEW id \in Stored, NEW resourceIDs \in SUBSET ResourceID,
               UpdateConflictingResources(id, resourceIDs)
        PROVE  ReferencesMirrored'
    BY <1>3 DEF UpdateConflictingResources, ReferencesMirrored
  <1>4. ASSUME NEW id \in Stored, SetConflictAccepted(id)
        PROVE  ReferencesMirrored'
    <2>1. \A c \in ConflictID : Exists(c) => Exists(c)'
      BY <1>4 DEF SetConflictAccepted, Rejected, Accepted, Undefined
    <2> QED
      BY <1>4, <2>1 DEF SetConflictAccepted, ReferencesMirrored
  <1>5. CASE UNCHANGED vars
    BY <1>5 DEF vars, ReferencesMirrored
  <1> QED
    BY <1>1, <1>2, <1>3, <1>4, <1>5
    DEF Next, Create, ForkParents, ForkResources, Accept

(* Forks and creations never leave a one-sided reference behind, so the    *)
(* rejection walk of SetConflictAccepted meets every dependent conflict.   *)
THEOREM ReferencesCorrect == Spec => []ReferencesMirrored
  <1>1. Init => ReferencesMirrored
    BY DEF Init, ReferencesMirrored, Exists, Stored
  <1> QED
    BY <1>1, TypeCorrect, TypeStep, ReferencesStep, PTL DEF Spec

-----------------------------------------------------------------------------
(* A set that holds the future cone of a conflict, and not the conflict.   *)
Cone(c, S) ==
  /\ S \in SUBSET ConflictID /\ c \notin S
  /\ children[c] \subseteq S /\ \A x \in S : children[x] \subseteq S

Cones == \A c \in ConflictID : \E S \in SUBSET ConflictID : Cone(c, S)

(* No conflict is in its own future cone when each has such a set.         *)
LEMMA AcyclicByCones == TypeOK => (Acyclic <=> Cones)
  <1> SUFFICES ASSUME TypeOK PROVE Acyclic <=> Cones
    OBVIOUS
  <1>1. \A c \in ConflictID : children[c] \in SUBSET ConflictID
    BY DEF TypeOK
  <1>2. ASSUME Acyclic, NEW c \in ConflictID
        PROVE  \E S \in SUBSET ConflictID : Cone(c, S)
    <2> DEFINE S == Closure(children[c], children)
    <2>1. S \in SUBSET ConflictID /\ children[c] \subseteq S
      BY <1>1, ClosureHoldsStart, ClosureOfIDs DEF TypeOK
    <2>2. \A x \in S : children[x] \subseteq S
      BY <1>1, ClosureIsClosed DEF TypeOK
    <2>3. c \notin S
      BY <1>2 DEF Acyclic
    <2> HIDE DEF S
    <2> QED
      BY <2>1, <2>2, <2>3 DEF Cone
  <1>3. ASSUME NEW c \in ConflictID, NEW S \in SUBSET ConflictID, Cone(c, S)
        PROVE  c \notin Closure(children[c], children)
    <2>1. Closure(children[c], children) \subseteq S
      BY <1>1, <1>3, ClosureIsLeast DEF Cone
    <2> QED
      BY <1>3, <2>1 DEF Cone
  <1> QED
    BY <1>2, <1>3 DEF Acyclic, Cones

(* A conflict is created without children; a fork puts a conflict below    *)
(* one that is not in its future cone.                                     *)
LEMMA AcyclicStep ==
  TypeOK /\ ReferencesMirrored /\ Acyclic /\ [Next]_vars => Acyclic'
  <1>a. (TypeOK => (Acyclic <=> Cones))'
    BY AcyclicByCones, PTL
  <1> SUFFICES ASSUME TypeOK, ReferencesMirrored, Acyclic, [Next]_vars
               PROVE  \A c \in ConflictID : \E S \in SUBSET ConflictID : Cone(c, S)'
    BY <1>a, TypeStep DEF Cones
  <1>1. \A c \in ConflictID : \E S \in SUBSET ConflictID : Cone(c, S)
    BY AcyclicByCones DEF Cones
  <1>2. /\ children \in [ConflictID -> SUBSET ConflictID]
        /\ \A p, c \in ConflictID : c \in children[p] <=> p \in parents[c]
        /\ \A c \in ConflictID : parents[c] \subseteq Stored
    BY DEF TypeOK, ReferencesMirrored
  <1>3. ASSUME NEW id \in ConflictID, NEW parentIDs \in SUBSET Stored,
               NEW resourceIDs \in SUBSET ResourceID,
               CreateConflict(id, parentIDs, resourceIDs), NEW c \in ConflictID
        PROVE  \E S \in SUBSET ConflictID : Cone(c, S)'
    <2>1. /\ id \notin Stored
          /\ \A p \in ConflictID : children'[p] =
                IF p \in parentIDs THEN children[p] \union {id} ELSE children[p]
      BY <1>3 DEF CreateConflict, Stored
    <2>2. children[id] = {} /\ id \notin parentIDs
      BY <1>2, <2>1
    <2>3. children'[id] = {}
      BY <2>1, <2>2
    <2>4. CASE c = id
      <3>1. Cone(c, {})'
        BY <2>3, <2>4 DEF Cone
      <3> QED
        BY <3>1
    <2>5. CASE c # id
      <3>1. PICK S \in SUBSET ConflictID : Cone(c, S)
        BY <1>1
      <3>2. \A x \in S \union {id} : children'[x] \subseteq S \union {id}
        BY <2>1, <2>3, <3>1 DEF Cone
      <3>3. Cone(c, S \union {id})'
        BY <2>1, <2>5, <3>1, <3>2 DEF Cone
      <3> QED
        BY <3>3
    <2> QED
      BY <2>4, <2>5
  <1>4. ASSUME NEW id \in Stored, NEW addedID \in Stored,
               NEW removedIDs \in SUBSET (ConflictID \ {addedID}),
               UpdateConflictParents(id, removedIDs, addedID),
               addedID \notin Closure({id}, children), NEW c \in ConflictID
        PROVE  \E S \in SUBSET ConflictID : Cone(c, S)'
    <2>1. /\ id \in ConflictID /\ addedID \in ConflictID
          /\ \A p \in ConflictID : children'[p] \subseteq
                IF p = addedID THEN children[p] \union {id} ELSE children[p]
      BY <1>4 DEF UpdateConflictParents, Stored
    <2>2. \E D \in SUBSET ConflictID :
            id \in D /\ addedID \notin D /\ \A x \in D : children[x] \subseteq D
      <3> DEFINE D == Closure({id}, children)
      <3>1. D \in SUBSET ConflictID /\ id \in D
        BY <1>2, <2>1, ClosureHoldsStart, ClosureOfIDs
      <3>2. \A x \in D : children[x] \subseteq D
        BY <1>2, <2>1, ClosureIsClosed
      <3>3. addedID \notin D
        BY <1>4
      <3> HIDE DEF D
      <3> QED
        BY <3>1, <3>2, <3>3
    <2>3. PICK D \in SUBSET ConflictID :
            id \in D /\ addedID \notin D /\ \A x \in D : children[x] \subseteq D
      BY <2>2
    <2>5. PICK S \in SUBSET ConflictID : Cone(c, S)
      BY <1>1
    <2>6. CASE addedID \notin S /\ c # addedID
      <3>1. Cone(c, S)'
        BY <2>1, <2>5, <2>6 DEF Cone
      <3> QED
        BY <3>1
    <2>7. CASE addedID \notin S /\ c = addedID
      <3>1. Cone(c, S \union D)'
        BY <2>1, <2>3, <2>5, <2>7 DEF Cone
      <3> QED
        BY <3>1
    <2>8. CASE addedID \in S /\ c \notin D
      <3>1. \A x \in S \union D : children'[x] \subseteq S \union D
        BY <2>1, <2>3, <2>5, <2>8 DEF Cone
      <3>2. children'[c] \subseteq S \union D
        BY <2>1, <2>3, <2>5, <2>8 DEF Cone
      <3>3. Cone(c, S \union D)'
        BY <2>3, <2>5, <2>8, <3>1, <3>2 DEF Cone
      <3> QED
        BY <3>3
    <2>9. CASE addedID \in S /\ c \in D
      <3>1. c # addedID
        BY <2>5, <2>9 DEF Cone
      <3>2. /\ children[c] \subseteq S \intersect D
            /\ \A x \in S \intersect D : children[x] \subseteq S \intersect D
        BY <2>3, <2>5, <2>9 DEF Cone
      <3>3. Cone(c, S \intersect D)'
        BY <2>1, <2>3, <2>5, <3>1, <3>2 DEF Cone
      <3> QED
        BY <3>3
    <2> QED
      BY <2>6, <2>7, <2>8, <2>9
  <1>5. ASSUME UNCHANGED children, NEW c \in ConflictID
        PROVE  \E S \in SUBSET ConflictID : Cone(c, S)'
    <2>1. PICK S \in SUBSET ConflictID : Cone(c, S)
      BY <1>1
    <2>2. Cone(c, S)'
      BY <1>5, <2>1 DEF Cone
    <2> QED
      BY <2>2
  <1>6. Accept \/ ForkResources \/ UNCHANGED vars => UNCHANGED children
    BY DEF Accept, SetConflictAccepted, ForkResources, UpdateConflictingResources, vars
  <1>7. CASE Create
    BY <1>3, <1>7 DEF Create
  <1>8. CASE ForkParents
    BY <1>4, <1>8 DEF ForkParents
  <1> QED
    BY <1>5, <1>6, <1>7, <1>8 DEF Next

(* Forks and creations keep the conflicts a DAG, so that every walk over   *)
(* past or future cones ends.                                              *)
THEOREM ConflictsStayAcyclic == Spec => []Acyclic
  <1>1. Init => TypeOK
    BY DEF Init, TypeOK, Undefined, Rejected, Pending, Accepted
  <1>2. Init => Acyclic
    <2> SUFFICES ASSUME Init PROVE Acyclic
      OBVIOUS
    <2>1. \A c \in ConflictID : Cone(c, {})
      BY DEF Init, Cone
    <2> QED
      BY <1>1, <2>1, AcyclicByCones DEF Cones
  <1> QED
    BY <1>2, TypeCorrect, ReferencesCorrect, AcyclicStep, PTL DEF Spec

-----------------------------------------------------------------------------
(* The confirmation states after SetConflictAccepted: the rejection walk   *)
(* runs last and overrides the acceptance walk.                            *)
LEMMA StatesAfterAcceptance ==
  ASSUME TypeOK, NEW id \in ConflictID, SetConflictAccepted(id), NEW c \in ConflictID
  PROVE  /\ IsAccepted(c)' <=>
              c \notin NewlyRejected(id) /\ (c \in NewlyAccepted(id) \/ IsAccepted(c))
         /\ IsRejected(c)' <=>
              c \in NewlyRejected(id) \/ (IsRejected(c) /\ c \notin NewlyAccepted(id))
         /\ Conflicting(c)' = Conflicting(c)
  <1>1. /\ confirmationState'[c] = IF c \in NewlyRejected(id) THEN Rejected
                                   ELSE IF c \in NewlyAccepted(id) THEN Accepted
                                        ELSE confirmationState[c]
        /\ UNCHANGED <<conflictSetIDs, members>>
    BY DEF SetConflictAccepted
  <1>2. Accepted # Rejected
    BY DEF Accepted, Rejected
  <1>3. Conflicting(c)' = Conflicting(c)
    BY <1>1 DEF Conflicting
  <1> QED
    BY <1>1, <1>2, <1>3 DEF IsAccepted, IsRejected

(* Competing is mutual.                                                    *)
LEMMA ConflictingIsSymmetric ==
  ASSUME ReferencesMirrored, NEW c \in ConflictID, NEW d \in ConflictID,
         TypeOK, d \in Conflicting(c)
  PROVE  c \in Conflicting(d)
  BY DEF ReferencesMirrored, Conflicting, TypeOK

(* No operation makes two competitors Accepted.                            *)
LEMMA AtMostOneAcceptedStep ==
  TypeOK /\ ReferencesMirrored /\ AtMostOneAccepted /\ [Next]_vars => AtMostOneAccepted'
  <1> SUFFICES ASSUME TypeOK, ReferencesMirrored, AtMostOneAccepted, [Next]_vars
               PROVE  AtMostOneAccepted'
    OBVIOUS
  <1>1. ASSUME NEW id \in ConflictID, NEW parentIDs \in SUBSET Stored,
               NEW resourceIDs \in SUBSET ResourceID,
               CreateConflict(id, parentIDs, resourceIDs)
        PROVE  AtMostOneAccepted'
    <2> SUFFICES ASSUME NEW c \in ConflictID, IsAccepted(c)',
                        NEW d \in Conflicting(c)', IsAccepted(d)'
                 PROVE  FALSE
      BY DEF AtMostOneAccepted
    <2>1. d \in ConflictID
      BY DEF Conflicting
    <2>2. /\ c # id /\ IsAccepted(c)
          /\ d # id /\ IsAccepted(d)
      BY <1>1, <2>1 DEF CreateConflict, IsAccepted, TypeOK, Accepted, Rejected, Pending
    <2>3. d \in Conflicting(c)
      BY <1>1, <2>1, <2>2 DEF CreateConflict, Conflicting, TypeOK
    <2> QED
      BY <2>2, <2>3 DEF AtMostOneAccepted
  <1>2. ASSUME NEW id \in Stored, NEW addedID \in Stored,
               NEW removedIDs \in SUBSET (ConflictID \ {addedID}),
               UpdateConflictParents(id, removedIDs, addedID)
        PROVE  AtMostOneAccepted'
    BY <1>2 DEF UpdateConflictParents, AtMostOneAccepted, IsAccepted, Conflicting
  <1>3. ASSUME NEW id \in Stored, NEW resourceIDs \in SUBSET ResourceID,
               IsAccepted(id) => \A r \in resourceIDs :
                                   \A c \in members[r] \ {id} : ~IsAccepted(c),
               UpdateConflictingResources(id, resourceIDs)
        PROVE  AtMostOneAccepted'
    <2> SUFFICES ASSUME NEW c \in ConflictID, IsAccepted(c)',
                        NEW d \in Conflicting(c)', IsAccepted(d)'
                 PROVE  FALSE
      BY DEF AtMostOneAccepted
    <2>1. d \in ConflictID /\ d # c
      BY DEF Conflicting
    <2>2. IsAccepted(c) /\ IsAccepted(d)
      BY <1>3 DEF UpdateConflictingResources, IsAccepted
    <2>3. d \notin Conflicting(c)
      BY <2>2 DEF AtMostOneAccepted
    <2>4. PICK r \in ResourceID : r \in conflictSetIDs'[c] /\ d \in members'[r]
      BY <1>3 DEF Conflicting, UpdateConflictingResources, TypeOK, Stored
    <2>5. /\ r \in conflictSetIDs[c] \/ (c = id /\ r \in resourceIDs)
          /\ d \in members[r] \/ (d = id /\ r \in resourceIDs)
      BY <1>3, <2>4 DEF UpdateConflictingResources, TypeOK, Stored
    <2>6. CASE c = id
      <3>1. r \in resourceIDs /\ d \in members[r]
        BY <2>1, <2>3, <2>5, <2>6 DEF Conflicting
      <3> QED
        BY <1>3, <2>1, <2>2, <2>6, <3>1
    <2>7. CASE c # id
      <3>1. d = id /\ r \in resourceIDs /\ r \in conflictSetIDs[c]
        BY <2>1, <2>3, <2>5, <2>7 DEF Conflicting
      <3>2. c \in members[r]
        BY <3>1 DEF ReferencesMirrored
      <3> QED
        BY <1>3, <2>1, <2>2, <3>1, <3>2
    <2> QED
      BY <2>6, <2>7
  <1>4. ASSUME NEW id \in Stored, SetConflictAccepted(id)
        PROVE  AtMostOneAccepted'
    <2> SUFFICES ASSUME NEW c \in ConflictID, IsAccepted(c)',
                        NEW d \in Conflicting(c)', IsAccepted(d)'
                 PROVE  FALSE
      BY DEF AtMostOneAccepted
    <2>1. id \in ConflictID /\ d \in ConflictID
      BY DEF Conflicting, Stored
    <2>2. /\ d \in Conflicting(c)
          /\ c \notin NewlyRejected(id) /\ (c \in NewlyAccepted(id) \/ IsAccepted(c))
          /\ d \notin NewlyRejected(id) /\ (d \in NewlyAccepted(id) \/ IsAccepted(d))
      BY <1>4, <2>1, StatesAfterAcceptance
    <2>3. c \in Conflicting(d)
      BY <2>1, <2>2, ConflictingIsSymmetric
    <2>4. c \notin NewlyAccepted(id) /\ d \notin NewlyAccepted(id)
      BY <2>1, <2>2, <2>3, RejectionWalk DEF IsAccepted, IsRejected, Accepted, Rejected
    <2> QED
      BY <2>2, <2>4 DEF AtMostOneAccepted
  <1>5. CASE UNCHANGED vars
    BY <1>5 DEF vars, AtMostOneAccepted, IsAccepted, Conflicting
  <1> QED
    BY <1>1, <1>2, <1>3, <1>4, <1>5
    DEF Next, Create, ForkParents, ForkResources, Accept

(* Two conflicts that compete for a resource are never both Accepted,      *)
(* whatever forks and acceptances happen in between.                       *)
THEOREM DoubleSpendSafety == Spec => []AtMostOneAccepted
  <1>1. Init => AtMostOneAccepted
    BY DEF Init, AtMostOneAccepted, Conflicting
  <1> QED
    BY <1>1, TypeCorrect, ReferencesCorrect, AtMostOneAcceptedStep, PTL DEF Spec

-----------------------------------------------------------------------------
(* The actions other than Accept never make a stored conflict Accepted,    *)
(* and none of them makes it Rejected.                                     *)
LEMMA OnlyAcceptDecides ==
  ASSUME TypeOK, Create \/ ForkParents \/ ForkResources, NEW c \in ConflictID
  PROVE  /\ IsAccepted(c)' <=> IsAccepted(c)
         /\ Exists(c) => (IsRejected(c)' <=> IsRejected(c))
  BY DEF Create, CreateConflict, ForkParents, UpdateConflictParents, ForkResources,
         UpdateConflictingResources, IsAccepted, IsRejected, Exists, TypeOK, Stored,
         Undefined, Rejected, Pending, Accepted

(* One call of SetConflictAccepted leaves a newly accepted conflict with   *)
(* Accepted parents and Rejected competitors.                              *)
LEMMA AcceptanceSettlesStep ==
  ASSUME TypeOK, ReferencesMirrored, NEW id \in ConflictID, SetConflictAccepted(id),
         NEW c \in ConflictID, ~IsAccepted(c), IsAccepted(c)'
  PROVE  /\ \A p \in parents[c] : IsAccepted(p)'
         /\ \A d \in Conflicting(c) : IsRejected(d)'
  <1>1. c \in NewlyAccepted(id) /\ c \notin NewlyRejected(id)
    BY StatesAfterAcceptance
  <1>2. ASSUME NEW p \in parents[c]
        PROVE  IsAccepted(p)'
    <2>1. p \in ConflictID /\ c \in children[p]
      BY DEF TypeOK, ReferencesMirrored
    <2>2. p \in NewlyAccepted(id) \/ IsAccepted(p)
      BY <1>1, AcceptanceWalk
    <2>3. p \notin NewlyRejected(id)
      BY <1>1, <2>1, RejectionWalk
    <2> QED
      BY <2>1, <2>2, <2>3, StatesAfterAcceptance
  <1>3. ASSUME NEW d \in Conflicting(c)
        PROVE  IsRejected(d)'
    <2>1. d \in ConflictID
      BY DEF Conflicting
    <2> QED
      BY <1>1, <2>1, RejectionWalk, StatesAfterAcceptance
  <1> QED
    BY <1>2, <1>3

(* Whenever a conflict turns Accepted, its parents are Accepted and its    *)
(* competitors Rejected in the same step.                                  *)
THEOREM AcceptanceSettlesEverything == Spec => AcceptanceSettles
  <1>1. ASSUME TypeOK, ReferencesMirrored, [Next]_vars, NEW c \in ConflictID,
               ~IsAccepted(c), confirmationState'[c] = Accepted
        PROVE  /\ \A p \in parents'[c] : confirmationState'[p] = Accepted
               /\ \A d \in Conflicting(c) : confirmationState'[d] = Rejected
    <2>1. IsAccepted(c)'
      BY <1>1 DEF IsAccepted
    <2>2. CASE Create \/ ForkParents \/ ForkResources
      BY <1>1, <2>1, <2>2, OnlyAcceptDecides
    <2>3. CASE Accept
      <3>1. PICK id \in ConflictID : SetConflictAccepted(id)
        BY <2>3 DEF Accept, Stored
      <3>2. parents' = parents
        BY <3>1 DEF SetConflictAccepted
      <3> QED
        BY <1>1, <2>1, <3>1, <3>2, AcceptanceSettlesStep DEF IsAccepted, IsRejected
    <2>4. CASE UNCHANGED vars
      BY <1>1, <2>4 DEF vars, IsAccepted
    <2> QED
      BY <1>1, <2>2, <2>3, <2>4 DEF Next
  <1>2. TypeOK /\ ReferencesMirrored /\ [Next]_vars =>
          [\A c \in ConflictID :
             ~IsAccepted(c) /\ confirmationState'[c] = Accepted =>
               /\ \A p \in parents'[c] : confirmationState'[p] = Accepted
               /\ \A d \in Conflicting(c) : confirmationState'[d] = Rejected]_vars
    BY <1>1
  <1> QED
    BY <1>2, TypeCorrect, ReferencesCorrect, PTL DEF Spec, AcceptanceSettles

(* One call of SetConflictAccepted rejects the children of every conflict  *)
(* it rejects.                                                             *)
LEMMA RejectionReachesChildrenStep ==
  ASSUME TypeOK, NEW id \in ConflictID, SetConflictAccepted(id),
         NEW c \in ConflictID, ~IsRejected(c), IsRejected(c)', NEW d \in children[c]
  PROVE  IsRejected(d)'
  <1>1. c \in NewlyRejected(id)
    BY StatesAfterAcceptance
  <1>2. d \in ConflictID
    BY DEF TypeOK
  <1> QED
    BY <1>1, <1>2, RejectionWalk, StatesAfterAcceptance

(* A conflict that turns Rejected rejects its children in the same step.   *)
THEOREM RejectionReachesEverything == Spec => RejectionReachesChildren
  <1>1. ASSUME TypeOK, ReferencesMirrored, [Next]_vars, NEW c \in ConflictID,
               ~IsRejected(c), confirmationState'[c] = Rejected, NEW d \in children'[c]
        PROVE  confirmationState'[d] = Rejected
    <2>1. IsRejected(c)'
      BY <1>1 DEF IsRejected
    <2>2. CASE Create
      <3>1. ~Exists(c)
        BY <1>1, <2>1, <2>2, OnlyAcceptDecides
      <3>2. children[c] = {}
        BY <1>1, <3>1 DEF ReferencesMirrored, Stored, TypeOK
      <3>3. PICK id \in ConflictID, parentIDs \in SUBSET Stored,
                 resourceIDs \in SUBSET ResourceID :
                    CreateConflict(id, parentIDs, resourceIDs)
        BY <2>2 DEF Create
      <3>4. children'[c] = {}
        BY <3>1, <3>2, <3>3 DEF CreateConflict, Stored
      <3> QED
        BY <1>1, <3>4
    <2>3. CASE ForkParents \/ ForkResources
      BY <1>1, <2>3 DEF ForkParents, UpdateConflictParents, ForkResources,
                        UpdateConflictingResources, IsRejected
    <2>4. CASE Accept
      <3>1. PICK id \in ConflictID : SetConflictAccepted(id)
        BY <2>4 DEF Accept, Stored
      <3>2. children' = children
        BY <3>1 DEF SetConflictAccepted
      <3> QED
        BY <1>1, <2>1, <3>1, <3>2, RejectionReachesChildrenStep DEF IsRejected
    <2>5. CASE UNCHANGED vars
      BY <1>1, <2>5 DEF vars, IsRejected
    <2> QED
      BY <1>1, <2>2, <2>3, <2>4, <2>5 DEF Next
  <1>2. TypeOK /\ ReferencesMirrored /\ [Next]_vars =>
          [\A c \in ConflictID :
             ~IsRejected(c) /\ confirmationState'[c] = Rejected =>
               \A d \in children'[c] : confirmationState'[d] = Rejected]_vars
    BY <1>1
  <1> QED
    BY <1>2, TypeCorrect, ReferencesCorrect, PTL DEF Spec, RejectionReachesChildren

-----------------------------------------------------------------------------
(* What holds at all times while no fork rearranges the conflicts.         *)
ConesConsistent == AcceptedPastCone /\ RejectedFutureCone /\ ConflictSetsSettled

(* The inductive invariant: the decided cones are consistent provided the  *)
(* references by which SetConflictAccepted walks them are mirrored.        *)
UnforkedInv == TypeOK /\ ReferencesMirrored /\ ConesConsistent

(* Creating a conflict keeps the cones consistent: it is Rejected at once  *)
(* if a parent is, or if a competitor is Accepted.                         *)
LEMMA CreateKeepsCones ==
  ASSUME UnforkedInv, NEW id \in ConflictID, NEW parentIDs \in SUBSET Stored,
         NEW resourceIDs \in SUBSET ResourceID,
         CreateConflict(id, parentIDs, resourceIDs)
  PROVE  ConesConsistent'
  <1> USE DEF UnforkedInv, CreateConflict, TypeOK
  <1>1. \A c \in ConflictID \ {id} : confirmationState'[c] = confirmationState[c]
    OBVIOUS
  <1>2. /\ ~IsAccepted(id)' /\ ~IsAccepted(id)
        /\ IsRejected(id)' <=> RejectedAtCreation(id, parentIDs, resourceIDs)
    BY DEF IsAccepted, IsRejected, Exists, Undefined, Rejected, Pending, Accepted
  <1>3. id \notin parentIDs /\ children[id] = {} /\ children'[id] = {}
    BY DEF Stored, ReferencesMirrored
  <1>4. AcceptedPastCone'
    BY <1>1, <1>2, <1>3 DEF AcceptedPastCone, ConesConsistent, IsAccepted,
                            ReferencesMirrored, Stored
  <1>5. RejectedFutureCone'
    <2> SUFFICES ASSUME NEW c \in ConflictID, IsRejected(c)', NEW d \in children'[c]
                 PROVE  IsRejected(d)'
      BY DEF RejectedFutureCone
    <2>1. c # id /\ IsRejected(c)
      BY <1>1, <1>3 DEF IsRejected
    <2>2. CASE d \in children[c]
      <3>1. d \in ConflictID /\ d # id
        BY <2>2 DEF ReferencesMirrored, Exists
      <3> QED
        BY <1>1, <2>1, <2>2, <3>1 DEF ConesConsistent, RejectedFutureCone, IsRejected
    <2>3. CASE d \notin children[c]
      <3>1. d = id /\ c \in parentIDs
        BY <2>3
      <3> QED
        BY <1>2, <2>1, <3>1 DEF RejectedAtCreation
    <2> QED
      BY <2>2, <2>3
  <1>6. ConflictSetsSettled'
    <2> SUFFICES ASSUME NEW c \in ConflictID, IsAccepted(c)', NEW d \in Conflicting(c)'
                 PROVE  IsRejected(d)'
      BY DEF ConflictSetsSettled
    <2>1. d \in ConflictID /\ c # id /\ IsAccepted(c)
      BY <1>1, <1>2 DEF Conflicting, IsAccepted
    <2>2. PICK r \in ResourceID : r \in conflictSetIDs'[c] /\ d \in members'[r]
      BY <2>1 DEF Conflicting
    <2>3. r \in conflictSetIDs[c]
      BY <2>1, <2>2
    <2>4. CASE d = id
      <3>1. r \in resourceIDs
        BY <2>2, <2>4 DEF ReferencesMirrored, Exists
      <3>2. c \in members[r]
        BY <2>3 DEF ReferencesMirrored
      <3> QED
        BY <1>2, <2>1, <2>4, <3>1, <3>2 DEF RejectedAtCreation
    <2>5. CASE d # id
      <3>1. d \in Conflicting(c)
        BY <2>1, <2>2, <2>3, <2>5 DEF Conflicting
      <3> QED
        BY <1>1, <2>1, <2>5, <3>1 DEF ConesConsistent, ConflictSetsSettled, IsRejected
    <2> QED
      BY <2>4, <2>5
  <1> QED
    BY <1>4, <1>5, <1>6 DEF ConesConsistent

(* Accepting a conflict keeps the cones consistent.                        *)
LEMMA AcceptKeepsCones ==
  ASSUME UnforkedInv, NEW id \in ConflictID, SetConflictAccepted(id)
  PROVE  ConesConsistent'
  <1>1. TypeOK /\ ReferencesMirrored /\ ConesConsistent
    BY DEF UnforkedInv
  <1>2. UNCHANGED <<parents, conflictSetIDs, members, children>>
    BY DEF SetConflictAccepted
  <1>3. AcceptedPastCone'
    <2> SUFFICES ASSUME NEW c \in ConflictID, IsAccepted(c)', NEW p \in parents[c]
                 PROVE  IsAccepted(p)'
      BY <1>2 DEF AcceptedPastCone
    <2>1. CASE ~IsAccepted(c)
      BY <1>1, <2>1, AcceptanceSettlesStep
    <2>2. CASE IsAccepted(c)
      <3>1. p \in ConflictID /\ c \in children[p] /\ IsAccepted(p)
        BY <1>1, <2>2 DEF TypeOK, ReferencesMirrored, ConesConsistent, AcceptedPastCone
      <3>2. c \notin NewlyRejected(id)
        BY <1>1, StatesAfterAcceptance
      <3>3. ~IsRejected(c)
        BY <2>2 DEF IsAccepted, IsRejected, Accepted, Rejected
      <3>4. p \notin NewlyRejected(id)
        BY <1>1, <3>1, <3>2, <3>3, RejectionWalk
      <3> QED
        BY <1>1, <3>1, <3>4, StatesAfterAcceptance
    <2> QED
      BY <2>1, <2>2
  <1>4. RejectedFutureCone'
    <2> SUFFICES ASSUME NEW c \in ConflictID, IsRejected(c)', NEW d \in children[c]
                 PROVE  IsRejected(d)'
      BY <1>2 DEF RejectedFutureCone
    <2>1. CASE ~IsRejected(c)
      BY <1>1, <2>1, RejectionReachesChildrenStep
    <2>2. CASE IsRejected(c)
      <3>1. d \in ConflictID /\ c \in parents[d] /\ IsRejected(d)
        BY <1>1, <2>2 DEF TypeOK, ReferencesMirrored, ConesConsistent, RejectedFutureCone
      <3>2. ~IsAccepted(c)
        BY <2>2 DEF IsAccepted, IsRejected, Accepted, Rejected
      <3>3. CASE d \in NewlyAccepted(id)
        <4>1. c \in NewlyAccepted(id)
          BY <1>1, <3>1, <3>2, <3>3, AcceptanceWalk
        <4>2. c \in NewlyRejected(id)
          BY <1>1, <4>1, StatesAfterAcceptance
        <4> QED
          BY <1>1, <3>1, <3>3, <4>2, RejectionWalk, StatesAfterAcceptance
      <3>4. CASE d \notin NewlyAccepted(id)
        BY <1>1, <3>1, <3>4, StatesAfterAcceptance
      <3> QED
        BY <3>3, <3>4
    <2> QED
      BY <2>1, <2>2
  <1>5. ConflictSetsSettled'
    <2> SUFFICES ASSUME NEW c \in ConflictID, IsAccepted(c)', NEW d \in Conflicting(c)
                 PROVE  IsRejected(d)'
      BY <1>1, StatesAfterAcceptance DEF ConflictSetsSettled
    <2>1. CASE ~IsAccepted(c)
      BY <1>1, <2>1, AcceptanceSettlesStep
    <2>2. CASE IsAccepted(c)
      <3>1. d \in ConflictID /\ IsRejected(d) /\ c \in Conflicting(d)
        BY <1>1, <2>2, ConflictingIsSymmetric
        DEF Conflicting, ConesConsistent, ConflictSetsSettled
      <3>2. d \notin NewlyAccepted(id)
        <4> SUFFICES ASSUME d \in NewlyAccepted(id)
                     PROVE  FALSE
          OBVIOUS
        <4>1. c \in NewlyRejected(id) \/ IsRejected(c)
          BY <1>1, <3>1, RejectionWalk
        <4> QED
          BY <1>1, <2>2, <4>1, StatesAfterAcceptance
          DEF IsAccepted, IsRejected, Accepted, Rejected
      <3> QED
        BY <1>1, <3>1, <3>2, StatesAfterAcceptance
    <2> QED
      BY <2>1, <2>2
  <1> QED
    BY <1>3, <1>4, <1>5 DEF ConesConsistent

(* When a pending conflict is accepted, the walks only meet conflicts that *)
(* are pending too: nothing that is decided is decided again.              *)
LEMMA DecisionsAreFinal ==
  ASSUME UnforkedInv, NEW id \in ConflictID, SetConflictAccepted(id),
         ~IsAccepted(id), ~IsRejected(id)
  PROVE  /\ UnforkedInv'
         /\ \A c \in NewlyAccepted(id) : c \in Stored /\ ~IsAccepted(c) /\ ~IsRejected(c)
         /\ \A c \in NewlyRejected(id) : c \in Stored /\ ~IsAccepted(c) /\ ~IsRejected(c)
         /\ Stored' = Stored
         /\ \A c \in ConflictID : IsRejected(c)' <=> IsRejected(c) \/ c \in NewlyRejected(id)
         /\ \A c \in ConflictID : IsAccepted(c)' <=>
              IsAccepted(c) \/ (c \in NewlyAccepted(id) /\ c \notin NewlyRejected(id))
  <1> DEFINE startA == {id} \ {c \in ConflictID : IsAccepted(c)}
             succA  == [c \in ConflictID |-> {p \in parents[c] : ~IsAccepted(p)}]
             accepted == NewlyAccepted(id)
             stays == {c \in ConflictID : IsRejected(c) /\ c \notin accepted}
             startR == (UNION {Conflicting(c) : c \in accepted}) \ stays
             succR  == [c \in ConflictID |-> children[c] \ stays]
             U == {c \in Stored : ~IsAccepted(c) /\ ~IsRejected(c)}
  <1>1. TypeOK /\ ReferencesMirrored /\ AcceptedPastCone /\ RejectedFutureCone /\ ConflictSetsSettled
    BY DEF UnforkedInv, ConesConsistent
  <1>2. accepted \subseteq U
    <2>1. NewlyAccepted(id) = Closure(startA, succA)
      BY DEF NewlyAccepted
    <2>2. startA \in SUBSET ConflictID /\ startA \subseteq U /\ U \in SUBSET ConflictID
      BY DEF Stored, SetConflictAccepted
    <2>3. ASSUME NEW z \in U, NEW p \in succA[z]
          PROVE  p \in U
      <3>0. z \in ConflictID
        BY DEF Stored
      <3>1. p \in parents[z] /\ p \in Stored /\ p \in ConflictID /\ ~IsAccepted(p)
        BY <1>1, <3>0 DEF TypeOK, ReferencesMirrored, Stored
      <3>2. z \in children[p]
        BY <1>1, <3>0, <3>1 DEF ReferencesMirrored
      <3> QED
        BY <1>1, <3>1, <3>2 DEF RejectedFutureCone
    <2> HIDE DEF startA, succA, U
    <2> QED
      BY <2>1, <2>2, <2>3, ClosureIsLeast
  <1>3. NewlyRejected(id) \subseteq U
    <2>1. NewlyRejected(id) = Closure(startR, succR)
      BY DEF NewlyRejected
    <2>2. startR \subseteq U
      <3> SUFFICES ASSUME NEW c \in accepted, NEW d \in Conflicting(c), d \notin stays
                   PROVE  d \in U
        OBVIOUS
      <3>1. d \in Stored /\ d \in ConflictID /\ c \in ConflictID /\ ~IsRejected(c)
        BY <1>1, <1>2 DEF Conflicting, ReferencesMirrored, Stored, TypeOK
      <3>2. ~IsAccepted(d)
        BY <1>1, <3>1, ConflictingIsSymmetric DEF ConflictSetsSettled
      <3>3. IsRejected(d) => d \notin accepted
        BY <1>2
      <3> QED
        BY <3>1, <3>2, <3>3
    <2>3. ASSUME NEW z \in U, NEW d \in succR[z]
          PROVE  d \in U
      <3>0. z \in ConflictID
        BY DEF Stored
      <3>1. d \in children[z] /\ d \in ConflictID /\ d \notin stays
        BY <1>1, <3>0 DEF TypeOK
      <3>2. z \in parents[d]
        BY <1>1, <3>0, <3>1 DEF ReferencesMirrored
      <3>5. d \in Stored
        BY <1>1, <3>1, <3>2 DEF ReferencesMirrored, Stored
      <3>3. ~IsAccepted(d)
        BY <1>1, <3>1, <3>2 DEF AcceptedPastCone
      <3>4. IsRejected(d) => d \notin accepted
        BY <1>2
      <3> QED
        BY <3>1, <3>3, <3>4, <3>5
    <2>4. startR \in SUBSET ConflictID /\ U \in SUBSET ConflictID
      BY <2>2 DEF Stored
    <2> HIDE DEF startR, succR, U
    <2> QED
      BY <2>1, <2>2, <2>3, <2>4, ClosureIsLeast
  <1>4. UnforkedInv'
    <2>1. id \in Stored
      BY DEF SetConflictAccepted, Stored
    <2>2. [Next]_vars
      BY <2>1 DEF Next, Accept
    <2>3. TypeOK' /\ ReferencesMirrored'
      BY <1>1, <2>2, TypeStep, ReferencesStep
    <2> QED
      BY <2>3, AcceptKeepsCones DEF UnforkedInv
  <1>5. \A c \in ConflictID :
          /\ IsAccepted(c)' <=>
               c \notin NewlyRejected(id) /\ (c \in NewlyAccepted(id) \/ IsAccepted(c))
          /\ IsRejected(c)' <=>
               c \in NewlyRejected(id) \/ (IsRejected(c) /\ c \notin NewlyAccepted(id))
    BY <1>1, StatesAfterAcceptance
  <1>6. Stored' = Stored
    <2>1. confirmationState' = [c \in ConflictID |->
             IF c \in NewlyRejected(id) THEN Rejected
             ELSE IF c \in NewlyAccepted(id) THEN Accepted ELSE confirmationState[c]]
      BY DEF SetConflictAccepted
    <2>2. \A c \in ConflictID : confirmationState'[c] # Undefined <=> confirmationState[c] # Undefined
      BY <1>2, <1>3, <2>1 DEF Stored, Exists, Undefined, Rejected, Accepted
    <2> QED
      BY <2>2 DEF Stored, Exists
  <1> HIDE DEF startA, succA, accepted, stays, startR, succR
  <1>7. \A c \in U : c \in Stored /\ c \in ConflictID /\ ~IsAccepted(c) /\ ~IsRejected(c)
    BY DEF Stored
  <1> HIDE DEF U
  <1> QED
    BY <1>2, <1>3, <1>4, <1>5, <1>6, <1>7 DEF accepted

(* Without forks an Accepted conflict has only Accepted ancestors, a       *)
(* Rejected conflict only Rejected descendants, and a conflict set with an *)
(* Accepted member is settled: latecomers are Rejected on arrival.         *)
THEOREM DecidedConesAreConsistent ==
  UnforkedSpec => [](AcceptedPastCone /\ RejectedFutureCone /\ ConflictSetsSettled)
  <1>1. Init => UnforkedInv
    BY DEF Init, UnforkedInv, TypeOK, ReferencesMirrored, ConesConsistent,
           AcceptedPastCone, RejectedFutureCone, ConflictSetsSettled, IsAccepted,
           IsRejected, Exists, Stored, Undefined, Rejected, Pending, Accepted
  <1>2. UnforkedInv /\ [UnforkedNext]_vars => UnforkedInv'
    <2> SUFFICES ASSUME UnforkedInv, [UnforkedNext]_vars
                 PROVE  UnforkedInv'
      OBVIOUS
    <2>1. [Next]_vars
      BY DEF UnforkedNext, Next
    <2>2. TypeOK' /\ ReferencesMirrored'
      BY <2>1, TypeStep, ReferencesStep DEF UnforkedInv
    <2>3. ConesConsistent'
      <3>1. CASE Create
        BY <3>1, CreateKeepsCones DEF Create
      <3>2. CASE Accept
        BY <3>2, AcceptKeepsCones DEF Accept, Stored
      <3>3. CASE UNCHANGED vars
        BY <3>3 DEF vars, UnforkedInv, ConesConsistent, AcceptedPastCone,
                    RejectedFutureCone, ConflictSetsSettled, IsAccepted, IsRejected,
                    Conflicting
      <3> QED
        BY <3>1, <3>2, <3>3 DEF UnforkedNext
    <2> QED
      BY <2>2, <2>3 DEF UnforkedInv
  <1>3. UnforkedInv => AcceptedPastCone /\ RejectedFutureCone /\ ConflictSetsSettled
    BY DEF UnforkedInv, ConesConsistent
  <1> QED
    BY <1>1, <1>2, <1>3, PTL DEF UnforkedSpec
=============================================================================
