-------------------------- MODULE Admission_proofs --------------------------
(***************************************************************************)
(* Proofs about Admission, for any number of Executions, requests and      *)
(* policy edits and any limits.                                            *)
(***************************************************************************)
EXTENDS Admission, FiniteSetTheorems, TLAPS

USE AdmissionAssumption
USE DEF Routes, ActiveRows, RowStates, Answers, Steps, EditSteps, Policies

(***************************************************************************)
(* Type correctness                                                        *)
(***************************************************************************)
\* the policies an edit can write are policies
LEMMA MergedType ==
  ASSUME TypeOK, NEW o \in Operators
  PROVE  Merged(o) \in Policies
<1>1. EditOf[o] \in Edits /\ base[o].policy \in Policies
  BY DEF TypeOK
<1>2. CASE EditOf[o] \in [field : {"enabled"}, to : BOOLEAN]
  BY <1>1, <1>2 DEF Merged
<1>3. CASE EditOf[o] \in [field : {"limit"}, to : 1..MaxLimit]
  BY <1>1, <1>3 DEF Merged
<1> QED
  BY <1>1, <1>2, <1>3 DEF Edits

\* the initial state is of the types
LEMMA TypeInit == Init => TypeOK
<1> SUFFICES ASSUME Init PROVE TypeOK
  OBVIOUS
<1>1. policy \in Policies
  BY DEF Init
<1>2. seen \in [Requests -> Policies] /\ fresh \in [Requests -> BOOLEAN]
      /\ dispatched \in [Ids -> BOOLEAN]
  BY <1>1 DEF Init
<1>3. base \in [Operators -> [policy : Policies, version : Nat]]
  BY <1>1 DEF Init
<1>4. pc \in [Requests -> Steps \union Answers] /\ edit \in [Operators -> EditSteps]
  BY DEF Init, Arrival
<1>5. row \in [Ids -> RowStates] /\ version \in Nat
      /\ admitted \subseteq Ids /\ launched \subseteq Ids
  BY DEF Init
<1> QED
  BY <1>1, <1>2, <1>3, <1>4, <1>5 DEF TypeOK

\* every step keeps the types
LEMMA TypeStep == TypeOK /\ [Next]_vars => TypeOK'
<1> SUFFICES ASSUME TypeOK, [Next]_vars PROVE TypeOK'
  OBVIOUS
<1> USE DEF rows, edits, calls
<1>1. ASSUME NEW r \in Requests, RequestNext(r) PROVE TypeOK'
  <2> IdOf[r] \in Ids
    OBVIOUS
  <2>1. CASE Insert(r)
    <3>1. fresh' \in [Requests -> BOOLEAN]
      BY <2>1 DEF Insert, TypeOK
    <3> QED
      BY <2>1, <3>1 DEF Insert, Step, TypeOK
  <2>2. CASE Read(r)
    BY <2>2 DEF Read, Step, TypeOK
  <2>3. CASE LoadPolicy(r)
    BY <2>3 DEF LoadPolicy, Step, TypeOK
  <2>4. CASE Count(r)
    BY <2>4 DEF Count, Step, TypeOK
  <2>5. CASE Create(r)
    BY <2>5 DEF Create, Step, TypeOK
  <2>6. CASE Stamp(r)
    <3>1. dispatched' \in [Ids -> BOOLEAN]
      BY <2>6 DEF Stamp, TypeOK
    <3>2. pc' \in [Requests -> Steps \union Answers]
      BY <2>6 DEF Stamp, Step, TypeOK
    <3> QED
      BY <2>6, <3>1, <3>2 DEF Stamp, TypeOK
  <2>7. CASE Mark(r)
    <3>1. dispatched' \in [Ids -> BOOLEAN]
      BY <2>7 DEF Mark, TypeOK
    <3>2. row' \in [Ids -> RowStates]
      BY <2>7 DEF Mark, TypeOK
    <3>3. pc' \in [Requests -> Steps \union Answers]
      <4>1. CASE row[IdOf[r]] = "Pending"
        BY <2>7, <4>1 DEF Mark, Step, TypeOK
      <4>2. CASE row[IdOf[r]] # "Pending"
        BY <2>7, <4>2 DEF Mark, Step, TypeOK
      <4> QED
        BY <4>1, <4>2
    <3>4. launched' \subseteq Ids
      BY <2>7 DEF Mark, TypeOK
    <3> QED
      BY <2>7, <3>1, <3>2, <3>3, <3>4 DEF Mark, TypeOK
  <2>8. CASE Inline(r)
    BY <2>8 DEF Inline, Step, TypeOK
  <2> QED
    BY <1>1, <2>1, <2>2, <2>3, <2>4, <2>5, <2>6, <2>7, <2>8 DEF RequestNext
<1>2. ASSUME NEW o \in Operators, EditNext(o) PROVE TypeOK'
  <2>1. CASE EditLoad(o)
    BY <2>1 DEF EditLoad, TypeOK
  <2>2. CASE EditVersion(o)
    BY <2>2 DEF EditVersion, TypeOK
  <2>3. CASE EditWrite(o)
    <3>1. Merged(o) \in Policies /\ base[o].version + 1 \in Nat
      BY MergedType DEF TypeOK
    <3> QED
      BY <2>3, <3>1 DEF EditWrite, TypeOK
  <2> QED
    BY <1>2, <2>1, <2>2, <2>3 DEF EditNext
<1>3. ASSUME NEW e \in Ids, RowNext(e) PROVE TypeOK'
  BY <1>3 DEF RowNext, RunMarks, RunEnds, CancelMarks, CancelEnds, TypeOK
<1>4. CASE UNCHANGED vars
  BY <1>4 DEF vars, TypeOK
<1> QED
  BY <1>1, <1>2, <1>3, <1>4 DEF Next

\* Every variable keeps its type: in particular the stored limit stays in the
\* range the edits allow.
THEOREM TypeCorrect == Spec => []TypeOK
BY TypeInit, TypeStep, PTL DEF Spec

(***************************************************************************)
(* The limit                                                               *)
(***************************************************************************)
\* the IDs that occupy a slot: let through by a gate, and not over
Holding == {e \in admitted : row[e] \in ActiveRows}

\* Strengthened: what was launched was admitted, a request past its gate is
\* for an admitted ID, a request past its insert has a row, and the rows that
\* were admitted and are active fit the limit.
LimitInv ==
  /\ Cardinality(Holding) <= MaxLimit
  /\ launched \subseteq admitted
  /\ \A e \in admitted : row[e] # "none"
  /\ policy.limit > 0
  /\ \A o \in Operators : base[o].policy.limit > 0
  /\ \A r \in Requests :
       /\ pc[r] \notin {"absent", "idle"} => row[IdOf[r]] # "none"
       /\ pc[r] \in {"create", "stamp", "mark", "inline"} => IdOf[r] \in admitted
       /\ seen[r].limit > 0

\* the finite sets the argument counts
LEMMA HoldingFinite ==
  ASSUME TypeOK
  PROVE  /\ IsFiniteSet(Holding) /\ Cardinality(Holding) \in Nat
         /\ \A e : IsFiniteSet(Others(e)) /\ Cardinality(Others(e)) \in Nat
BY FS_Subset, FS_CardinalityType DEF Holding, Others, TypeOK

\* fewer holders never break the limit
LEMMA HoldingShrinks ==
  ASSUME TypeOK, Cardinality(Holding) <= MaxLimit, Holding' \subseteq Holding
  PROVE  Cardinality(Holding') <= MaxLimit
<1>1. /\ IsFiniteSet(Holding) /\ Cardinality(Holding) \in Nat
  BY HoldingFinite
<1>2. Cardinality(Holding') <= Cardinality(Holding) /\ Cardinality(Holding') \in Nat
  BY <1>1, FS_Subset, FS_CardinalityType
<1> QED
  BY <1>1, <1>2

\* The heart of it: the gate of e counts every other active row, admitted or
\* not, so after it lets e through the holders are at most the others and e.
LEMMA CountKeepsLimit ==
  ASSUME TypeOK, LimitInv, NEW r \in Requests, Count(r), pc[r] = "count"
  PROVE  Cardinality(Holding') <= MaxLimit
<1> DEFINE e == IdOf[r]
<1> e \in Ids
  OBVIOUS
<1> row' = row
  BY DEF Count, rows
<1>1. CASE admitted' = admitted
  BY <1>1, HoldingShrinks DEF Holding, LimitInv
<1>2. CASE admitted' = admitted \union {e} /\ ~Refuses(r)
  <2>1. seen[r].limit \in 0..MaxLimit /\ seen[r].limit > 0
    BY DEF TypeOK, LimitInv
  <2>2. IsFiniteSet(Others(e)) /\ Cardinality(Others(e)) \in Nat
    BY HoldingFinite
  <2>3. Cardinality(Others(e)) + 1 <= MaxLimit
    BY <1>2, <2>1, <2>2 DEF Refuses
  <2>4. e \notin Others(e)
    BY DEF Others
  <2>5. Cardinality(Others(e) \union {e}) = Cardinality(Others(e)) + 1
    BY <2>2, <2>4, FS_AddElement
  <2>6. Holding' \subseteq Others(e) \union {e}
    BY <1>2 DEF Holding, Others, TypeOK
  <2>7. IsFiniteSet(Others(e) \union {e})
    BY <2>2, FS_AddElement
  <2>8. Cardinality(Holding') <= Cardinality(Others(e) \union {e})
        /\ Cardinality(Holding') \in Nat
    BY <2>6, <2>7, FS_Subset, FS_CardinalityType
  <2> QED
    BY <2>2, <2>3, <2>5, <2>8
<1> QED
  BY <1>1, <1>2 DEF Count

\* the limit part of the invariant through every step
LEMMA LimitInvStep == TypeOK /\ LimitInv /\ [Next]_vars => LimitInv'
<1> SUFFICES ASSUME TypeOK, LimitInv, [Next]_vars PROVE LimitInv'
  OBVIOUS
<1> USE DEF rows, edits, calls
<1>0. MaxLimit \in Nat
  OBVIOUS
\* what is left to show when the gates and the policy are not involved
<1>1. ASSUME UNCHANGED <<policy, base, seen, admitted>>, launched' \subseteq admitted,
             \A e \in Ids : row[e] \notin ActiveRows => row'[e] \notin ActiveRows \/ e \notin admitted,
             \A e \in Ids : row[e] # "none" => row'[e] # "none",
             \A r \in Requests :
               /\ pc'[r] \notin {"absent", "idle"} => row'[IdOf[r]] # "none"
               /\ pc'[r] \in {"create", "stamp", "mark", "inline"} => IdOf[r] \in admitted
      PROVE  LimitInv'
  <2>1. Holding' \subseteq Holding
    BY <1>1 DEF Holding, TypeOK
  <2> QED
    BY <1>1, <2>1, HoldingShrinks DEF LimitInv, TypeOK
<1>2. ASSUME NEW r \in Requests, RequestNext(r) PROVE LimitInv'
  <2> IdOf[r] \in Ids /\ pc \in [Requests -> Steps \union Answers] /\ row \in [Ids -> RowStates]
    BY DEF TypeOK
  <2>1. CASE Insert(r)
    BY <1>1, <2>1 DEF Insert, Step, LimitInv
  <2>2. CASE Read(r)
    BY <1>1, <2>2 DEF Read, Step, LimitInv
  <2>3. CASE LoadPolicy(r)
    <3>1. Holding' \subseteq Holding
      BY <2>3 DEF LoadPolicy, Holding
    <3>2. Cardinality(Holding') <= MaxLimit
      BY <3>1, HoldingShrinks DEF LimitInv
    <3>3. \A q \in Requests : seen'[q].limit > 0
      BY <2>3 DEF LoadPolicy, LimitInv, TypeOK
    <3> QED
      BY <2>3, <3>2, <3>3 DEF LoadPolicy, Step, LimitInv
  <2>4. CASE Count(r)
    <3>1. Cardinality(Holding') <= MaxLimit
      BY <2>4, CountKeepsLimit DEF Count
    <3>2. admitted \subseteq admitted' /\ admitted' \subseteq admitted \union {IdOf[r]}
      BY <2>4 DEF Count
    <3>3. \A q \in Requests :
            pc'[q] \in {"create", "stamp", "mark", "inline"} => IdOf[q] \in admitted'
      BY <2>4, <3>2 DEF Count, Step, LimitInv
    <3> QED
      BY <2>4, <3>1, <3>2, <3>3 DEF Count, Step, LimitInv
  <2>5. CASE Create(r)
    BY <1>1, <2>5 DEF Create, Step, LimitInv
  <2>6. CASE Stamp(r)
    BY <1>1, <2>6 DEF Stamp, Step, LimitInv
  <2>7. CASE Mark(r)
    BY <1>1, <2>7 DEF Mark, Step, LimitInv
  <2>8. CASE Inline(r)
    BY <1>1, <2>8 DEF Inline, Step, LimitInv
  <2> QED
    BY <1>2, <2>1, <2>2, <2>3, <2>4, <2>5, <2>6, <2>7, <2>8 DEF RequestNext
<1>3. ASSUME NEW o \in Operators, EditNext(o) PROVE LimitInv'
  <2>1. Holding' \subseteq Holding
    BY <1>3 DEF EditNext, EditLoad, EditVersion, EditWrite, Holding
  <2>2. Cardinality(Holding') <= MaxLimit
    BY <2>1, HoldingShrinks DEF LimitInv
  <2>3. CASE EditLoad(o) \/ EditVersion(o)
    <3>1. \A x \in Operators : base'[x].policy.limit > 0
      <4>1. CASE EditLoad(o)
        BY <4>1 DEF EditLoad, LimitInv, TypeOK
      <4>2. CASE EditVersion(o)
        BY <4>2 DEF EditVersion, LimitInv, TypeOK
      <4> QED
        BY <2>3, <4>1, <4>2
    <3>2. UNCHANGED <<row, dispatched, policy, pc, fresh, seen, admitted, launched>>
      BY <2>3 DEF EditLoad, EditVersion
    <3> QED
      BY <2>2, <3>1, <3>2 DEF LimitInv
  <2>4. CASE EditWrite(o)
    <3>1. Merged(o).limit > 0
      <4>1. EditOf[o] \in Edits /\ base[o].policy \in Policies /\ base[o].policy.limit > 0
        BY DEF TypeOK, LimitInv
      <4>2. CASE EditOf[o] \in [field : {"enabled"}, to : BOOLEAN]
        BY <4>1, <4>2 DEF Merged
      <4>3. CASE EditOf[o] \in [field : {"limit"}, to : 1..MaxLimit]
        BY <4>1, <4>3 DEF Merged
      <4> QED
        BY <4>1, <4>2, <4>3 DEF Edits
    <3> QED
      BY <2>2, <2>4, <3>1 DEF EditWrite, LimitInv
  <2> QED
    BY <1>3, <2>3, <2>4 DEF EditNext
<1>4. ASSUME NEW e \in Ids, RowNext(e) PROVE LimitInv'
  BY <1>1, <1>4 DEF RowNext, RunMarks, RunEnds, CancelMarks, CancelEnds, LimitInv, TypeOK
<1>5. CASE UNCHANGED vars
  BY <1>1, <1>5 DEF vars, LimitInv
<1> QED
  BY <1>2, <1>3, <1>4, <1>5 DEF Next

\* the invariant holds at first
LEMMA LimitInit == Init => LimitInv
<1> SUFFICES ASSUME Init PROVE LimitInv
  OBVIOUS
<1>1. Holding = {}
  BY DEF Init, Holding
<1>2. admitted = {} /\ launched = {} /\ pc \in [Requests -> {"idle", "absent"}]
      /\ row = [e \in Ids |-> "none"]
  BY DEF Init, Arrival
<1>3. policy.limit > 0 /\ (\A o \in Operators : base[o].policy.limit > 0)
      /\ \A r \in Requests : seen[r].limit > 0
  BY DEF Init
<1> QED
  BY <1>1, <1>2, <1>3, FS_EmptySet DEF LimitInv

\* However many requests race on however many keys and routes, and however
\* the policy is edited below MaxLimit, no more Executions are under way.
THEOREM AdmissionBound == Spec => []WithinLimit
<1>1. TypeOK /\ LimitInv => WithinLimit
  <2> SUFFICES ASSUME TypeOK, LimitInv PROVE WithinLimit
    OBVIOUS
  <2> DEFINE W == {e \in launched : row[e] \in ActiveRows}
  <2>1. W \subseteq Holding
    BY DEF Holding, LimitInv
  <2>2. IsFiniteSet(Holding) /\ Cardinality(Holding) \in Nat
    BY HoldingFinite
  <2>3. Cardinality(W) <= Cardinality(Holding) /\ Cardinality(W) \in Nat
    BY <2>1, <2>2, FS_Subset, FS_CardinalityType
  <2> QED
    BY <2>2, <2>3 DEF LimitInv, WithinLimit
<1> QED
  BY <1>1, LimitInit, LimitInvStep, TypeCorrect, PTL DEF Spec

\* A confirmed cancel stays confirmed, whichever step is taken.
THEOREM CancelledStays == Spec => CancelledNeverMarks
<1>1. TypeOK /\ [Next]_vars => [\A e \in Ids : row[e] = "Cancelled" => row'[e] = "Cancelled"]_vars
  <2> SUFFICES ASSUME TypeOK, [Next]_vars, NEW e \in Ids, row[e] = "Cancelled"
               PROVE  row'[e] = "Cancelled"
    BY DEF vars
  <2> USE DEF rows, edits, calls
  <2>1. ASSUME NEW r \in Requests, RequestNext(r) PROVE row'[e] = "Cancelled"
    BY <2>1 DEF RequestNext, Insert, Read, LoadPolicy, Count, Create, Stamp, Mark, Inline, TypeOK
  <2>2. ASSUME NEW o \in Operators, EditNext(o) PROVE row'[e] = "Cancelled"
    BY <2>2 DEF EditNext, EditLoad, EditVersion, EditWrite
  <2>3. ASSUME NEW f \in Ids, RowNext(f) PROVE row'[e] = "Cancelled"
    BY <2>3 DEF RowNext, RunMarks, RunEnds, CancelMarks, CancelEnds, TypeOK
  <2> QED
    BY <2>1, <2>2, <2>3 DEF Next, vars
<1> QED
  BY <1>1, TypeCorrect, PTL DEF Spec, CancelledNeverMarks

(***************************************************************************)
(* A provider Action runs once                                             *)
(***************************************************************************)
\* One request creates the row of a key; only it may mark the row, and until
\* it does nothing has started the key's work.
OnceInv ==
  /\ \A r \in Requests : fresh[r] => row[IdOf[r]] # "none"
  /\ \A r, q \in Requests : fresh[r] /\ fresh[q] /\ IdOf[r] = IdOf[q] => r = q
  /\ \A r \in Requests : pc[r] \in {"create", "stamp"} => RouteOf[r] # "provider"
  /\ \A r \in Requests : pc[r] = "mark" => fresh[r]
  /\ \A r \in Requests :
       ProviderKey(IdOf[r]) /\ fresh[r] /\ pc[r] \in {"read", "policy", "count", "mark"}
         => IdOf[r] \notin launched

\* every step keeps it
LEMMA OnceStep == TypeOK /\ LimitInv /\ OnceInv /\ [Next]_vars => OnceInv'
<1> SUFFICES ASSUME TypeOK, LimitInv, OnceInv, [Next]_vars PROVE OnceInv'
  OBVIOUS
<1> USE DEF rows, edits, calls
<1>0. /\ pc \in [Requests -> Steps \union Answers] /\ fresh \in [Requests -> BOOLEAN]
      /\ row \in [Ids -> RowStates] /\ IdOf \in [Requests -> Ids]
  BY DEF TypeOK
\* steps that insert and launch nothing
<1>1. ASSUME UNCHANGED <<fresh, launched>>, \A e \in Ids : row[e] # "none" => row'[e] # "none",
             \A r \in Requests :
               \/ pc'[r] = pc[r]
               \/ pc'[r] \notin {"read", "policy", "count", "create", "stamp", "mark"}
               \/ pc'[r] \in {"policy", "count"} /\ pc[r] \in {"read", "policy"}
               \/ pc'[r] = "mark" /\ pc[r] = "count" /\ fresh[r]
               \/ pc'[r] \in {"create", "stamp"} /\ RouteOf[r] # "provider"
      PROVE  OnceInv'
  <2>1. \A r \in Requests : /\ pc'[r] \in {"create", "stamp"} => RouteOf[r] # "provider"
                            /\ pc'[r] = "mark" => fresh[r]
    BY <1>1 DEF OnceInv
  <2>2. \A r \in Requests :
          ProviderKey(IdOf[r]) /\ fresh[r] /\ pc'[r] \in {"read", "policy", "count", "mark"}
            => IdOf[r] \notin launched
    BY <1>1 DEF OnceInv
  <2>3. \A r \in Requests : fresh[r] => row'[IdOf[r]] # "none"
    BY <1>0, <1>1 DEF OnceInv
  <2> QED
    BY <1>1, <2>1, <2>2, <2>3 DEF OnceInv
<1>2. ASSUME NEW r \in Requests, RequestNext(r) PROVE OnceInv'
  <2>1. CASE Insert(r)
    <3>1. /\ pc[r] = "idle" /\ pc' = [pc EXCEPT ![r] = "read"] /\ launched' = launched
          /\ fresh' = [fresh EXCEPT ![r] = row[IdOf[r]] = "none"]
          /\ row' = [row EXCEPT ![IdOf[r]] = IF @ = "none" THEN "Pending" ELSE @]
      BY <2>1 DEF Insert, Step
    <3>2. \A q \in Requests : fresh'[q] => row'[IdOf[q]] # "none"
      BY <1>0, <3>1 DEF OnceInv
    <3>3. ASSUME NEW q \in Requests, NEW x \in Requests, fresh'[q], fresh'[x], IdOf[q] = IdOf[x]
          PROVE  q = x
      BY <1>0, <3>1, <3>3 DEF OnceInv
    <3>4. \A q \in Requests : /\ pc'[q] \in {"create", "stamp"} => RouteOf[q] # "provider"
                              /\ pc'[q] = "mark" => fresh'[q]
      BY <1>0, <3>1 DEF OnceInv
    <3>5. ASSUME NEW q \in Requests, ProviderKey(IdOf[q]), fresh'[q],
                 pc'[q] \in {"read", "policy", "count", "mark"}
          PROVE  IdOf[q] \notin launched
      <4>1. CASE q = r
        BY <1>0, <3>1, <3>5, <4>1 DEF LimitInv
      <4>2. CASE q # r
        BY <1>0, <3>1, <3>5, <4>2 DEF OnceInv
      <4> QED
        BY <4>1, <4>2
    <3> QED
      BY <3>1, <3>2, <3>3, <3>4, <3>5 DEF OnceInv
  <2>2. CASE Read(r)
    BY <1>0, <1>1, <2>2 DEF Read, Step
  <2>3. CASE LoadPolicy(r)
    BY <1>0, <1>1, <2>3 DEF LoadPolicy, Step
  <2>4. CASE Count(r)
    BY <1>0, <1>1, <2>4 DEF Count, Step
  <2>5. CASE Create(r)
    <3>1. /\ pc[r] = "create" /\ UNCHANGED <<row, fresh>>
          /\ pc' = [pc EXCEPT ![r] = "stamp"] \/ pc' = [pc EXCEPT ![r] = "unconfirmed"]
          /\ launched' \subseteq launched \union {IdOf[r]}
      BY <2>5 DEF Create, Step
    <3>2. ~ProviderKey(IdOf[r])
      BY <3>1 DEF OnceInv, ProviderKey
    <3>3. \A q \in Requests : pc'[q] \in {"create", "stamp"} => RouteOf[q] # "provider"
      BY <1>0, <3>1 DEF OnceInv
    <3>4. \A q \in Requests : pc'[q] \in {"read", "policy", "count", "mark"} => pc'[q] = pc[q]
      BY <1>0, <3>1
    <3> QED
      BY <3>1, <3>2, <3>3, <3>4 DEF OnceInv
  <2>6. CASE Stamp(r)
    BY <1>0, <1>1, <2>6 DEF Stamp, Step
  <2>7. CASE Mark(r)
    <3>1. CASE row[IdOf[r]] = "Pending"
      <4>1. /\ pc[r] = "mark" /\ pc' = [pc EXCEPT ![r] = "inline"] /\ fresh' = fresh
            /\ row' = [row EXCEPT ![IdOf[r]] = "Running"]
            /\ launched' = launched \union {IdOf[r]}
        BY <2>7, <3>1 DEF Mark, Step
      <4>2. \A q \in Requests : fresh[q] /\ IdOf[q] = IdOf[r] => q = r
        BY <4>1 DEF OnceInv
      <4>3. \A q \in Requests : pc'[q] # "inline" => pc'[q] = pc[q] /\ q # r
        BY <1>0, <4>1
      <4>4. \A q \in Requests : fresh[q] => row'[IdOf[q]] # "none"
        BY <1>0, <4>1 DEF OnceInv
      <4> QED
        BY <4>1, <4>2, <4>3, <4>4 DEF OnceInv
    <3>2. CASE row[IdOf[r]] # "Pending"
      <4>1. UNCHANGED <<row, fresh, launched>> /\ \E to \in {"refused", "accepted"} : Step(r, to)
        BY <2>7, <3>2 DEF Mark
      <4> QED
        BY <1>0, <1>1, <4>1 DEF Step
    <3> QED
      BY <3>1, <3>2
  <2>8. CASE Inline(r)
    BY <1>0, <1>1, <2>8 DEF Inline, Step
  <2> QED
    BY <1>2, <2>1, <2>2, <2>3, <2>4, <2>5, <2>6, <2>7, <2>8 DEF RequestNext
<1>3. ASSUME NEW o \in Operators, EditNext(o) PROVE OnceInv'
  BY <1>1, <1>3 DEF EditNext, EditLoad, EditVersion, EditWrite
<1>4. ASSUME NEW e \in Ids, RowNext(e) PROVE OnceInv'
  BY <1>0, <1>1, <1>4 DEF RowNext, RunMarks, RunEnds, CancelMarks, CancelEnds
<1>5. CASE UNCHANGED vars
  BY <1>1, <1>5 DEF vars
<1> QED
  BY <1>2, <1>3, <1>4, <1>5 DEF Next

\* A provider call never runs the Action of its key a second time, whatever
\* replays, cancels and repairs come between its read and its mark.
THEOREM ProviderOnce == Spec => ProviderRunsOnce
<1>1. Init => OnceInv
  BY DEF Init, OnceInv, Arrival
<1>2. TypeOK /\ OnceInv /\ [Next]_vars
        => [\A r \in Requests :
              ProviderKey(IdOf[r]) /\ pc[r] = "mark" /\ pc'[r] = "inline"
                => IdOf[r] \notin launched]_vars
  BY DEF OnceInv
<1> QED
  BY <1>1, <1>2, OnceStep, LimitInit, LimitInvStep, TypeCorrect, PTL DEF Spec, ProviderRunsOnce

(***************************************************************************)
(* Each row is an ExecutionRow                                             *)
(***************************************************************************)
\* who says that work was started, or ends it inline, has started it
WorkInv == \A r \in Requests : pc[r] \in {"stamp", "inline"} => IdOf[r] \in launched

\* Nothing that was started is forgotten.
LEMMA LaunchedGrows == ASSUME [Next]_vars PROVE launched \subseteq launched'
<1>1. ASSUME NEW r \in Requests, RequestNext(r) PROVE launched \subseteq launched'
  BY <1>1 DEF RequestNext, Insert, Read, LoadPolicy, Count, Create, Stamp, Mark, Inline
<1>2. ASSUME NEW o \in Operators, EditNext(o) PROVE launched \subseteq launched'
  BY <1>2 DEF EditNext, EditLoad, EditVersion, EditWrite
<1>3. ASSUME NEW e \in Ids, RowNext(e) PROVE launched \subseteq launched'
  BY <1>3 DEF RowNext, RunMarks, RunEnds, CancelMarks, CancelEnds
<1> QED
  BY <1>1, <1>2, <1>3 DEF Next, vars

\* A request comes to its stamp or its inline run by starting the work.
LEMMA WorkStep == TypeOK /\ WorkInv /\ [Next]_vars => WorkInv'
<1> SUFFICES ASSUME TypeOK, WorkInv, [Next]_vars, NEW q \in Requests,
                    pc'[q] \in {"stamp", "inline"}
             PROVE  IdOf[q] \in launched'
  BY DEF WorkInv
<1> USE DEF calls
<1> pc \in [Requests -> Steps \union Answers]
  BY DEF TypeOK
<1>1. CASE pc'[q] = pc[q]
  BY <1>1, LaunchedGrows DEF WorkInv
<1>2. ASSUME NEW r \in Requests, RequestNext(r) PROVE IdOf[q] \in launched' \/ pc'[q] = pc[q]
  <2>1. CASE r = q
    BY <1>2, <2>1 DEF RequestNext, Insert, Read, LoadPolicy, Count, Create, Stamp, Mark, Inline, Step
  <2>2. CASE r # q
    BY <1>2, <2>2 DEF RequestNext, Insert, Read, LoadPolicy, Count, Create, Stamp, Mark, Inline, Step
  <2> QED
    BY <2>1, <2>2
<1>3. CASE (\E o \in Operators : EditNext(o)) \/ (\E e \in Ids : RowNext(e)) \/ UNCHANGED vars
  BY <1>1, <1>3 DEF EditNext, EditLoad, EditVersion, EditWrite, RowNext, RunMarks, RunEnds,
                    CancelMarks, CancelEnds, vars
<1> QED
  BY <1>1, <1>2, <1>3 DEF Next

\* Every step, seen from one row, is a step of ExecutionRow or leaves the row as it is.
LEMMA RowStep ==
  ASSUME TypeOK, LimitInv, WorkInv, [Next]_vars, NEW e \in Ids
  PROVE  [Row(e)!Next]_(Row(e)!vars)
<1> USE DEF rows, edits, calls, Row!vars
<1> row \in [Ids -> RowStates] /\ dispatched \in [Ids -> BOOLEAN] /\ IdOf \in [Requests -> Ids]
  BY DEF TypeOK
<1>1. ASSUME NEW r \in Requests, RequestNext(r) PROVE [Row(e)!Next]_(Row(e)!vars)
  <2>1. CASE Insert(r)
    BY <2>1 DEF Insert, Row!Next, Row!Insert
  <2>2. CASE Read(r) \/ LoadPolicy(r) \/ Count(r)
    BY <2>2 DEF Read, LoadPolicy, Count
  <2>3. CASE Create(r)
    BY <2>3 DEF Create, LimitInv, Row!Next, Row!Launch
  <2>4. CASE Stamp(r)
    BY <2>4 DEF Stamp, WorkInv, Row!Next, Row!Stamp
  <2>5. CASE Mark(r)
    BY <2>5 DEF Mark, Row!Next, Row!RunInline
  <2>6. CASE Inline(r)
    BY <2>6 DEF Inline, WorkInv, Row!Next, Row!RunEnds
  <2> QED
    BY <1>1, <2>1, <2>2, <2>3, <2>4, <2>5, <2>6 DEF RequestNext
<1>2. ASSUME NEW o \in Operators, EditNext(o) PROVE [Row(e)!Next]_(Row(e)!vars)
  BY <1>2 DEF EditNext, EditLoad, EditVersion, EditWrite
<1>3. ASSUME NEW f \in Ids, RowNext(f) PROVE [Row(e)!Next]_(Row(e)!vars)
  BY <1>3 DEF RowNext, RunMarks, RunEnds, CancelMarks, CancelEnds, Row!Next, Row!RunMarks,
              Row!RunEnds, Row!CancelMarks, Row!CancelEnds
<1>4. CASE UNCHANGED vars
  BY <1>4 DEF vars
<1> QED
  BY <1>1, <1>2, <1>3, <1>4 DEF Next

\* Any number of rows, whatever the three routes do to them at once, are rows
\* as module Executions makes them.
THEOREM RowsImplemented == Spec => ImplementsRows
<1>1. Init => WorkInv /\ \A e \in Ids : Row(e)!Init
  BY DEF Init, WorkInv, Arrival, Row!Init
<1>2. TypeOK /\ LimitInv /\ WorkInv /\ [Next]_vars
        => [\A e \in Ids : [Row(e)!Next]_(Row(e)!vars)]_vars
  BY RowStep
<1> QED
  BY <1>1, <1>2, WorkStep, LimitInit, LimitInvStep, TypeCorrect, PTL DEF Spec, ImplementsRows

=============================================================================
