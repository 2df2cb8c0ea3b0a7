-------------------------- MODULE OAuthTokens_proofs --------------------------
(***************************************************************************)
(* Proofs about OAuthTokens, for any number of refreshers, consents,       *)
(* revokers and operators, any flights and any vendor.                     *)
(***************************************************************************)
EXTENDS OAuthTokens, FiniteSetTheorems, TLAPS

USE OAuthAssumption
USE DEF Writers, Actors, NotDeleted

(***************************************************************************)
(* Type correctness                                                        *)
(***************************************************************************)
\* a healthy row is a row
LEMMA HealthyType ==
  ASSUME NEW gen \in Nat, NEW token \in Tokens
  PROVE  Healthy(gen, token) \in Rows
BY DEF Healthy, Rows, Tokens, Statuses

\* the initial state is of the types
LEMMA TypeInit == Init => TypeOK
<1> SUFFICES ASSUME Init PROVE TypeOK
  OBVIOUS
<1>1. NoToken \in Tokens /\ [access |-> 1, refresh |-> 1] \in Tokens
  BY DEF NoToken, Tokens
<1>2. NoRow \in Rows /\ row \in Rows
  BY <1>1, HealthyType DEF Init, NoRow
<1> QED
  BY <1>1, <1>2 DEF Init, TypeOK, Steps

\* the types through one step of a refresher
LEMMA RefreshType ==
  ASSUME TypeOK, NEW r \in Refreshers, RefreshNext(r)
  PROVE  TypeOK'
<1> USE DEF conn, vendor, held, Steps, Ends
<1>1. CASE RefreshLoad(r)
  BY <1>1 DEF RefreshLoad, Load, Step, TypeOK
<1>2. CASE RefreshPost(r)
  BY <1>2 DEF RefreshPost, Step, TypeOK
<1>3. CASE VendorGrants(r)
  <2>0. issued' \in Nat /\ live \subseteq Nat
    BY <1>3 DEF VendorGrants, TypeOK
  <2>1. live' \subseteq Nat
    <3>1. live' = live \/ live' = (live \ {loaded[r].refresh}) \union {issued'}
      BY <1>3 DEF VendorGrants
    <3> QED
      BY <2>0, <3>1
  <2>2. answer' \in [Actors -> Tokens]
    <3>1. \A rotates \in BOOLEAN :
            [access |-> issued', refresh |-> IF rotates THEN issued' ELSE 0] \in Tokens
      BY <2>0 DEF Tokens
    <3> QED
      BY <1>3, <3>1 DEF VendorGrants, TypeOK
  <2>3. pc' \in [Actors -> Steps \union Ends]
    BY <1>3 DEF VendorGrants, Settle, TypeOK
  <2> QED
    BY <1>3, <2>0, <2>1, <2>2, <2>3 DEF VendorGrants, TypeOK
<1>4. CASE VendorRefuses(r) \/ VendorUnreachable(r)
  <2>1. live' \subseteq Nat
    BY <1>4 DEF VendorRefuses, VendorUnreachable, Unsaid, TypeOK
  <2>2. pc' \in [Actors -> Steps \union Ends]
    BY <1>4 DEF VendorRefuses, VendorUnreachable, Settle, TypeOK
  <2> QED
    BY <1>4, <2>1, <2>2 DEF VendorRefuses, VendorUnreachable, TypeOK
<1>5. CASE FailureReread(r)
  BY <1>5 DEF FailureReread, Step, TypeOK, Rows
<1>6. CASE FailureWrite(r)
  <2>1. row' \in Rows
    <3>1. base[r] + 1 \in Nat /\ row \in Rows
      BY DEF TypeOK
    <3>2. [row EXCEPT !.status = "failed", !.fails = base[r] + 1] \in Rows
      BY <3>1 DEF Rows, Statuses
    <3> QED
      BY <1>6, <3>1, <3>2 DEF FailureWrite
  <2>2. pc' \in [Actors -> Steps \union Ends]
    BY <1>6 DEF FailureWrite, Step, TypeOK
  <2> QED
    BY <1>6, <2>1, <2>2 DEF FailureWrite, TypeOK
<1>7. CASE FailureConflict(r)
  BY <1>7 DEF FailureConflict, Step, TypeOK
<1>8. CASE FailureMerge(r)
  <2>1. row' \in Rows
    BY <1>8 DEF FailureMerge, TypeOK, Rows, Statuses
  <2>2. pc' \in [Actors -> Steps \union Ends]
    BY <1>8 DEF FailureMerge, Step, TypeOK
  <2> QED
    BY <1>8, <2>1, <2>2 DEF FailureMerge, TypeOK
<1> QED
  BY <1>1, <1>2, <1>3, <1>4, <1>5, <1>6, <1>7, <1>8 DEF RefreshNext

\* the types through one write of a refresher or a consent
LEMMA StoreType ==
  ASSUME TypeOK, NEW w \in Writers, StoreNext(w)
  PROVE  TypeOK'
<1> USE DEF conn, vendor, held, Steps, Ends
<1>1. Healthy(1, answer[w]) \in Rows /\ Healthy(row.gen + 1, answer[w]) \in Rows
  BY HealthyType DEF TypeOK, Rows
<1>2. row' \in Rows
  BY <1>1 DEF StoreNext, CheckOwned, Replace, StoreLooks, StoreInserts, TypeOK
<1>3. pc' \in [Actors -> Steps \union Ends]
  BY DEF StoreNext, CheckOwned, Replace, StoreLooks, StoreInserts, Step, TypeOK
<1> QED
  BY <1>2, <1>3 DEF StoreNext, CheckOwned, Replace, StoreLooks, StoreInserts, TypeOK

\* the types through every other step
LEMMA OtherType ==
  ASSUME TypeOK,
         \/ \E c \in Consents : ConsentNext(c)
         \/ \E v \in Revokers : RevokeNext(v)
         \/ \E o \in Operators : OperatorNext(o)
         \/ \E a \in Actors : Crash(a)
         \/ DeleteTokens \/ DeleteMapping
  PROVE  TypeOK'
<1> USE DEF conn, vendor, held, Steps, Ends
<1>1. ASSUME NEW c \in Consents, ConsentNext(c) PROVE TypeOK'
  <2>1. CASE ConsentRead(c)
    BY <2>1 DEF ConsentRead, Load, Step, TypeOK
  <2>2. CASE ConsentExchange(c)
    <3>0. issued' \in Nat
      BY <2>2 DEF ConsentExchange, TypeOK
    <3>1. live' \subseteq Nat /\ answer' \in [Actors -> Tokens]
      <4>1. CASE UNCHANGED <<live, answer>>
        BY <4>1 DEF TypeOK
      <4>2. ASSUME NEW refresh \in {0, issued'},
                   live' = live \union ({refresh} \ {0}),
                   answer' = [answer EXCEPT ![c] = [access |-> issued', refresh |-> refresh]]
            PROVE  live' \subseteq Nat /\ answer' \in [Actors -> Tokens]
        <5>1. [access |-> issued', refresh |-> refresh] \in Tokens
          BY <3>0 DEF Tokens
        <5>2. live' \subseteq Nat
          BY <3>0, <4>2 DEF TypeOK
        <5> QED
          BY <4>2, <5>1, <5>2 DEF TypeOK
      <4> QED
        BY <2>2, <4>1, <4>2 DEF ConsentExchange
    <3>2. pc' \in [Actors -> Steps \union Ends]
      BY <2>2 DEF ConsentExchange, Step, TypeOK
    <3> QED
      BY <2>2, <3>0, <3>1, <3>2 DEF ConsentExchange, TypeOK
  <2> QED
    BY <1>1, <2>1, <2>2 DEF ConsentNext
<1>2. ASSUME NEW v \in Revokers, RevokeNext(v) PROVE TypeOK'
  <2>1. CASE RevokeLoad(v)
    BY <2>1 DEF RevokeLoad, Load, Step, TypeOK
  <2>2. CASE RevokeCall(v)
    <3>1. gone' \subseteq Nat
      <4>1. loaded[v].access \in Nat
        BY DEF TypeOK, Rows
      <4> QED
        BY <2>2, <4>1 DEF RevokeCall, TypeOK
    <3> QED
      BY <2>2, <3>1 DEF RevokeCall, Step, TypeOK
  <2>3. CASE RevokeWrite(v)
    <3>1. row' \in Rows
      BY <2>3 DEF RevokeWrite, TypeOK, Rows, Statuses
    <3>2. pc' \in [Actors -> Steps \union Ends]
      BY <2>3 DEF RevokeWrite, Step, TypeOK
    <3> QED
      BY <2>3, <3>1, <3>2 DEF RevokeWrite, TypeOK
  <2> QED
    BY <1>2, <2>1, <2>2, <2>3 DEF RevokeNext
<1>3. ASSUME NEW o \in Operators, OperatorNext(o) PROVE TypeOK'
  <2>1. CASE OperatorRead(o)
    BY <2>1 DEF OperatorRead, Step, TypeOK, Rows
  <2>2. CASE OperatorWrite(o)
    <3>1. row' \in Rows
      <4>1. base[o] \in Nat /\ base[o] + 1 \in Nat /\ row \in Rows
        BY DEF TypeOK
      <4>2. [row EXCEPT !.status = "revoked", !.fails = base[o]] \in Rows
        BY <4>1 DEF Rows, Statuses
      <4>3. [row EXCEPT !.status = IF @ = "revoked" THEN @ ELSE "failed",
                        !.fails = base[o] + 1] \in Rows
        BY <4>1 DEF Rows, Statuses
      <4> QED
        BY <2>2, <4>1, <4>2, <4>3 DEF OperatorWrite
    <3> QED
      BY <2>2, <3>1 DEF OperatorWrite, Step, TypeOK
  <2> QED
    BY <1>3, <2>1, <2>2 DEF OperatorNext
<1>4. ASSUME NEW a \in Actors, Crash(a) PROVE TypeOK'
  BY <1>4 DEF Crash, Step, TypeOK
<1>5. ASSUME DeleteTokens \/ DeleteMapping PROVE TypeOK'
  <2>1. NoRow \in Rows
    BY HealthyType DEF NoRow, NoToken, Tokens
  <2> QED
    BY <1>5, <2>1 DEF DeleteTokens, DeleteMapping, TypeOK
<1> QED
  BY <1>1, <1>2, <1>3, <1>4, <1>5

\* every step keeps the types
LEMMA TypeStep == TypeOK /\ [Next]_vars => TypeOK'
<1> SUFFICES ASSUME TypeOK, [Next]_vars PROVE TypeOK'
  OBVIOUS
<1>1. CASE UNCHANGED vars
  BY <1>1 DEF vars, conn, vendor, held, TypeOK
<1> QED
  BY <1>1, RefreshType, StoreType, OtherType DEF Next

\* Every variable keeps its type.
THEOREM TypeCorrect == Spec => []TypeOK
BY TypeInit, TypeStep, PTL DEF Spec

\* What one step can do to the row: nothing, a health write within its
\* generation, a replacement, a first store, or the deletion.
LEMMA RowChange ==
  ASSUME TypeOK, [Next]_vars
  PROVE  \/ row' = row
         \/ Exists /\ row'.gen = row.gen /\ row'.access = row.access
         \/ Exists /\ row'.gen = row.gen + 1
         \/ ~Exists /\ row'.gen = 1
         \/ row' = NoRow /\ ~NotDeleted'
<1> USE DEF conn, vendor, held
<1>0. row \in Rows
  BY DEF TypeOK
<1> DEFINE Change == \/ row' = row
                     \/ Exists /\ row'.gen = row.gen /\ row'.access = row.access
                     \/ Exists /\ row'.gen = row.gen + 1
                     \/ ~Exists /\ row'.gen = 1
                     \/ row' = NoRow /\ ~NotDeleted'
<1>1. ASSUME NEW r \in Refreshers, RefreshNext(r) PROVE Change
  <2>1. CASE FailureWrite(r)
    <3>1. \/ row' = row
          \/ Exists /\ row' = [row EXCEPT !.status = "failed", !.fails = base[r] + 1]
      BY <2>1 DEF FailureWrite
    <3> QED
      BY <1>0, <3>1 DEF Rows
  <2>2. CASE FailureMerge(r)
    BY <1>0, <2>2 DEF FailureMerge, Rows
  <2> QED
    BY <1>1, <2>1, <2>2 DEF RefreshNext, RefreshLoad, RefreshPost, VendorGrants,
       VendorRefuses, VendorUnreachable, FailureReread, FailureConflict
<1>2. ASSUME NEW w \in Writers, StoreNext(w) PROVE Change
  <2>1. CASE Replace(w)
    BY <2>1 DEF Replace, Healthy
  <2>2. CASE StoreInserts(w)
    BY <2>2 DEF StoreInserts, Healthy
  <2> QED
    BY <1>2, <2>1, <2>2 DEF StoreNext, CheckOwned, StoreLooks
<1>3. ASSUME NEW c \in Consents, ConsentNext(c) PROVE Change
  BY <1>3 DEF ConsentNext, ConsentRead, ConsentExchange
<1>4. ASSUME NEW v \in Revokers, RevokeNext(v) PROVE Change
  BY <1>0, <1>4 DEF RevokeNext, RevokeLoad, RevokeCall, RevokeWrite, Rows
<1>5. ASSUME NEW o \in Operators, OperatorNext(o) PROVE Change
  <2>1. CASE OperatorWrite(o)
    <3>1. \/ row' = row
          \/ Exists /\ row' = [row EXCEPT !.status = IF @ = "revoked" THEN @ ELSE "failed",
                                          !.fails = base[o] + 1]
          \/ Exists /\ row' = [row EXCEPT !.status = "revoked", !.fails = base[o]]
      BY <2>1 DEF OperatorWrite
    <3> QED
      BY <1>0, <3>1 DEF Rows
  <2> QED
    BY <1>5, <2>1 DEF OperatorNext, OperatorRead
<1>6. ASSUME NEW a \in Actors, Crash(a) PROVE Change
  BY <1>6 DEF Crash
<1>7. CASE DeleteTokens \/ DeleteMapping
  BY <1>7 DEF DeleteTokens, DeleteMapping
<1>8. CASE UNCHANGED vars
  BY <1>8 DEF vars
<1> QED
  BY <1>1, <1>2, <1>3, <1>4, <1>5, <1>6, <1>7, <1>8 DEF Next

(***************************************************************************)
(* Revocation is terminal within a generation                              *)
(***************************************************************************)
\* A refresher compares with the health it loaded, which was usable.
HealthyLoad ==
  \A r \in Refreshers : pc[r] \notin {"absent", "idle"} \union Ends => loaded[r].status = "healthy"

\* the loads stay those of healthy rows
LEMMA HealthyLoadStep == TypeOK /\ HealthyLoad /\ [Next]_vars => HealthyLoad'
<1> SUFFICES ASSUME TypeOK, HealthyLoad, [Next]_vars PROVE HealthyLoad'
  OBVIOUS
<1> USE DEF conn, vendor, held, Steps, Ends
<1> pc \in [Actors -> Steps \union Ends] /\ loaded \in [Actors -> Rows]
  BY DEF TypeOK
<1>1. ASSUME NEW r \in Refreshers, RefreshNext(r) PROVE HealthyLoad'
  <2>1. CASE RefreshLoad(r)
    BY <2>1 DEF RefreshLoad, Load, Step, HealthyLoad
  <2>2. CASE RefreshPost(r)
    BY <2>2 DEF RefreshPost, Step, HealthyLoad
  <2>3. CASE VendorGrants(r) \/ VendorRefuses(r) \/ VendorUnreachable(r)
    BY <2>3 DEF VendorGrants, VendorRefuses, VendorUnreachable, Settle, Flight, HealthyLoad
  <2>4. CASE FailureReread(r) \/ FailureConflict(r)
    BY <2>4 DEF FailureReread, FailureConflict, Step, HealthyLoad
  <2>5. CASE FailureWrite(r)
    BY <2>5 DEF FailureWrite, Step, HealthyLoad
  <2>6. CASE FailureMerge(r)
    BY <2>6 DEF FailureMerge, Step, HealthyLoad
  <2> QED
    BY <1>1, <2>1, <2>2, <2>3, <2>4, <2>5, <2>6 DEF RefreshNext
<1>2. ASSUME NEW w \in Writers, StoreNext(w) PROVE HealthyLoad'
  <2>1. CASE CheckOwned(w) \/ StoreLooks(w)
    BY <2>1 DEF CheckOwned, StoreLooks, Step, HealthyLoad
  <2>2. CASE Replace(w)
    BY <2>2 DEF Replace, Step, HealthyLoad
  <2>3. CASE StoreInserts(w)
    BY <2>3 DEF StoreInserts, Step, HealthyLoad
  <2> QED
    BY <1>2, <2>1, <2>2, <2>3 DEF StoreNext
<1>3. ASSUME NEW c \in Consents, ConsentNext(c) PROVE HealthyLoad'
  BY <1>3 DEF ConsentNext, ConsentRead, ConsentExchange, Load, Step, HealthyLoad
<1>4. ASSUME NEW v \in Revokers, RevokeNext(v) PROVE HealthyLoad'
  BY <1>4 DEF RevokeNext, RevokeLoad, RevokeCall, RevokeWrite, Load, Step, HealthyLoad
<1>5. ASSUME NEW o \in Operators, OperatorNext(o) PROVE HealthyLoad'
  BY <1>5 DEF OperatorNext, OperatorRead, OperatorWrite, Step, HealthyLoad
<1>6. ASSUME NEW a \in Actors, Crash(a) PROVE HealthyLoad'
  BY <1>6 DEF Crash, Step, HealthyLoad
<1>7. CASE DeleteTokens \/ DeleteMapping
  BY <1>7 DEF DeleteTokens, DeleteMapping, HealthyLoad
<1>8. CASE UNCHANGED vars
  BY <1>8 DEF vars, HealthyLoad
<1> QED
  BY <1>1, <1>2, <1>3, <1>4, <1>5, <1>6, <1>7, <1>8 DEF Next

\* "no row" is one value.
NoRowIsHealthy == row.gen = 0 => row = NoRow

\* no write leaves a row of generation 0
LEMMA NoRowStep == TypeOK /\ NoRowIsHealthy /\ [Next]_vars => NoRowIsHealthy'
<1> SUFFICES ASSUME TypeOK, NoRowIsHealthy, [Next]_vars PROVE NoRowIsHealthy'
  OBVIOUS
<1> USE DEF conn, vendor, held
<1>0. row \in Rows /\ row.gen \in Nat /\ row.gen + 1 # 0
  BY DEF TypeOK, Rows
<1>1. CASE row' = row
  BY <1>1 DEF NoRowIsHealthy
<1>2. CASE Exists /\ row'.gen = row.gen
  BY <1>0, <1>2 DEF Exists, NoRowIsHealthy
<1>3. CASE row'.gen > 0
  BY <1>3 DEF NoRowIsHealthy
<1>4. CASE row' = NoRow
  BY <1>4 DEF NoRowIsHealthy
<1>5. row' = row \/ (Exists /\ row'.gen = row.gen) \/ row'.gen > 0 \/ row' = NoRow
  <2>1. Exists => row.gen + 1 > 0
    BY <1>0
  <2> QED
    BY <2>1, RowChange
<1> QED
  BY <1>1, <1>2, <1>3, <1>4, <1>5

\* One step out of a revoked row leaves it revoked or leaves its generation.
LEMMA RevokedStep ==
  ASSUME TypeOK, HealthyLoad, NoRowIsHealthy, [Next]_vars,
         row.status = "revoked", row'.gen = row.gen
  PROVE  row'.status = "revoked"
<1> USE DEF conn, vendor, held, Steps, Ends
<1>0. row \in Rows /\ row.gen \in Nat /\ row.gen + 1 # row.gen
  BY DEF TypeOK, Rows
<1>1. ASSUME NEW r \in Refreshers, RefreshNext(r) PROVE row'.status = "revoked"
  <2>1. CASE FailureWrite(r)
    <3>1. loaded[r].status = "healthy"
      BY <2>1 DEF FailureWrite, HealthyLoad
    <3> QED
      BY <2>1, <3>1 DEF FailureWrite, Observed
  <2>2. CASE FailureMerge(r)
    BY <1>0, <2>2 DEF FailureMerge, Rows
  <2> QED
    BY <1>1, <2>1, <2>2 DEF RefreshNext, RefreshLoad, RefreshPost, VendorGrants,
       VendorRefuses, VendorUnreachable, FailureReread, FailureConflict
<1>2. ASSUME NEW w \in Writers, StoreNext(w) PROVE row'.status = "revoked"
  <2>1. CASE Replace(w)
    BY <1>0, <2>1 DEF Replace, Healthy
  <2>2. CASE StoreInserts(w)
    BY <1>0, <2>2 DEF StoreInserts, Healthy, Exists
  <2> QED
    BY <1>2, <2>1, <2>2 DEF StoreNext, CheckOwned, StoreLooks
<1>3. ASSUME NEW c \in Consents, ConsentNext(c) PROVE row'.status = "revoked"
  BY <1>3 DEF ConsentNext, ConsentRead, ConsentExchange
<1>4. ASSUME NEW v \in Revokers, RevokeNext(v) PROVE row'.status = "revoked"
  BY <1>0, <1>4 DEF RevokeNext, RevokeLoad, RevokeCall, RevokeWrite, Rows
<1>5. ASSUME NEW o \in Operators, OperatorNext(o) PROVE row'.status = "revoked"
  <2>1. CASE OperatorWrite(o)
    <3>1. row' = row \/ row' = [row EXCEPT !.status = IF @ = "revoked" THEN @ ELSE "failed",
                                           !.fails = base[o] + 1]
          \/ row' = [row EXCEPT !.status = "revoked", !.fails = base[o]]
      BY <2>1 DEF OperatorWrite
    <3> QED
      BY <1>0, <3>1 DEF Rows
  <2> QED
    BY <1>5, <2>1 DEF OperatorNext, OperatorRead
<1>6. ASSUME NEW a \in Actors, Crash(a) PROVE row'.status = "revoked"
  BY <1>6 DEF Crash
<1>7. CASE DeleteTokens \/ DeleteMapping
  BY <1>7 DEF DeleteTokens, DeleteMapping, NoRowIsHealthy, NoRow, Healthy
<1> QED
  BY <1>1, <1>2, <1>3, <1>4, <1>5, <1>6, <1>7 DEF Next, vars

\* A revoked row stays revoked until a new generation replaces it: no late
\* failure write, merge, revocation or operator write brings it back.
THEOREM RevokedTerminal == Spec => RevokedIsTerminal
<1>1. Init => HealthyLoad /\ NoRowIsHealthy
  <2> SUFFICES ASSUME Init PROVE HealthyLoad /\ NoRowIsHealthy
    OBVIOUS
  <2>1. HealthyLoad
    BY DEF Init, HealthyLoad
  <2>2. NoRowIsHealthy
    BY DEF Init, NoRowIsHealthy, NoRow, Healthy
  <2> QED
    BY <2>1, <2>2
<1>2. TypeOK /\ HealthyLoad /\ NoRowIsHealthy /\ [Next]_vars
        => [row.status = "revoked" /\ row'.gen = row.gen => row'.status = "revoked"]_row
  BY RevokedStep
<1> QED
  BY <1>1, <1>2, TypeCorrect, HealthyLoadStep, NoRowStep, PTL DEF Spec, RevokedIsTerminal

(***************************************************************************)
(* One winner per generation                                               *)
(***************************************************************************)
Winners == {w \in Writers : pc[w] \in {"replaced", "stored"}}

\* Strengthened: while the Connection is not being deleted generations only
\* grow, so the row is past every load and beyond every winner's load.
WinnerInv ==
  /\ \A w \in Writers : pc[w] \in {"exists", "insert"} => loaded[w].gen = 0
  /\ NotDeleted =>
       /\ \A a \in Actors : loaded[a].gen <= row.gen
       /\ \A a \in Actors : loaded[a].gen = row.gen => loaded[a].access = row.access
       /\ \A w \in Winners : loaded[w].gen < row.gen
       /\ \A w, q \in Winners : w # q => loaded[w].gen # loaded[q].gen

\* a load is taken by an actor that has not won, and of the current row
LEMMA LoadKeeps ==
  ASSUME TypeOK, WinnerInv, NEW a \in Actors, Load(a), pc[a] = "idle",
         NEW to \in (Steps \union Ends) \ {"replaced", "stored", "exists", "insert"}, Step(a, to),
         UNCHANGED <<row, deleting>>
  PROVE  WinnerInv'
<1> USE DEF Steps, Ends
<1>1. loaded' = [loaded EXCEPT ![a] = row] /\ pc' = [pc EXCEPT ![a] = to]
  BY DEF Load, Step
<1>2. Winners' = Winners /\ a \notin Winners
  BY <1>1 DEF Winners, TypeOK
<1>3. \A w \in Writers : pc'[w] \in {"exists", "insert"} => loaded'[w].gen = 0
  BY <1>1 DEF WinnerInv, TypeOK
<1>4. row.gen \in Nat
  BY DEF TypeOK, Rows
<1>5. \A b \in Actors : loaded'[b] = IF b = a THEN row ELSE loaded[b]
  BY <1>1 DEF TypeOK
<1> QED
  BY <1>2, <1>3, <1>4, <1>5 DEF WinnerInv, Winners

\* steps that neither load, nor touch the row, nor make a winner
LEMMA QuietKeeps ==
  ASSUME TypeOK, WinnerInv, UNCHANGED <<row, loaded>>,
         NotDeleted' => NotDeleted,
         Winners' \subseteq Winners,
         \A w \in Writers : pc'[w] \in {"exists", "insert"} => loaded[w].gen = 0
  PROVE  WinnerInv'
BY DEF WinnerInv

\* health writes keep generation and tokens
LEMMA HealthKeeps ==
  ASSUME TypeOK, WinnerInv, UNCHANGED <<loaded, deleting>>,
         row'.gen = row.gen, row'.access = row.access,
         Winners' = Winners,
         \A w \in Writers : pc'[w] \in {"exists", "insert"} => loaded[w].gen = 0
  PROVE  WinnerInv'
BY DEF WinnerInv

\* a replacement or a first store: the new winner loaded the current generation
LEMMA WinKeeps ==
  ASSUME TypeOK, WinnerInv, UNCHANGED <<loaded, deleting>>,
         NEW w \in Writers, loaded[w].gen = row.gen, row'.gen = row.gen + 1,
         Winners' = Winners \union {w},
         \A q \in Writers : pc'[q] \in {"exists", "insert"} => loaded[q].gen = 0
  PROVE  WinnerInv'
<1>1. row.gen \in Nat /\ \A a \in Actors : loaded[a].gen \in Nat
  BY DEF TypeOK, Rows
<1>2. SUFFICES ASSUME NotDeleted
               PROVE  /\ \A a \in Actors : loaded[a].gen < row'.gen
                      /\ \A x, q \in Winners' : x # q => loaded[x].gen # loaded[q].gen
  BY <1>1 DEF WinnerInv, Winners
<1>3. \A a \in Actors : loaded[a].gen < row'.gen
  BY <1>1, <1>2 DEF WinnerInv
<1>4. \A q \in Winners : loaded[q].gen < loaded[w].gen /\ q \in Actors
  BY <1>2 DEF WinnerInv, Winners
<1>5. \A x, q \in Winners' : x # q => loaded[x].gen # loaded[q].gen
  <2> SUFFICES ASSUME NEW x \in Winners', NEW q \in Winners', x # q
               PROVE  loaded[x].gen # loaded[q].gen
    OBVIOUS
  <2>1. CASE x = w
    BY <1>1, <1>4, <2>1
  <2>2. CASE q = w
    BY <1>1, <1>4, <2>2
  <2>3. CASE x \in Winners /\ q \in Winners
    BY <1>2, <2>3 DEF WinnerInv
  <2> QED
    BY <2>1, <2>2, <2>3
<1> QED
  BY <1>3, <1>5

\* every step keeps the invariant
LEMMA WinnerStep == TypeOK /\ NoRowIsHealthy /\ WinnerInv /\ [Next]_vars => WinnerInv'
<1> SUFFICES ASSUME TypeOK, NoRowIsHealthy, WinnerInv, [Next]_vars PROVE WinnerInv'
  OBVIOUS
<1> USE DEF conn, vendor, held
<1>0. row \in Rows /\ pc \in [Actors -> Steps \union Ends]
  BY DEF TypeOK
\* a step of one actor to a place that is no winner's
<1>a. ASSUME NEW a \in Actors, NEW to, Step(a, to),
             to \notin {"replaced", "stored", "exists", "insert"}
      PROVE  /\ Winners' \subseteq Winners
             /\ pc[a] \notin {"replaced", "stored"} => Winners' = Winners
             /\ \A w \in Writers : pc'[w] \in {"exists", "insert"} => loaded[w].gen = 0
  <2>1. pc' = [pc EXCEPT ![a] = to]
    BY <1>a DEF Step
  <2> QED
    BY <1>0, <1>a, <2>1 DEF Winners, WinnerInv
<1>1. ASSUME NEW r \in Refreshers, RefreshNext(r) PROVE WinnerInv'
  <2>1. CASE RefreshLoad(r)
    <3> DEFINE to == IF ~Exists THEN "notfound"
                     ELSE IF row.status # "healthy" THEN "unusable"
                     ELSE IF row.refresh = 0 THEN "unavailable" ELSE "post"
    <3>1. to \in (Steps \union Ends) \ {"replaced", "stored", "exists", "insert"}
      BY DEF Steps, Ends
    <3> QED
      BY <2>1, <3>1, LoadKeeps DEF RefreshLoad
  <2>2. CASE RefreshPost(r)
    BY <1>a, <2>2, QuietKeeps DEF RefreshPost
  <2>3. CASE VendorGrants(r) \/ VendorRefuses(r) \/ VendorUnreachable(r)
    <3>1. \A a \in Actors : pc'[a] \in {"check", "reread", "unreachable"} \/ pc'[a] = pc[a]
      BY <2>3 DEF VendorGrants, VendorRefuses, VendorUnreachable, Settle
    <3>2. Winners' \subseteq Winners
          /\ \A w \in Writers : pc'[w] \in {"exists", "insert"} => loaded[w].gen = 0
      BY <3>1 DEF Winners, WinnerInv
    <3> QED
      BY <2>3, <3>2, QuietKeeps DEF VendorGrants, VendorRefuses, VendorUnreachable
  <2>4. CASE FailureReread(r) \/ FailureConflict(r)
    <3>1. \E to \in {"failwrite", "notfound", "stale", "merge"} : Step(r, to)
      BY <2>4 DEF FailureReread, FailureConflict
    <3> QED
      BY <1>a, <2>4, <3>1, QuietKeeps DEF FailureReread, FailureConflict
  <2>5. CASE FailureWrite(r) \/ FailureMerge(r)
    <3>1. /\ \E to \in {"failed", "conflict", "notfound", "stale"} : Step(r, to)
          /\ pc[r] \notin {"replaced", "stored"} /\ UNCHANGED <<loaded, deleting>>
      BY <2>5 DEF FailureWrite, FailureMerge
    <3>2. row'.gen = row.gen /\ row'.access = row.access
      <4>1. \/ row' = row
            \/ row' = [row EXCEPT !.status = "failed", !.fails = base[r] + 1]
            \/ row' = [row EXCEPT !.fails = @ + 1]
        BY <2>5 DEF FailureWrite, FailureMerge
      <4> QED
        BY <1>0, <4>1 DEF Rows
    <3> QED
      BY <1>a, <3>1, <3>2, HealthKeeps
  <2> QED
    BY <1>1, <2>1, <2>2, <2>3, <2>4, <2>5 DEF RefreshNext
<1>2. ASSUME NEW w \in Writers, StoreNext(w) PROVE WinnerInv'
  <2>0. loaded[w].gen \in Nat /\ row.gen \in Nat
    BY DEF TypeOK, Rows
  <2>1. CASE CheckOwned(w) \/ StoreLooks(w)
    <3>1. /\ pc[w] \in {"check", "exists"} /\ UNCHANGED <<row, loaded, deleting>>
          /\ \E to \in {"notfound", "exists", "replace", "stale", "insert"} :
               /\ Step(w, to)
               /\ to \in {"exists", "insert"} => loaded[w].gen = 0
      BY <2>1 DEF CheckOwned, StoreLooks, WinnerInv
    <3>2. PICK to \in {"notfound", "exists", "replace", "stale", "insert"} :
             Step(w, to) /\ (to \in {"exists", "insert"} => loaded[w].gen = 0)
      BY <3>1
    <3>3. pc' = [pc EXCEPT ![w] = to]
      BY <3>2 DEF Step
    <3>4. Winners' \subseteq Winners
      BY <1>0, <3>3 DEF Winners
    <3>5. \A q \in Writers : pc'[q] \in {"exists", "insert"} => loaded[q].gen = 0
      BY <1>0, <3>2, <3>3 DEF WinnerInv
    <3> QED
      BY <3>1, <3>4, <3>5, QuietKeeps
  <2>2. CASE Replace(w) \/ StoreInserts(w)
    <3>0. UNCHANGED <<loaded, deleting>> /\ pc[w] \in {"replace", "insert"}
      BY <2>2 DEF Replace, StoreInserts
    <3>1. CASE Step(w, "stale") \/ Step(w, "notfound")
      <4>1. row' = row
        BY <1>0, <2>2, <3>1 DEF Replace, StoreInserts, Step, TypeOK
      <4> QED
        BY <1>a, <3>0, <3>1, <4>1, QuietKeeps
    <3>2. CASE Step(w, "replaced") \/ Step(w, "stored")
      <4>1. loaded[w].gen = row.gen /\ row'.gen = row.gen + 1
        BY <1>0, <2>0, <2>2, <3>2 DEF Replace, StoreInserts, Step, Healthy, Exists, WinnerInv
      <4>2. PICK to \in {"replaced", "stored"} : pc' = [pc EXCEPT ![w] = to]
        BY <3>2 DEF Step
      <4>3. Winners' = Winners \union {w}
        BY <1>0, <4>2 DEF Winners
      <4>4. \A q \in Writers : pc'[q] \in {"exists", "insert"} => loaded[q].gen = 0
        BY <1>0, <4>2 DEF WinnerInv
      <4> QED
        BY <3>0, <4>1, <4>3, <4>4, WinKeeps
    <3> QED
      BY <2>2, <3>1, <3>2 DEF Replace, StoreInserts
  <2> QED
    BY <1>2, <2>1, <2>2 DEF StoreNext
<1>3. ASSUME NEW c \in Consents, ConsentNext(c) PROVE WinnerInv'
  <2>1. CASE ConsentRead(c)
    <3>1. (IF owned THEN "exchange" ELSE "notfound")
            \in (Steps \union Ends) \ {"replaced", "stored", "exists", "insert"}
      BY DEF Steps, Ends
    <3> QED
      BY <2>1, <3>1, LoadKeeps DEF ConsentRead
  <2>2. CASE ConsentExchange(c)
    <3>1. Step(c, "refused") \/ Step(c, "check")
      BY <2>2 DEF ConsentExchange
    <3> QED
      BY <1>a, <2>2, <3>1, QuietKeeps DEF ConsentExchange
  <2> QED
    BY <1>3, <2>1, <2>2 DEF ConsentNext
<1>4. ASSUME NEW v \in Revokers, RevokeNext(v) PROVE WinnerInv'
  <2>1. CASE RevokeLoad(v)
    <3>1. (IF Exists THEN "revoking" ELSE "notfound")
            \in (Steps \union Ends) \ {"replaced", "stored", "exists", "insert"}
      BY DEF Steps, Ends
    <3> QED
      BY <2>1, <3>1, LoadKeeps DEF RevokeLoad
  <2>2. CASE RevokeCall(v)
    <3>1. Step(v, "revokewrite") \/ Step(v, "refused")
      BY <2>2 DEF RevokeCall
    <3> QED
      BY <1>a, <2>2, <3>1, QuietKeeps DEF RevokeCall
  <2>3. CASE RevokeWrite(v)
    <3>1. /\ \E to \in {"revoked", "stale", "notfound"} : Step(v, to)
          /\ pc[v] \notin {"replaced", "stored"} /\ UNCHANGED <<loaded, deleting>>
      BY <2>3 DEF RevokeWrite
    <3>2. row'.gen = row.gen /\ row'.access = row.access
      BY <1>0, <2>3 DEF RevokeWrite, Rows
    <3> QED
      BY <1>a, <3>1, <3>2, HealthKeeps
  <2> QED
    BY <1>4, <2>1, <2>2, <2>3 DEF RevokeNext
<1>5. ASSUME NEW o \in Operators, OperatorNext(o) PROVE WinnerInv'
  <2>1. /\ \E to \in {"opwrite", "notfound", "done"} : Step(o, to)
        /\ pc[o] \notin {"replaced", "stored"} /\ UNCHANGED <<loaded, deleting>>
    BY <1>5 DEF OperatorNext, OperatorRead, OperatorWrite
  <2>2. row'.gen = row.gen /\ row'.access = row.access
    <3>1. \/ row' = row
          \/ row' = [row EXCEPT !.status = IF @ = "revoked" THEN @ ELSE "failed",
                                !.fails = base[o] + 1]
          \/ row' = [row EXCEPT !.status = "revoked", !.fails = base[o]]
      BY <1>5 DEF OperatorNext, OperatorRead, OperatorWrite
    <3> QED
      BY <1>0, <3>1 DEF Rows
  <2> QED
    BY <1>a, <2>1, <2>2, HealthKeeps
<1>6. ASSUME NEW a \in Actors, Crash(a) PROVE WinnerInv'
  BY <1>a, <1>6, QuietKeeps DEF Crash
<1>7. CASE DeleteTokens \/ DeleteMapping
  BY <1>7 DEF DeleteTokens, DeleteMapping, WinnerInv
<1>8. CASE UNCHANGED vars
  BY <1>8, QuietKeeps DEF vars, Winners, WinnerInv
<1> QED
  BY <1>1, <1>2, <1>3, <1>4, <1>5, <1>6, <1>7, <1>8 DEF Next

\* the invariant holds at first
LEMMA WinnerInit == Init => WinnerInv /\ NoRowIsHealthy
<1> SUFFICES ASSUME Init PROVE WinnerInv /\ NoRowIsHealthy
  OBVIOUS
<1>1. row.gen \in {0, 1} /\ (row.gen = 0 => row = NoRow)
  BY DEF Init, NoRow, Healthy
<1>2. NoRow.gen = 0
  BY DEF NoRow, Healthy
<1>3. Winners = {}
  BY DEF Init, Winners
<1> QED
  BY <1>1, <1>2, <1>3 DEF Init, WinnerInv, NoRowIsHealthy

\* However refreshes and consents race, at most one of them replaces each
\* generation: the conditional write is a compare-and-swap that nobody skips.
THEOREM OneWinner == Spec => []OneWinnerPerGeneration
<1>1. WinnerInv => OneWinnerPerGeneration
  BY DEF WinnerInv, Winners, OneWinnerPerGeneration
<1> QED
  BY <1>1, WinnerInit, WinnerStep, NoRowStep, TypeCorrect, PTL DEF Spec

(***************************************************************************)
(* What is revoked was confirmed                                           *)
(***************************************************************************)
\* A revoker writes only after the vendor confirmed its own loaded token.
Confirmed == \A v \in Revokers : pc[v] = "revokewrite" => loaded[v].access \in gone

\* every step keeps it
LEMMA ConfirmedStep == TypeOK /\ Confirmed /\ [Next]_vars => Confirmed'
<1> SUFFICES ASSUME TypeOK, Confirmed, [Next]_vars PROVE Confirmed'
  OBVIOUS
<1> USE DEF conn, vendor, held
<1>0. pc \in [Actors -> Steps \union Ends] /\ loaded \in [Actors -> Rows]
  BY DEF TypeOK
<1>1. ASSUME NEW r \in Refreshers, RefreshNext(r) PROVE Confirmed'
  <2>1. \A v \in Revokers : pc'[v] = pc[v] /\ loaded'[v] = loaded[v]
    <3>1. CASE VendorGrants(r) \/ VendorRefuses(r) \/ VendorUnreachable(r)
      BY <3>1 DEF VendorGrants, VendorRefuses, VendorUnreachable, Settle, Flight
    <3>2. CASE RefreshLoad(r)
      BY <1>0, <3>2 DEF RefreshLoad, Load, Step
    <3>3. CASE RefreshPost(r) \/ FailureReread(r) \/ FailureConflict(r)
               \/ FailureWrite(r) \/ FailureMerge(r)
      <4>1. loaded' = loaded /\ \E to : Step(r, to)
        BY <3>3 DEF RefreshPost, FailureReread, FailureConflict, FailureWrite, FailureMerge
      <4> QED
        BY <1>0, <4>1 DEF Step
    <3> QED
      BY <1>1, <3>1, <3>2, <3>3 DEF RefreshNext
  <2>2. gone' = gone
    BY <1>1 DEF RefreshNext, RefreshLoad, RefreshPost, VendorGrants, VendorRefuses,
       VendorUnreachable, FailureReread, FailureWrite, FailureConflict, FailureMerge
  <2> QED
    BY <2>1, <2>2 DEF Confirmed
<1>2. ASSUME NEW w \in Writers, StoreNext(w) PROVE Confirmed'
  <2>1. UNCHANGED <<loaded, gone>> /\ \E to : Step(w, to)
    BY <1>2 DEF StoreNext, CheckOwned, Replace, StoreLooks, StoreInserts
  <2> QED
    BY <1>0, <2>1 DEF Step, Confirmed
<1>3. ASSUME NEW c \in Consents, ConsentNext(c) PROVE Confirmed'
  BY <1>0, <1>3 DEF ConsentNext, ConsentRead, ConsentExchange, Load, Step, Confirmed
<1>4. ASSUME NEW v \in Revokers, RevokeNext(v) PROVE Confirmed'
  <2>1. CASE RevokeLoad(v)
    BY <1>0, <2>1 DEF RevokeLoad, Load, Step, Confirmed
  <2>2. CASE RevokeCall(v)
    BY <1>0, <2>2 DEF RevokeCall, Step, Confirmed
  <2>3. CASE RevokeWrite(v)
    <3>1. /\ UNCHANGED <<loaded, gone>>
          /\ \E to \in {"revoked", "stale", "notfound"} : Step(v, to)
      BY <2>3 DEF RevokeWrite
    <3> QED
      BY <1>0, <3>1 DEF Step, Confirmed
  <2> QED
    BY <1>4, <2>1, <2>2, <2>3 DEF RevokeNext
<1>5. ASSUME NEW o \in Operators, OperatorNext(o) PROVE Confirmed'
  <2>1. UNCHANGED <<loaded, gone>> /\ \E to : Step(o, to)
    BY <1>5 DEF OperatorNext, OperatorRead, OperatorWrite
  <2> QED
    BY <1>0, <2>1 DEF Step, Confirmed
<1>6. ASSUME NEW a \in Actors, Crash(a) PROVE Confirmed'
  BY <1>0, <1>6 DEF Crash, Step, Confirmed
<1>7. CASE DeleteTokens \/ DeleteMapping
  BY <1>7 DEF DeleteTokens, DeleteMapping, Confirmed
<1>8. CASE UNCHANGED vars
  BY <1>8 DEF vars, Confirmed
<1> QED
  BY <1>1, <1>2, <1>3, <1>4, <1>5, <1>6, <1>7, <1>8 DEF Next

\* the steps that decide nothing about revocation keep RevokedIsConfirmed
LEMMA RevokedKeeps ==
  ASSUME TypeOK, RevokedIsConfirmed, gone \subseteq gone',
         NotDeleted' => NotDeleted,
         row'.status = "revoked" => row.status = "revoked" /\ row'.access = row.access,
         \A o \in Operators : pc[o] = "done" => pc'[o] = "done"
  PROVE  RevokedIsConfirmed'
BY DEF RevokedIsConfirmed

\* every step keeps RevokedIsConfirmed: the generation a revoker compares with
\* identifies the token the vendor confirmed
LEMMA RevokedConfirmedStep ==
  TypeOK /\ WinnerInv /\ Confirmed /\ RevokedIsConfirmed /\ [Next]_vars => RevokedIsConfirmed'
<1> SUFFICES ASSUME TypeOK, WinnerInv, Confirmed, RevokedIsConfirmed, [Next]_vars
             PROVE  RevokedIsConfirmed'
  OBVIOUS
<1> USE DEF conn, vendor, held
<1>0. row \in Rows /\ pc \in [Actors -> Steps \union Ends]
  BY DEF TypeOK
<1>1. ASSUME NEW r \in Refreshers, RefreshNext(r) PROVE RevokedIsConfirmed'
  <2>1. \A o \in Operators : pc'[o] = pc[o]
    <3>1. CASE VendorGrants(r) \/ VendorRefuses(r) \/ VendorUnreachable(r)
      BY <3>1 DEF VendorGrants, VendorRefuses, VendorUnreachable, Settle, Flight
    <3>2. CASE RefreshLoad(r) \/ RefreshPost(r) \/ FailureReread(r) \/ FailureConflict(r)
               \/ FailureWrite(r) \/ FailureMerge(r)
      <4>1. \E to : Step(r, to)
        BY <3>2 DEF RefreshLoad, RefreshPost, FailureReread, FailureConflict, FailureWrite,
           FailureMerge
      <4> QED
        BY <1>0, <4>1 DEF Step
    <3> QED
      BY <1>1, <3>1, <3>2 DEF RefreshNext
  <2>2. UNCHANGED <<gone, deleting>>
    BY <1>1 DEF RefreshNext, RefreshLoad, RefreshPost, VendorGrants, VendorRefuses,
       VendorUnreachable, FailureReread, FailureWrite, FailureConflict, FailureMerge
  <2>3. \/ row' = row
        \/ row' = [row EXCEPT !.status = "failed", !.fails = base[r] + 1]
        \/ row' = [row EXCEPT !.fails = @ + 1]
    BY <1>1 DEF RefreshNext, RefreshLoad, RefreshPost, VendorGrants, VendorRefuses,
       VendorUnreachable, FailureReread, FailureWrite, FailureConflict, FailureMerge
  <2>4. row'.status = "revoked" => row.status = "revoked" /\ row'.access = row.access
    BY <1>0, <2>3 DEF Rows
  <2> QED
    BY <2>1, <2>2, <2>4, RevokedKeeps
<1>2. ASSUME NEW w \in Writers, StoreNext(w) PROVE RevokedIsConfirmed'
  <2>1. UNCHANGED <<gone, deleting>> /\ \E to : Step(w, to)
    BY <1>2 DEF StoreNext, CheckOwned, Replace, StoreLooks, StoreInserts
  <2>2. row' = row \/ row'.status = "healthy"
    BY <1>2 DEF StoreNext, CheckOwned, Replace, StoreLooks, StoreInserts, Healthy
  <2>3. \A o \in Operators : pc'[o] = pc[o]
    BY <1>0, <2>1 DEF Step
  <2> QED
    BY <2>1, <2>2, <2>3, RevokedKeeps
<1>3. ASSUME NEW c \in Consents, ConsentNext(c) PROVE RevokedIsConfirmed'
  <2>1. UNCHANGED <<row, gone, deleting>> /\ \E to : Step(c, to)
    BY <1>3 DEF ConsentNext, ConsentRead, ConsentExchange
  <2>2. \A o \in Operators : pc'[o] = pc[o]
    BY <1>0, <2>1 DEF Step
  <2> QED
    BY <2>1, <2>2, RevokedKeeps
<1>4. ASSUME NEW v \in Revokers, RevokeNext(v) PROVE RevokedIsConfirmed'
  <2>1. gone \subseteq gone' /\ deleting' = deleting /\ \E to : Step(v, to)
    BY <1>4 DEF RevokeNext, RevokeLoad, RevokeCall, RevokeWrite
  <2>2. \A o \in Operators : pc'[o] = pc[o]
    BY <1>0, <2>1 DEF Step
  <2>3. CASE RevokeWrite(v) /\ Exists /\ row.gen = loaded[v].gen
    <3>1. row'.access = row.access
      BY <1>0, <2>3 DEF RevokeWrite, Rows
    <3>2. NotDeleted => loaded[v].access = row.access
      BY <2>3 DEF WinnerInv
    <3>3. loaded[v].access \in gone
      BY <2>3 DEF RevokeWrite, Confirmed
    <3> QED
      BY <2>1, <3>1, <3>2, <3>3 DEF RevokedIsConfirmed
  <2>4. CASE row' = row
    BY <2>1, <2>2, <2>4, RevokedKeeps
  <2> QED
    BY <1>4, <2>3, <2>4 DEF RevokeNext, RevokeLoad, RevokeCall, RevokeWrite
<1>5. ASSUME NEW o \in Operators, OperatorNext(o) PROVE RevokedIsConfirmed'
  <2>1. CASE OperatorWrite(o)
    <3>1. pc' = [pc EXCEPT ![o] = "done"] /\ UNCHANGED <<gone, deleting>>
      BY <2>1 DEF OperatorWrite, Step
    <3>2. CASE Decides[o] = "revoked"
      BY <1>0, <3>1, <3>2 DEF RevokedIsConfirmed
    <3>3. CASE Decides[o] # "revoked"
      <4>1. \/ row' = row
            \/ row' = [row EXCEPT !.status = IF @ = "revoked" THEN @ ELSE "failed",
                                  !.fails = base[o] + 1]
        BY <2>1, <3>3 DEF OperatorWrite
      <4>2. row'.status = "revoked" => row.status = "revoked" /\ row'.access = row.access
        BY <1>0, <4>1 DEF Rows
      <4>3. \A p \in Operators : pc[p] = "done" => pc'[p] = "done"
        BY <1>0, <3>1
      <4> QED
        BY <3>1, <4>2, <4>3, RevokedKeeps
    <3> QED
      BY <3>2, <3>3
  <2>2. CASE OperatorRead(o)
    <3>1. UNCHANGED <<row, gone, deleting>> /\ pc[o] = "idle" /\ \E to : Step(o, to)
      BY <2>2 DEF OperatorRead
    <3>2. \A p \in Operators : pc[p] = "done" => pc'[p] = "done"
      BY <1>0, <3>1 DEF Step
    <3> QED
      BY <3>1, <3>2, RevokedKeeps
  <2> QED
    BY <1>5, <2>1, <2>2 DEF OperatorNext
<1>6. ASSUME NEW a \in Actors, Crash(a) PROVE RevokedIsConfirmed'
  <2>1. UNCHANGED <<row, gone, deleting>> /\ pc[a] # "done" /\ pc' = [pc EXCEPT ![a] = "crashed"]
    BY <1>6 DEF Crash, Step, Ends
  <2>2. \A p \in Operators : pc[p] = "done" => pc'[p] = "done"
    BY <1>0, <2>1
  <2> QED
    BY <2>1, <2>2, RevokedKeeps
<1>7. CASE DeleteTokens \/ DeleteMapping
  BY <1>7 DEF DeleteTokens, DeleteMapping, RevokedIsConfirmed
<1>8. CASE UNCHANGED vars
  BY <1>8 DEF vars, RevokedIsConfirmed
<1> QED
  BY <1>1, <1>2, <1>3, <1>4, <1>5, <1>6, <1>7, <1>8 DEF Next

\* A row shows "revoked" only for the token whose revocation the vendor
\* confirmed, never for the one that replaced it during the vendor call.
THEOREM RevokedConfirmed == Spec => []RevokedIsConfirmed
<1>1. Init => Confirmed /\ RevokedIsConfirmed
  BY DEF Init, Confirmed, RevokedIsConfirmed, Healthy, NoRow
<1> QED
  BY <1>1, WinnerInit, WinnerStep, NoRowStep, ConfirmedStep, RevokedConfirmedStep,
     TypeCorrect, PTL DEF Spec

(***************************************************************************)
(* The Connection is there until its deletion ends                         *)
(***************************************************************************)
\* The Connection is there until its deletion is done.
OwnedUntilDone == (owned <=> deleting # "done")

\* only the deletion touches either
LEMMA OwnedStep == OwnedUntilDone /\ [Next]_vars => OwnedUntilDone'
<1> SUFFICES ASSUME OwnedUntilDone, [Next]_vars PROVE OwnedUntilDone'
  OBVIOUS
<1> USE DEF conn, vendor, held, OwnedUntilDone
<1>1. CASE DeleteTokens \/ DeleteMapping
  BY <1>1 DEF DeleteTokens, DeleteMapping
<1>2. CASE ~(DeleteTokens \/ DeleteMapping)
  <2>1. UNCHANGED <<owned, deleting>>
    BY <1>2 DEF Next, vars, RefreshNext, RefreshLoad, RefreshPost, VendorGrants,
       VendorRefuses, VendorUnreachable, FailureReread, FailureWrite, FailureConflict,
       FailureMerge, StoreNext, CheckOwned, Replace, StoreLooks, StoreInserts,
       ConsentNext, ConsentRead, ConsentExchange, RevokeNext, RevokeLoad, RevokeCall,
       RevokeWrite, OperatorNext, OperatorRead, OperatorWrite, Crash
  <2> QED
    BY <2>1
<1> QED
  BY <1>1, <1>2

(***************************************************************************)
(* Failures are counted                                                    *)
(***************************************************************************)
NoDecision == \A o \in Operators : pc[o] # "done"
Counted == {r \in Refreshers : pc[r] = "failed" /\ loaded[r].gen = row.gen}

\* Strengthened: within a generation the count only grows, so a failure write
\* that finds the count of its load also finds the count of its reread, and
\* what it writes is one more.
CountInv ==
  NotDeleted /\ NoDecision =>
    /\ IsFiniteSet(Counted) /\ row.fails = Cardinality(Counted)
    /\ \A r \in Refreshers : loaded[r].gen = row.gen =>
         /\ loaded[r].fails <= row.fails
         /\ pc[r] = "failwrite" => loaded[r].fails <= base[r] /\ base[r] <= row.fails

\* steps that neither count, nor load, nor replace
LEMMA CountQuiet ==
  ASSUME TypeOK, CountInv, NotDeleted' => NotDeleted, NoDecision' => NoDecision,
         UNCHANGED <<loaded, base>>, row'.gen = row.gen, row'.fails = row.fails,
         \A r \in Refreshers : /\ pc'[r] = "failed" <=> pc[r] = "failed"
                               /\ pc'[r] = "failwrite" => pc[r] = "failwrite"
  PROVE  CountInv'
<1>1. Counted' = Counted
  BY DEF Counted
<1> QED
  BY <1>1 DEF CountInv

\* a load starts at the current count
LEMMA CountLoad ==
  ASSUME TypeOK, CountInv, NEW a \in Actors, Load(a), pc[a] = "idle",
         NEW to, to \notin {"failed", "failwrite", "done"}, Step(a, to),
         UNCHANGED <<row, deleting, base>>
  PROVE  CountInv'
<1>1. pc' = [pc EXCEPT ![a] = to] /\ \A b \in Actors : loaded'[b] = IF b = a THEN row ELSE loaded[b]
  BY DEF Load, Step, TypeOK
<1>2. Counted' = Counted
  BY <1>1 DEF Counted, TypeOK
<1>3. NoDecision' => NoDecision
  BY <1>1 DEF NoDecision, TypeOK
<1>4. row.fails \in Nat
  BY DEF TypeOK, Rows
<1>5. ASSUME NotDeleted', NoDecision', NEW r \in Refreshers, loaded'[r].gen = row'.gen
      PROVE  /\ loaded'[r].fails <= row'.fails
             /\ pc'[r] = "failwrite" => loaded'[r].fails <= base'[r] /\ base'[r] <= row'.fails
  <2>1. CASE r = a
    BY <1>1, <1>4, <2>1 DEF TypeOK
  <2>2. CASE r # a
    BY <1>1, <1>3, <1>5, <2>2 DEF CountInv, TypeOK
  <2> QED
    BY <2>1, <2>2
<1> QED
  BY <1>2, <1>3, <1>5 DEF CountInv

\* a new generation starts at no failure, and nobody has loaded it
LEMMA CountFresh ==
  ASSUME TypeOK, WinnerInv, NotDeleted' => NotDeleted,
         row'.gen = row.gen + 1, row'.fails = 0, loaded' = loaded
  PROVE  CountInv'
<1>1. SUFFICES ASSUME NotDeleted
               PROVE  /\ IsFiniteSet(Counted') /\ row'.fails = Cardinality(Counted')
                      /\ \A r \in Refreshers : loaded[r].gen # row'.gen
  BY DEF CountInv
<1>2. \A r \in Refreshers : loaded[r].gen # row'.gen
  BY <1>1 DEF WinnerInv, TypeOK, Rows
<1>3. Counted' = {}
  BY <1>2 DEF Counted
<1> QED
  BY <1>2, <1>3, FS_EmptySet

\* one more failure of the generation is one more refresher that failed
LEMMA CountUp ==
  ASSUME TypeOK, CountInv, NEW r \in Refreshers, UNCHANGED <<deleting, loaded, base>>,
         pc[r] # "failed", Step(r, "failed"), loaded[r].gen = row.gen,
         row'.gen = row.gen, NotDeleted /\ NoDecision => row'.fails = row.fails + 1
  PROVE  CountInv'
<1>1. pc' = [pc EXCEPT ![r] = "failed"]
  BY DEF Step
<1>2. NoDecision' => NoDecision
  BY <1>1 DEF NoDecision, TypeOK
<1>3. Counted' = Counted \union {r} /\ r \notin Counted
  BY <1>1 DEF Counted, TypeOK
<1>4. SUFFICES ASSUME NotDeleted, NoDecision
               PROVE  /\ IsFiniteSet(Counted') /\ row'.fails = Cardinality(Counted')
                      /\ \A q \in Refreshers : loaded[q].gen = row.gen =>
                           /\ loaded[q].fails <= row'.fails
                           /\ pc'[q] = "failwrite" =>
                                loaded[q].fails <= base[q] /\ base[q] <= row'.fails
  BY <1>2 DEF CountInv
<1>5. IsFiniteSet(Counted') /\ row'.fails = Cardinality(Counted')
  BY <1>3, <1>4, FS_AddElement DEF CountInv
<1>6. row.fails \in Nat /\ \A q \in Actors : loaded[q].fails \in Nat /\ base[q] \in Nat
  BY DEF TypeOK, Rows
<1>7. ASSUME NEW q \in Refreshers, loaded[q].gen = row.gen
      PROVE  /\ loaded[q].fails <= row'.fails
             /\ pc'[q] = "failwrite" => loaded[q].fails <= base[q] /\ base[q] <= row'.fails
  <2>1. pc'[q] = "failwrite" => pc[q] = "failwrite"
    BY <1>1 DEF TypeOK
  <2> QED
    BY <1>4, <1>6, <1>7, <2>1 DEF CountInv
<1> QED
  BY <1>5, <1>7

\* every step keeps the count
LEMMA CountStep == TypeOK /\ WinnerInv /\ CountInv /\ [Next]_vars => CountInv'
<1> SUFFICES ASSUME TypeOK, WinnerInv, CountInv, [Next]_vars PROVE CountInv'
  OBVIOUS
<1> USE DEF conn, vendor, held
<1>0. row \in Rows /\ pc \in [Actors -> Steps \union Ends]
  BY DEF TypeOK
\* a step of one actor to a place of no failure
<1>a. ASSUME NEW a \in Actors, NEW to, Step(a, to), to \notin {"failed", "failwrite"},
             pc[a] \notin {"failed", "done"}
      PROVE  /\ NoDecision' => NoDecision
             /\ \A r \in Refreshers : /\ pc'[r] = "failed" <=> pc[r] = "failed"
                                      /\ pc'[r] = "failwrite" => pc[r] = "failwrite"
  BY <1>0, <1>a DEF Step, NoDecision
<1>1. ASSUME NEW r \in Refreshers, RefreshNext(r) PROVE CountInv'
  <2>1. CASE RefreshLoad(r)
    <3>1. (IF ~Exists THEN "notfound"
           ELSE IF row.status # "healthy" THEN "unusable"
           ELSE IF row.refresh = 0 THEN "unavailable" ELSE "post")
             \notin {"failed", "failwrite", "done"}
      OBVIOUS
    <3> QED
      BY <2>1, <3>1, CountLoad DEF RefreshLoad
  <2>2. CASE RefreshPost(r)
    BY <1>a, <2>2, CountQuiet DEF RefreshPost
  <2>3. CASE VendorGrants(r) \/ VendorRefuses(r) \/ VendorUnreachable(r)
    <3>1. \A a \in Actors : \/ pc'[a] = pc[a]
                            \/ pc[a] = "flying" /\ pc'[a] \in {"check", "reread", "unreachable"}
      BY <2>3 DEF VendorGrants, VendorRefuses, VendorUnreachable, Settle, Flight
    <3>2. NoDecision' => NoDecision
      BY <3>1 DEF NoDecision
    <3>3. UNCHANGED <<row, deleting, loaded, base>>
      BY <2>3 DEF VendorGrants, VendorRefuses, VendorUnreachable
    <3> QED
      BY <3>1, <3>2, <3>3, CountQuiet
  <2>4. CASE FailureReread(r)
    <3>1. /\ pc' = [pc EXCEPT ![r] = IF Exists THEN "failwrite" ELSE "notfound"]
          /\ pc[r] = "reread" /\ base' = [base EXCEPT ![r] = row.fails]
          /\ UNCHANGED <<row, deleting, loaded>>
      BY <2>4 DEF FailureReread, Step
    <3>2. Counted' = Counted /\ (NoDecision' => NoDecision)
      BY <1>0, <3>1 DEF Counted, NoDecision
    <3>3. row.fails \in Nat
      BY <1>0 DEF Rows
    <3>4. ASSUME NotDeleted', NoDecision', NEW q \in Refreshers, loaded'[q].gen = row'.gen
          PROVE  /\ loaded'[q].fails <= row'.fails
                 /\ pc'[q] = "failwrite" => loaded'[q].fails <= base'[q] /\ base'[q] <= row'.fails
      <4>1. loaded[q].fails <= row.fails
        BY <3>1, <3>2, <3>4 DEF CountInv
      <4>2. CASE q = r
        BY <3>1, <3>3, <4>1, <4>2 DEF TypeOK
      <4>3. CASE q # r
        BY <3>1, <3>2, <3>4, <4>3 DEF CountInv, TypeOK
      <4> QED
        BY <4>2, <4>3
    <3> QED
      BY <3>1, <3>2, <3>4 DEF CountInv
  <2>5. CASE FailureWrite(r)
    <3>1. CASE Exists /\ Observed(r)
      <4>1. /\ row' = [row EXCEPT !.status = "failed", !.fails = base[r] + 1]
            /\ Step(r, "failed") /\ pc[r] = "failwrite" /\ UNCHANGED <<deleting, loaded, base>>
        BY <2>5, <3>1 DEF FailureWrite
      <4>2. loaded[r].gen = row.gen /\ loaded[r].fails = row.fails
        BY <3>1 DEF Observed
      <4>3. NotDeleted /\ NoDecision => base[r] = row.fails
        BY <1>0, <4>1, <4>2 DEF CountInv, TypeOK, Rows
      <4>4. row'.gen = row.gen /\ row'.fails = base[r] + 1
        BY <1>0, <4>1 DEF Rows
      <4> QED
        BY <4>1, <4>2, <4>3, <4>4, CountUp
    <3>2. CASE ~(Exists /\ Observed(r))
      BY <1>a, <2>5, <3>2, CountQuiet DEF FailureWrite
    <3> QED
      BY <3>1, <3>2
  <2>6. CASE FailureConflict(r)
    <3>1. \E to \in {"notfound", "stale", "merge"} : Step(r, to)
      BY <2>6 DEF FailureConflict
    <3> QED
      BY <1>a, <2>6, <3>1, CountQuiet DEF FailureConflict
  <2>7. CASE FailureMerge(r)
    <3>1. CASE Exists /\ row.gen = loaded[r].gen
      <4>1. row'.gen = row.gen /\ row'.fails = row.fails + 1
        BY <1>0, <2>7, <3>1 DEF FailureMerge, Rows
      <4> QED
        BY <2>7, <3>1, <4>1, CountUp DEF FailureMerge
    <3>2. CASE ~(Exists /\ row.gen = loaded[r].gen)
      <4>1. \E to \in {"notfound", "stale"} : Step(r, to)
        BY <2>7, <3>2 DEF FailureMerge
      <4> QED
        BY <1>a, <2>7, <3>2, <4>1, CountQuiet DEF FailureMerge
    <3> QED
      BY <3>1, <3>2
  <2> QED
    BY <1>1, <2>1, <2>2, <2>3, <2>4, <2>5, <2>6, <2>7 DEF RefreshNext
<1>2. ASSUME NEW w \in Writers, StoreNext(w) PROVE CountInv'
  <2>1. CASE row' = row
    <3>1. /\ pc[w] \in {"check", "replace", "exists", "insert"}
          /\ UNCHANGED <<row, deleting, loaded, base>>
          /\ \E to : Step(w, to) /\ to \notin {"failed", "failwrite"}
      BY <1>2, <2>1 DEF StoreNext, CheckOwned, Replace, StoreLooks, StoreInserts
    <3> QED
      BY <1>a, <3>1, CountQuiet
  <2>2. CASE row' # row
    <3>1. loaded' = loaded /\ deleting' = deleting
      BY <1>2, <2>2 DEF StoreNext, CheckOwned, Replace, StoreLooks, StoreInserts
    <3>2. row'.gen = row.gen + 1 /\ row'.fails = 0
      BY <1>0, <1>2, <2>2 DEF StoreNext, CheckOwned, Replace, StoreLooks, StoreInserts,
         Healthy, Exists, Rows
    <3> QED
      BY <3>1, <3>2, CountFresh
  <2> QED
    BY <2>1, <2>2
<1>3. ASSUME NEW c \in Consents, ConsentNext(c) PROVE CountInv'
  <2>1. CASE ConsentRead(c)
    <3>1. (IF owned THEN "exchange" ELSE "notfound") \notin {"failed", "failwrite", "done"}
      OBVIOUS
    <3> QED
      BY <2>1, <3>1, CountLoad DEF ConsentRead
  <2>2. CASE ConsentExchange(c)
    <3>1. Step(c, "refused") \/ Step(c, "check")
      BY <2>2 DEF ConsentExchange
    <3> QED
      BY <1>a, <2>2, <3>1, CountQuiet DEF ConsentExchange
  <2> QED
    BY <1>3, <2>1, <2>2 DEF ConsentNext
<1>4. ASSUME NEW v \in Revokers, RevokeNext(v) PROVE CountInv'
  <2>1. CASE RevokeLoad(v)
    <3>1. (IF Exists THEN "revoking" ELSE "notfound") \notin {"failed", "failwrite", "done"}
      OBVIOUS
    <3> QED
      BY <2>1, <3>1, CountLoad DEF RevokeLoad
  <2>2. CASE RevokeCall(v)
    <3>1. Step(v, "revokewrite") \/ Step(v, "refused")
      BY <2>2 DEF RevokeCall
    <3> QED
      BY <1>a, <2>2, <3>1, CountQuiet DEF RevokeCall
  <2>3. CASE RevokeWrite(v)
    <3>1. \E to \in {"revoked", "stale", "notfound"} : Step(v, to)
      BY <2>3 DEF RevokeWrite
    <3>2. row'.gen = row.gen /\ row'.fails = row.fails
      BY <1>0, <2>3 DEF RevokeWrite, Rows
    <3> QED
      BY <1>a, <2>3, <3>1, <3>2, CountQuiet DEF RevokeWrite
  <2> QED
    BY <1>4, <2>1, <2>2, <2>3 DEF RevokeNext
<1>5. ASSUME NEW o \in Operators, OperatorNext(o) PROVE CountInv'
  <2>1. CASE OperatorRead(o)
    <3>1. /\ pc' = [pc EXCEPT ![o] = IF Exists THEN "opwrite" ELSE "notfound"]
          /\ base' = [base EXCEPT ![o] = row.fails]
          /\ pc[o] = "idle" /\ UNCHANGED <<row, deleting, loaded>>
      BY <2>1 DEF OperatorRead, Step
    <3>2. \A r \in Refreshers : pc'[r] = pc[r] /\ base'[r] = base[r]
      BY <1>0, <3>1
    <3>3. Counted' = Counted /\ (NoDecision' => NoDecision)
      BY <1>0, <3>1, <3>2 DEF Counted, NoDecision
    <3> QED
      BY <3>1, <3>2, <3>3 DEF CountInv
  <2>2. CASE OperatorWrite(o)
    <3>1. ~NoDecision'
      BY <1>0, <2>2 DEF OperatorWrite, Step, NoDecision
    <3> QED
      BY <3>1 DEF CountInv
  <2> QED
    BY <1>5, <2>1, <2>2 DEF OperatorNext
<1>6. ASSUME NEW a \in Actors, Crash(a) PROVE CountInv'
  BY <1>a, <1>6, CountQuiet DEF Crash, Ends
<1>7. CASE DeleteTokens \/ DeleteMapping
  BY <1>7 DEF DeleteTokens, DeleteMapping, CountInv
<1>8. CASE UNCHANGED vars
  BY <1>8, CountQuiet DEF vars, NoDecision
<1> QED
  BY <1>1, <1>2, <1>3, <1>4, <1>5, <1>6, <1>7, <1>8 DEF Next

\* Every failed use of the stored token is counted once and no other, however
\* failure writes, merges, revocations and replacements interleave.
THEOREM FailuresAreCounted == Spec => []FailuresCounted
<1>1. Init => CountInv
  <2> SUFFICES ASSUME Init PROVE CountInv
    OBVIOUS
  <2>1. Counted = {}
    BY DEF Init, Counted
  <2>2. row.fails = 0 /\ \A r \in Refreshers : loaded[r].fails = 0 /\ pc[r] # "failwrite"
    BY DEF Init, NoRow, Healthy
  <2> QED
    BY <2>1, <2>2, FS_EmptySet DEF CountInv
<1>2. CountInv => FailuresCounted
  BY DEF CountInv, FailuresCounted, Counted, NoDecision
<1> QED
  BY <1>1, <1>2, WinnerInit, WinnerStep, NoRowStep, CountStep, TypeCorrect, PTL DEF Spec

(***************************************************************************)
(* A healthy row is live                                                   *)
(***************************************************************************)
\* tokens are numbered as the vendor issues them
TokenInv ==
  /\ row.refresh <= issued
  /\ \A a \in Actors : loaded[a].refresh <= issued /\ answer[a].refresh <= issued

\* every step keeps the numbering
LEMMA TokenStep == TypeOK /\ TokenInv /\ [Next]_vars => TokenInv'
<1> SUFFICES ASSUME TypeOK, TokenInv, [Next]_vars PROVE TokenInv'
  OBVIOUS
<1> USE DEF conn, vendor, held
<1>0. /\ row \in Rows /\ issued \in Nat
      /\ loaded \in [Actors -> Rows] /\ answer \in [Actors -> Tokens]
  BY DEF TypeOK
<1>1. CASE UNCHANGED <<issued, answer>>
  <2>1. row'.refresh <= issued
    <3>1. \/ row' = row
          \/ \E fails \in Nat, status \in Statuses :
               row' = [row EXCEPT !.status = status, !.fails = fails]
          \/ \E w \in Writers, gen \in Nat : row' = Healthy(gen, answer[w])
          \/ row' = NoRow
      <4>1. CASE DeleteTokens \/ DeleteMapping
        BY <4>1 DEF DeleteTokens, DeleteMapping
      <4>2. ASSUME NEW w \in Writers, StoreNext(w)
            PROVE  row' = row \/ \E gen \in Nat : row' = Healthy(gen, answer[w])
        <5>1. row.gen + 1 \in Nat
          BY <1>0 DEF Rows
        <5> QED
          BY <4>2, <5>1 DEF StoreNext, CheckOwned, Replace, StoreLooks, StoreInserts
      <4>3. ASSUME NEW r \in Refreshers, RefreshNext(r)
            PROVE  row' = row \/ \E fails \in Nat, status \in Statuses :
                                   row' = [row EXCEPT !.status = status, !.fails = fails]
        <5>1. row.fails + 1 \in Nat /\ base[r] + 1 \in Nat /\ "failed" \in Statuses
              /\ row.status \in Statuses
          BY <1>0 DEF TypeOK, Rows, Statuses
        <5>2. [row EXCEPT !.fails = @ + 1]
                = [row EXCEPT !.status = row.status, !.fails = row.fails + 1]
          BY <1>0 DEF Rows
        <5> QED
          BY <4>3, <5>1, <5>2 DEF RefreshNext, RefreshLoad, RefreshPost, VendorGrants,
             VendorRefuses, VendorUnreachable, FailureReread, FailureWrite, FailureConflict,
             FailureMerge
      <4>4. ASSUME NEW v \in Revokers, RevokeNext(v)
            PROVE  row' = row \/ \E fails \in Nat, status \in Statuses :
                                   row' = [row EXCEPT !.status = status, !.fails = fails]
        <5>1. [row EXCEPT !.status = "revoked"]
                = [row EXCEPT !.status = "revoked", !.fails = row.fails]
          BY <1>0 DEF Rows
        <5>2. row.fails \in Nat /\ "revoked" \in Statuses
          BY <1>0 DEF Rows, Statuses
        <5> QED
          BY <4>4, <5>1, <5>2 DEF RevokeNext, RevokeLoad, RevokeCall, RevokeWrite
      <4>5. ASSUME NEW o \in Operators, OperatorNext(o)
            PROVE  row' = row \/ \E fails \in Nat, status \in Statuses :
                                   row' = [row EXCEPT !.status = status, !.fails = fails]
        <5>1. base[o] \in Nat /\ base[o] + 1 \in Nat /\ {"failed", "revoked"} \subseteq Statuses
          BY DEF TypeOK, Statuses
        <5>2. (IF row.status = "revoked" THEN row.status ELSE "failed") \in Statuses
          BY <1>0 DEF Rows, Statuses
        <5> QED
          BY <4>5, <5>1, <5>2 DEF OperatorNext, OperatorRead, OperatorWrite
      <4>6. ASSUME NEW c \in Consents, ConsentNext(c) PROVE row' = row
        BY <4>6 DEF ConsentNext, ConsentRead, ConsentExchange
      <4>7. ASSUME NEW a \in Actors, Crash(a) PROVE row' = row
        BY <4>7 DEF Crash
      <4> QED
        BY <4>1, <4>2, <4>3, <4>4, <4>5, <4>6, <4>7 DEF Next, vars
    <3>2. NoRow.refresh = 0
      BY DEF NoRow, NoToken, Healthy
    <3>3. ASSUME NEW fails \in Nat, NEW status \in Statuses,
                 row' = [row EXCEPT !.status = status, !.fails = fails]
          PROVE  row'.refresh = row.refresh
      BY <1>0, <3>3 DEF Rows
    <3>4. \A w \in Writers, gen \in Nat : Healthy(gen, answer[w]).refresh = answer[w].refresh
      BY DEF Healthy
    <3>5. \/ row'.refresh = row.refresh \/ row'.refresh = 0
          \/ \E w \in Writers : row'.refresh = answer[w].refresh
      BY <3>1, <3>2, <3>3, <3>4
    <3> QED
      BY <1>0, <1>1, <3>5 DEF TokenInv
  <2>2. \A a \in Actors : loaded'[a] = loaded[a] \/ loaded'[a] = row
    BY <1>0 DEF Next, vars, RefreshNext, RefreshLoad, RefreshPost, VendorGrants, VendorRefuses,
       VendorUnreachable, FailureReread, FailureWrite, FailureConflict, FailureMerge, StoreNext,
       CheckOwned, Replace, StoreLooks, StoreInserts, ConsentNext, ConsentRead, ConsentExchange,
       RevokeNext, RevokeLoad, RevokeCall, RevokeWrite, OperatorNext, OperatorRead,
       OperatorWrite, Crash, DeleteTokens, DeleteMapping, Load
  <2> QED
    BY <1>1, <2>1, <2>2 DEF TokenInv
<1>2. CASE ~UNCHANGED <<issued, answer>>
  <2>1. /\ UNCHANGED <<row, loaded>> /\ issued' = issued + 1
        /\ \A a \in Actors : answer'[a].refresh \in {answer[a].refresh, 0, issued'}
    <3>1. ASSUME NEW r \in Refreshers, VendorGrants(r)
          PROVE  /\ UNCHANGED <<row, loaded>> /\ issued' = issued + 1
                 /\ \A a \in Actors : answer'[a].refresh \in {answer[a].refresh, 0, issued'}
      BY <3>1 DEF VendorGrants
    <3>2. ASSUME NEW c \in Consents, ConsentExchange(c)
          PROVE  /\ UNCHANGED <<row, loaded>> /\ issued' = issued + 1
                 /\ \A a \in Actors : answer'[a].refresh \in {answer[a].refresh, 0, issued'}
      BY <1>0, <1>2, <3>2 DEF ConsentExchange
    <3> QED
      BY <1>2, <3>1, <3>2 DEF Next, vars, RefreshNext, RefreshLoad, RefreshPost, VendorRefuses,
         VendorUnreachable, FailureReread, FailureWrite, FailureConflict, FailureMerge, StoreNext,
         CheckOwned, Replace, StoreLooks, StoreInserts, ConsentNext, ConsentRead, RevokeNext,
         RevokeLoad, RevokeCall, RevokeWrite, OperatorNext, OperatorRead, OperatorWrite, Crash,
         DeleteTokens, DeleteMapping
  <2>2. \A a \in Actors : answer[a].refresh \in Nat /\ loaded[a].refresh \in Nat
    BY <1>0 DEF Tokens, Rows
  <2>3. row.refresh \in Nat
    BY <1>0 DEF Rows
  <2> QED
    BY <1>0, <2>1, <2>2, <2>3 DEF TokenInv
<1> QED
  BY <1>1, <1>2

Pending(w) == pc[w] \in {"check", "exists", "insert", "replace"}
AtWork(r)  == pc[r] \in (Steps \ {"absent", "idle"}) \union {"crashed", "unreachable"}

\* What one step can do to the row, as far as its health goes: nothing, a
\* write that leaves it unhealthy, a merged count, or the tokens of a writer
\* that loaded the current generation.
LEMMA HealthChange ==
  ASSUME TypeOK, WinnerInv, [Next]_vars, NotDeleted'
  PROVE  \/ row' = row
         \/ row'.gen = row.gen /\ row'.refresh = row.refresh /\ row'.status # "healthy"
         \/ /\ row'.gen = row.gen /\ row'.refresh = row.refresh /\ row'.status = row.status
            /\ \E r \in Refreshers : pc[r] = "merge" /\ Exists /\ loaded[r].gen = row.gen
         \/ \E w \in Writers : /\ Pending(w) /\ loaded[w].gen = row.gen
                               /\ row' = Healthy(row.gen + 1, answer[w])
                               /\ UNCHANGED <<live, loaded, deleting>>
<1> USE DEF conn, vendor, held
<1>0. row \in Rows /\ row.gen \in Nat /\ \A w \in Writers : loaded[w].gen \in Nat
  BY DEF TypeOK, Rows
<1> DEFINE Unhealthy == row'.gen = row.gen /\ row'.refresh = row.refresh /\ row'.status # "healthy"
<1>1. ASSUME NEW r \in Refreshers, RefreshNext(r)
      PROVE  \/ row' = row \/ Unhealthy
             \/ /\ row'.gen = row.gen /\ row'.refresh = row.refresh /\ row'.status = row.status
                /\ pc[r] = "merge" /\ Exists /\ loaded[r].gen = row.gen
  <2>1. CASE FailureWrite(r)
    <3>1. row' = row \/ row' = [row EXCEPT !.status = "failed", !.fails = base[r] + 1]
      BY <2>1 DEF FailureWrite
    <3> QED
      BY <1>0, <3>1 DEF Rows
  <2>2. CASE FailureMerge(r)
    BY <1>0, <2>2 DEF FailureMerge, Rows
  <2> QED
    BY <1>1, <2>1, <2>2 DEF RefreshNext, RefreshLoad, RefreshPost, VendorGrants,
       VendorRefuses, VendorUnreachable, FailureReread, FailureConflict
<1>2. ASSUME NEW w \in Writers, StoreNext(w)
      PROVE  \/ row' = row
             \/ /\ Pending(w) /\ loaded[w].gen = row.gen
                /\ row' = Healthy(row.gen + 1, answer[w]) /\ UNCHANGED <<live, loaded, deleting>>
  <2>1. CASE Replace(w)
    BY <2>1 DEF Replace, Pending
  <2>2. CASE StoreInserts(w)
    <3>1. loaded[w].gen = 0
      BY <2>2 DEF StoreInserts, WinnerInv
    <3>2. ~Exists => row.gen = 0
      BY <1>0 DEF Exists
    <3> QED
      BY <2>2, <3>1, <3>2 DEF StoreInserts, Pending
  <2> QED
    BY <1>2, <2>1, <2>2 DEF StoreNext, CheckOwned, StoreLooks
<1>3. ASSUME NEW v \in Revokers, RevokeNext(v) PROVE row' = row \/ Unhealthy
  BY <1>0, <1>3 DEF RevokeNext, RevokeLoad, RevokeCall, RevokeWrite, Rows
<1>4. ASSUME NEW o \in Operators, OperatorNext(o) PROVE row' = row \/ Unhealthy
  <2>1. \/ row' = row
        \/ row' = [row EXCEPT !.status = IF @ = "revoked" THEN @ ELSE "failed",
                              !.fails = base[o] + 1]
        \/ row' = [row EXCEPT !.status = "revoked", !.fails = base[o]]
    BY <1>4 DEF OperatorNext, OperatorRead, OperatorWrite
  <2> QED
    BY <1>0, <2>1 DEF Rows
<1>5. ASSUME NEW c \in Consents, ConsentNext(c) PROVE row' = row
  BY <1>5 DEF ConsentNext, ConsentRead, ConsentExchange
<1>6. ASSUME NEW a \in Actors, Crash(a) PROVE row' = row
  BY <1>6 DEF Crash
<1>7. ~(DeleteTokens \/ DeleteMapping)
  BY DEF DeleteTokens, DeleteMapping
<1> QED
  BY <1>1, <1>2, <1>3, <1>4, <1>5, <1>6, <1>7 DEF Next, vars

\* Whom one step moves how: an actor's load changes only when it is idle, a
\* refresher comes to a conflict only from a failure write that lost, and
\* leaves the work on the current generation only by marking it.
LEMMA RefresherMoves ==
  ASSUME TypeOK, OwnedUntilDone, WinnerInv, [Next]_vars, NotDeleted, NEW r \in Refreshers
  PROVE  /\ \/ loaded'[r] = loaded[r]
            \/ /\ pc[r] = "idle" /\ loaded'[r] = row /\ UNCHANGED row
               /\ pc'[r] \in {"notfound", "unusable", "unavailable", "post"}
         /\ pc'[r] \in {"conflict", "merge"} =>
              \/ pc[r] \in {"conflict", "merge"}
              \/ pc[r] = "failwrite" /\ ~(Exists /\ Observed(r)) /\ row' = row
         /\ AtWork(r) /\ Exists /\ loaded[r].gen = row.gen =>
              \/ AtWork(r)'
              \/ pc[r] = "merge"
              \/ row'.status = "failed"
              \/ row'.gen = row.gen + 1
<1> USE DEF conn, vendor, held, Steps, Ends
<1>0. /\ pc \in [Actors -> Steps \union Ends] /\ loaded \in [Actors -> Rows] /\ row \in Rows
      /\ owned /\ row.gen \in Nat
  BY DEF TypeOK, OwnedUntilDone, Rows
<1> DEFINE Moved == /\ \/ loaded'[r] = loaded[r]
                       \/ /\ pc[r] = "idle" /\ loaded'[r] = row /\ UNCHANGED row
                          /\ pc'[r] \in {"notfound", "unusable", "unavailable", "post"}
                    /\ pc'[r] \in {"conflict", "merge"} =>
                         \/ pc[r] \in {"conflict", "merge"}
                         \/ pc[r] = "failwrite" /\ ~(Exists /\ Observed(r)) /\ row' = row
                    /\ AtWork(r) /\ Exists /\ loaded[r].gen = row.gen =>
                         \/ AtWork(r)'
                         \/ pc[r] = "merge"
                         \/ row'.status = "failed"
                         \/ row'.gen = row.gen + 1
<1>a. pc'[r] = pc[r] /\ loaded'[r] = loaded[r] => Moved
  BY DEF AtWork
<1>1. ASSUME NEW q \in Refreshers, RefreshNext(q) PROVE Moved
  <2>1. CASE VendorGrants(q) \/ VendorRefuses(q) \/ VendorUnreachable(q)
    <3>1. loaded' = loaded /\ \/ pc'[r] = pc[r]
                              \/ pc'[r] \in {"check", "reread", "unreachable"}
      BY <2>1 DEF VendorGrants, VendorRefuses, VendorUnreachable, Settle
    <3> QED
      BY <1>a, <3>1 DEF AtWork
  <2>2. CASE RefreshLoad(q)
    BY <1>0, <1>a, <2>2 DEF RefreshLoad, Load, Step, AtWork
  <2>3. CASE FailureWrite(q)
    <3>1. CASE Exists /\ Observed(q)
      <4>1. row'.status = "failed"
        BY <1>0, <2>3, <3>1 DEF FailureWrite, Rows
      <4> QED
        BY <1>0, <1>a, <2>3, <3>1, <4>1 DEF FailureWrite, Step, AtWork
    <3>2. CASE ~(Exists /\ Observed(q))
      BY <1>0, <1>a, <2>3, <3>2 DEF FailureWrite, Step, AtWork
    <3> QED
      BY <3>1, <3>2
  <2>4. CASE FailureMerge(q)
    <3>1. loaded' = loaded /\ pc[q] = "merge" /\ \E to \in {"failed", "stale", "notfound"} : Step(q, to)
      BY <2>4 DEF FailureMerge
    <3> QED
      BY <1>0, <1>a, <3>1 DEF Step, AtWork
  <2>5. CASE FailureConflict(q)
    BY <1>0, <1>a, <2>5 DEF FailureConflict, Step, AtWork
  <2>6. CASE RefreshPost(q) \/ FailureReread(q)
    BY <1>0, <1>a, <2>6 DEF RefreshPost, FailureReread, Step, AtWork
  <2> QED
    BY <1>1, <2>1, <2>2, <2>3, <2>4, <2>5, <2>6 DEF RefreshNext
<1>2. ASSUME NEW w \in Writers, StoreNext(w) PROVE Moved
  <2>1. CASE CheckOwned(w)
    BY <1>0, <1>a, <2>1 DEF CheckOwned, Step, AtWork
  <2>2. CASE Replace(w)
    <3>1. CASE Exists /\ row.gen = loaded[w].gen
      <4>1. row'.gen = row.gen + 1
        BY <2>2, <3>1 DEF Replace, Healthy
      <4> QED
        BY <1>0, <1>a, <2>2, <3>1, <4>1 DEF Replace, Step, AtWork
    <3>2. CASE ~(Exists /\ row.gen = loaded[w].gen)
      BY <1>0, <1>a, <2>2, <3>2 DEF Replace, Step, AtWork
    <3> QED
      BY <3>1, <3>2
  <2>3. CASE StoreLooks(w) \/ StoreInserts(w)
    <3>1. /\ loaded[w].gen = 0 /\ loaded' = loaded
          /\ \E to \in {"stale", "insert", "stored", "notfound"} : Step(w, to)
      BY <2>3 DEF StoreLooks, StoreInserts, WinnerInv
    <3>2. ~(Exists /\ loaded[w].gen = row.gen)
      BY <3>1 DEF Exists
    <3> QED
      BY <1>0, <1>a, <3>1, <3>2 DEF Step, AtWork
  <2> QED
    BY <1>2, <2>1, <2>2, <2>3 DEF StoreNext
<1>3. ASSUME NEW a \in Actors, Crash(a) PROVE Moved
  BY <1>0, <1>a, <1>3 DEF Crash, Step, AtWork
<1>4. ASSUME \/ \E c \in Consents : ConsentNext(c)
             \/ \E v \in Revokers : RevokeNext(v)
             \/ \E o \in Operators : OperatorNext(o)
             \/ DeleteTokens \/ DeleteMapping \/ UNCHANGED vars
      PROVE  Moved
  BY <1>0, <1>a, <1>4 DEF ConsentNext, ConsentRead, ConsentExchange, RevokeNext, RevokeLoad,
     RevokeCall, RevokeWrite, OperatorNext, OperatorRead, OperatorWrite, DeleteTokens,
     DeleteMapping, vars, Load, Step
<1> QED
  BY <1>1, <1>2, <1>3, <1>4 DEF Next

\* A healthy row counts no failure, so a refresher of its generation that
\* fails finds what it loaded and never loses its write.
CleanInv ==
  NotDeleted =>
    /\ row.status = "healthy" => row.fails = 0
    /\ \A r \in Refreshers : loaded[r].status = "healthy" => loaded[r].fails = 0
    /\ \A r \in Refreshers :
         pc[r] \in {"conflict", "merge"} /\ Exists /\ loaded[r].gen = row.gen
           => row.status # "healthy"

\* every step keeps it
LEMMA CleanStep ==
  TypeOK /\ OwnedUntilDone /\ WinnerInv /\ HealthyLoad /\ CleanInv /\ [Next]_vars => CleanInv'
<1> SUFFICES ASSUME TypeOK, OwnedUntilDone, WinnerInv, HealthyLoad, CleanInv, [Next]_vars,
                    NotDeleted'
             PROVE  CleanInv'
  BY DEF CleanInv
<1>0. /\ row \in Rows /\ row.gen \in Nat /\ NotDeleted
      /\ \A r \in Refreshers : loaded[r].gen \in Nat /\ loaded[r].gen <= row.gen
  <2>1. NotDeleted
    BY DEF Next, vars, conn, RefreshNext, RefreshLoad, RefreshPost, VendorGrants, VendorRefuses,
       VendorUnreachable, FailureReread, FailureWrite, FailureConflict, FailureMerge, StoreNext,
       CheckOwned, Replace, StoreLooks, StoreInserts, ConsentNext, ConsentRead, ConsentExchange,
       RevokeNext, RevokeLoad, RevokeCall, RevokeWrite, OperatorNext, OperatorRead,
       OperatorWrite, Crash, DeleteTokens, DeleteMapping
  <2> QED
    BY <2>1 DEF TypeOK, Rows, WinnerInv
<1>1. row'.status = "healthy" => \/ row' = row /\ row.fails = 0
                                 \/ row'.gen = row.gen + 1 /\ row'.fails = 0
  BY <1>0, HealthChange DEF CleanInv, Healthy
<1>2. \A r \in Refreshers : loaded'[r].status = "healthy" => loaded'[r].fails = 0
  BY <1>0, RefresherMoves DEF CleanInv
<1>3. ASSUME NEW r \in Refreshers, pc'[r] \in {"conflict", "merge"}, Exists',
             loaded'[r].gen = row'.gen, row'.status = "healthy"
      PROVE  FALSE
  <2>1. loaded'[r] = loaded[r]
    BY <1>0, <1>3, RefresherMoves
  <2>2. row' = row
    BY <1>0, <1>1, <1>3, <2>1
  <2>3. pc[r] = "failwrite" /\ ~(Exists /\ Observed(r))
    BY <1>0, <1>3, <2>1, <2>2, RefresherMoves DEF CleanInv, Exists
  <2>4. loaded[r].status = "healthy"
    BY <2>3 DEF HealthyLoad, Ends
  <2> QED
    BY <1>0, <1>3, <2>1, <2>2, <2>3, <2>4 DEF CleanInv, Exists, Observed
<1> QED
  BY <1>1, <1>2, <1>3 DEF CleanInv

\* A token on its way to the row is live and nobody else's, and the token of
\* the row was loaded by nobody before its generation.
FreshInv ==
  NotDeleted =>
    /\ \A w \in Writers : Pending(w) /\ loaded[w].gen = row.gen /\ answer[w].refresh > 0 =>
         /\ answer[w].refresh \in live /\ answer[w].refresh # row.refresh
         /\ \A a \in Actors : loaded[a].refresh # answer[w].refresh
    /\ \A a \in Actors :
         loaded[a].refresh = row.refresh /\ row.refresh > 0 => loaded[a].gen = row.gen

\* steps that touch no token
LEMMA FreshQuiet ==
  ASSUME FreshInv, NotDeleted' => NotDeleted, row'.gen = row.gen, row'.refresh = row.refresh,
         UNCHANGED <<live, answer>>,
         \A a \in Actors : loaded'[a] = loaded[a] \/ loaded'[a] = row,
         \A w \in Writers : Pending(w)' => Pending(w) /\ loaded'[w] = loaded[w]
  PROVE  FreshInv'
<1> SUFFICES ASSUME NotDeleted PROVE FreshInv'
  BY DEF FreshInv
<1>1. ASSUME NEW w \in Writers, Pending(w)', loaded'[w].gen = row'.gen, answer'[w].refresh > 0
      PROVE  /\ answer'[w].refresh \in live' /\ answer'[w].refresh # row'.refresh
             /\ \A a \in Actors : loaded'[a].refresh # answer'[w].refresh
  <2>1. Pending(w) /\ loaded[w].gen = row.gen /\ answer[w].refresh > 0
    BY <1>1
  <2> QED
    BY <2>1 DEF FreshInv
<1>2. ASSUME NEW a \in Actors, loaded'[a].refresh = row'.refresh, row'.refresh > 0
      PROVE  loaded'[a].gen = row'.gen
  BY <1>2 DEF FreshInv
<1> QED
  BY <1>1, <1>2 DEF FreshInv

\* the vendor's answers: what is taken was loaded, what is given is new
LEMMA FreshAnswer ==
  ASSUME TypeOK, TokenInv, FreshInv, UNCHANGED <<row, deleting, loaded>>,
         NEW W \in SUBSET Writers, NEW token \in Nat, token = 0 \/ (token = issued + 1 /\ token \in live'),
         \A w \in W : answer'[w].refresh = token,
         \A w \in Writers \ W : answer'[w] = answer[w] /\ (Pending(w)' => Pending(w)),
         \A t \in live \ live' : \E a \in Actors : loaded[a].refresh = t
  PROVE  FreshInv'
<1> SUFFICES ASSUME NotDeleted PROVE FreshInv'
  BY DEF FreshInv
<1>1. /\ issued \in Nat /\ row.refresh \in Nat /\ \A a \in Actors : loaded[a].refresh \in Nat
  BY DEF TypeOK, Rows
<1>2. ASSUME NEW w \in Writers, Pending(w)', loaded[w].gen = row.gen, answer'[w].refresh > 0
      PROVE  /\ answer'[w].refresh \in live' /\ answer'[w].refresh # row.refresh
             /\ \A a \in Actors : loaded[a].refresh # answer'[w].refresh
  <2>1. CASE w \in W
    BY <1>1, <1>2, <2>1 DEF TokenInv
  <2>2. CASE w \notin W
    BY <1>2, <2>2 DEF FreshInv
  <2> QED
    BY <2>1, <2>2
<1>3. \A a \in Actors : loaded[a].refresh = row.refresh /\ row.refresh > 0 => loaded[a].gen = row.gen
  BY DEF FreshInv
<1> QED
  BY <1>2, <1>3 DEF FreshInv

\* a writer that loaded the current generation stores its token
LEMMA FreshStore ==
  ASSUME TypeOK, WinnerInv, FreshInv, UNCHANGED <<live, loaded, deleting>>,
         NEW w \in Writers, Pending(w), loaded[w].gen = row.gen,
         row' = Healthy(row.gen + 1, answer[w])
  PROVE  FreshInv'
<1> SUFFICES ASSUME NotDeleted PROVE FreshInv'
  BY DEF FreshInv
<1>1. row'.gen = row.gen + 1 /\ row'.refresh = answer[w].refresh
  BY DEF Healthy
<1>2. \A a \in Actors : loaded[a].gen < row'.gen
  BY <1>1 DEF WinnerInv, TypeOK, Rows
<1>3. \A q \in Writers : loaded[q].gen # row'.gen
  BY <1>2 DEF TypeOK, Rows
<1>4. \A a \in Actors : ~(loaded[a].refresh = row'.refresh /\ row'.refresh > 0)
  BY <1>1 DEF FreshInv
<1> QED
  BY <1>3, <1>4 DEF FreshInv

\* every step keeps it
LEMMA FreshStep ==
  TypeOK /\ OwnedUntilDone /\ WinnerInv /\ TokenInv /\ FreshInv /\ [Next]_vars => FreshInv'
<1> SUFFICES ASSUME TypeOK, OwnedUntilDone, WinnerInv, TokenInv, FreshInv, [Next]_vars, NotDeleted'
             PROVE  FreshInv'
  BY DEF FreshInv
<1> USE DEF conn, vendor, held, Steps, Ends
<1>0. /\ pc \in [Actors -> Steps \union Ends] /\ loaded \in [Actors -> Rows]
      /\ answer \in [Actors -> Tokens] /\ issued \in Nat /\ row \in Rows
  BY DEF TypeOK
<1>1. CASE \E w \in Writers : /\ Pending(w) /\ loaded[w].gen = row.gen
                              /\ row' = Healthy(row.gen + 1, answer[w])
                              /\ UNCHANGED <<live, loaded, deleting>>
  BY <1>1, FreshStore
<1>2. ASSUME NEW r \in Refreshers, VendorGrants(r) PROVE FreshInv'
  <2>1. PICK rotates \in BOOLEAN :
          /\ live' = IF rotates THEN (live \ {loaded[r].refresh}) \union {issued'} ELSE live
          /\ answer' = [q \in Actors |->
                          IF q \in Flight(r)
                          THEN [access |-> issued', refresh |-> IF rotates THEN issued' ELSE 0]
                          ELSE answer[q]]
    BY <1>2 DEF VendorGrants
  <2> DEFINE token == IF rotates THEN issued + 1 ELSE 0
  <2>2. /\ issued' = issued + 1 /\ UNCHANGED <<row, deleting, loaded>>
        /\ token \in Nat /\ (token = 0 \/ (token = issued + 1 /\ token \in live'))
    <3>1. issued' = issued + 1 /\ UNCHANGED <<row, deleting, loaded>>
      BY <1>2 DEF VendorGrants
    <3>2. token \in Nat
      BY <1>0
    <3> QED
      BY <2>1, <3>1, <3>2
  <2>3. Flight(r) \in SUBSET Writers
    BY DEF Flight
  <2>4. \A w \in Flight(r) : answer'[w].refresh = token
    BY <2>1, <2>2, <2>3
  <2>5. \A w \in Writers \ Flight(r) : answer'[w] = answer[w] /\ (Pending(w)' => Pending(w))
    BY <1>2, <2>1 DEF VendorGrants, Settle, Pending
  <2>6. \A t \in live \ live' : \E a \in Actors : loaded[a].refresh = t
    BY <2>1
  <2> HIDE DEF token
  <2> QED
    BY <2>2, <2>3, <2>4, <2>5, <2>6, FreshAnswer
<1>3. ASSUME NEW r \in Refreshers, VendorRefuses(r) \/ VendorUnreachable(r) PROVE FreshInv'
  <2>1. UNCHANGED <<row, deleting, loaded, answer>>
    BY <1>3 DEF VendorRefuses, VendorUnreachable
  <2>2. \A w \in Writers : Pending(w)' => Pending(w)
    BY <1>3 DEF VendorRefuses, VendorUnreachable, Settle, Pending
  <2>3. \A t \in live \ live' : \E a \in Actors : loaded[a].refresh = t
    BY <1>3 DEF VendorRefuses, VendorUnreachable, Unsaid
  <2> DEFINE W == {}
             token == 0
  <2>4. /\ W \in SUBSET Writers /\ token \in Nat /\ (token = 0 \/ (token = issued + 1 /\ token \in live'))
        /\ \A w \in W : answer'[w].refresh = token
        /\ \A w \in Writers \ W : answer'[w] = answer[w] /\ (Pending(w)' => Pending(w))
    BY <2>1, <2>2
  <2> HIDE DEF W, token
  <2> QED
    BY <2>1, <2>3, <2>4, FreshAnswer
<1>4. ASSUME NEW c \in Consents, ConsentExchange(c), issued' # issued PROVE FreshInv'
  <2>1. PICK refresh \in {0, issued + 1} :
          /\ live' = live \union ({refresh} \ {0})
          /\ answer' = [answer EXCEPT ![c] = [access |-> issued', refresh |-> refresh]]
          /\ issued' = issued + 1 /\ Step(c, "check") /\ UNCHANGED <<row, deleting, loaded>>
    BY <1>4 DEF ConsentExchange
  <2>2. refresh \in Nat /\ (refresh = 0 \/ (refresh = issued + 1 /\ refresh \in live'))
    <3>1. refresh \in Nat
      BY <1>0
    <3>2. refresh # 0 => refresh \in {refresh} \ {0}
      OBVIOUS
    <3> QED
      BY <2>1, <3>1, <3>2
  <2>3. {c} \in SUBSET Writers /\ \A w \in {c} : answer'[w].refresh = refresh
    BY <1>0, <2>1
  <2>4. \A w \in Writers \ {c} : answer'[w] = answer[w] /\ (Pending(w)' => Pending(w))
    BY <1>0, <2>1 DEF Step, Pending
  <2>5. \A t \in live \ live' : \E a \in Actors : loaded[a].refresh = t
    BY <2>1
  <2> QED
    BY <2>1, <2>2, <2>3, <2>4, <2>5, FreshAnswer
<1>5. CASE /\ row'.gen = row.gen /\ row'.refresh = row.refresh
           /\ ~\E r \in Refreshers : VendorGrants(r) \/ VendorRefuses(r) \/ VendorUnreachable(r)
           /\ ~\E c \in Consents : ConsentExchange(c) /\ issued' # issued
  <2>0. \A c \in Consents : ConsentExchange(c) =>
          Step(c, "refused") /\ UNCHANGED <<live, answer, loaded, deleting>>
    <3>1. issued + 1 # issued
      BY <1>0
    <3> QED
      BY <1>5, <3>1 DEF ConsentExchange
  <2>1. NotDeleted /\ UNCHANGED <<live, answer>>
    BY <1>5, <2>0 DEF Next, vars, RefreshNext, RefreshLoad, RefreshPost, FailureReread, FailureWrite,
       FailureConflict, FailureMerge, StoreNext, CheckOwned, Replace, StoreLooks, StoreInserts,
       ConsentNext, ConsentRead, RevokeNext, RevokeLoad, RevokeCall,
       RevokeWrite, OperatorNext, OperatorRead, OperatorWrite, Crash, DeleteTokens, DeleteMapping
  <2>2. \A a \in Actors : loaded'[a] = loaded[a] \/ loaded'[a] = row
    BY <1>0, <1>5, <2>0 DEF Next, vars, RefreshNext, RefreshLoad, RefreshPost, FailureReread,
       FailureWrite, FailureConflict, FailureMerge, StoreNext, CheckOwned, Replace, StoreLooks,
       StoreInserts, ConsentNext, ConsentRead, RevokeNext, RevokeLoad,
       RevokeCall, RevokeWrite, OperatorNext, OperatorRead, OperatorWrite, Crash, Load,
       DeleteTokens, DeleteMapping
  <2>3. \A w \in Writers : Pending(w)' => Pending(w) /\ loaded'[w] = loaded[w]
    <3>1. ASSUME NEW a \in Actors, NEW to, Step(a, to), to \notin {"check", "exists", "insert", "replace"},
                 pc[a] = "idle" \/ loaded' = loaded, \A b \in Actors \ {a} : loaded'[b] = loaded[b]
          PROVE  \A w \in Writers : Pending(w)' => Pending(w) /\ loaded'[w] = loaded[w]
      BY <1>0, <3>1 DEF Step, Pending
    <3>2. ASSUME NEW r \in Refreshers, RefreshNext(r)
          PROVE  \A w \in Writers : Pending(w)' => Pending(w) /\ loaded'[w] = loaded[w]
      <4>1. /\ \E to : Step(r, to) /\ to \notin {"check", "exists", "insert", "replace"}
            /\ pc[r] = "idle" \/ loaded' = loaded
            /\ \A b \in Actors \ {r} : loaded'[b] = loaded[b]
        BY <1>0, <1>5, <3>2 DEF RefreshNext, RefreshLoad, RefreshPost, FailureReread,
           FailureWrite, FailureConflict, FailureMerge, Load
      <4> QED
        BY <3>1, <4>1
    <3>3. ASSUME NEW w \in Writers, StoreNext(w)
          PROVE  \A q \in Writers : Pending(q)' => Pending(q) /\ loaded'[q] = loaded[q]
      <4>1. loaded' = loaded /\ Pending(w) /\ \E to : Step(w, to)
        BY <3>3 DEF StoreNext, CheckOwned, Replace, StoreLooks, StoreInserts, Pending
      <4> QED
        BY <1>0, <4>1 DEF Step, Pending
    <3>4. ASSUME NEW c \in Consents, ConsentNext(c)
          PROVE  \A w \in Writers : Pending(w)' => Pending(w) /\ loaded'[w] = loaded[w]
      <4>1. /\ \E to : Step(c, to) /\ to \notin {"check", "exists", "insert", "replace"}
            /\ pc[c] = "idle" \/ loaded' = loaded
            /\ \A b \in Actors \ {c} : loaded'[b] = loaded[b]
        BY <1>0, <2>0, <3>4 DEF ConsentNext, ConsentRead, Load
      <4> QED
        BY <3>1, <4>1
    <3>5. ASSUME NEW v \in Revokers, RevokeNext(v)
          PROVE  \A w \in Writers : Pending(w)' => Pending(w) /\ loaded'[w] = loaded[w]
      <4>1. /\ \E to : Step(v, to) /\ to \notin {"check", "exists", "insert", "replace"}
            /\ pc[v] = "idle" \/ loaded' = loaded
            /\ \A b \in Actors \ {v} : loaded'[b] = loaded[b]
        BY <1>0, <3>5 DEF RevokeNext, RevokeLoad, RevokeCall, RevokeWrite, Load
      <4> QED
        BY <3>1, <4>1
    <3>6. ASSUME NEW o \in Operators, OperatorNext(o)
          PROVE  \A w \in Writers : Pending(w)' => Pending(w) /\ loaded'[w] = loaded[w]
      <4>1. /\ \E to : Step(o, to) /\ to \notin {"check", "exists", "insert", "replace"}
            /\ loaded' = loaded
        BY <3>6 DEF OperatorNext, OperatorRead, OperatorWrite
      <4> QED
        BY <3>1, <4>1
    <3>7. ASSUME NEW a \in Actors, Crash(a)
          PROVE  \A w \in Writers : Pending(w)' => Pending(w) /\ loaded'[w] = loaded[w]
      BY <3>1, <3>7 DEF Crash
    <3>8. ASSUME DeleteTokens \/ DeleteMapping \/ UNCHANGED vars
          PROVE  \A w \in Writers : Pending(w)' => Pending(w) /\ loaded'[w] = loaded[w]
      BY <3>8 DEF DeleteTokens, DeleteMapping, vars, Pending
    <3> QED
      BY <3>2, <3>3, <3>4, <3>5, <3>6, <3>7, <3>8 DEF Next
  <2> QED
    BY <1>5, <2>1, <2>2, <2>3, FreshQuiet
<1> QED
  BY <1>1, <1>2, <1>3, <1>4, <1>5, HealthChange

\* who can take a token from the vendor's list: a refresher in flight that
\* loaded it, which stays at work
LEMMA LiveShrinks ==
  ASSUME TypeOK, [Next]_vars, live' # live
  PROVE  \/ live \subseteq live'
         \/ \E r \in Refreshers : /\ live \ {loaded[r].refresh} \subseteq live'
                                  /\ AtWork(r)' /\ loaded' = loaded
<1> USE DEF conn, vendor, held, Steps, Ends
<1>1. ASSUME NEW r \in Refreshers,
             VendorGrants(r) \/ VendorRefuses(r) \/ VendorUnreachable(r)
      PROVE  /\ live \ {loaded[r].refresh} \subseteq live'
             /\ AtWork(r)' /\ loaded' = loaded
  <2>1. pc'[r] \in {"check", "reread", "unreachable"} /\ loaded' = loaded
    BY <1>1 DEF VendorGrants, VendorRefuses, VendorUnreachable, Settle, Flight
  <2>2. live \ {loaded[r].refresh} \subseteq live'
    BY <1>1 DEF VendorGrants, VendorRefuses, VendorUnreachable, Unsaid
  <2> QED
    BY <2>1, <2>2 DEF AtWork
<1>2. ASSUME NEW c \in Consents, ConsentExchange(c) PROVE live \subseteq live'
  BY <1>2 DEF ConsentExchange
<1> QED
  BY <1>1, <1>2 DEF Next, vars, RefreshNext, RefreshLoad, RefreshPost, FailureReread,
     FailureWrite, FailureConflict, FailureMerge, StoreNext, CheckOwned, Replace, StoreLooks,
     StoreInserts, ConsentNext, ConsentRead, RevokeNext, RevokeLoad, RevokeCall, RevokeWrite,
     OperatorNext, OperatorRead, OperatorWrite, Crash, DeleteTokens, DeleteMapping

\* every step keeps the live token, or leaves somebody who answers for it
LEMMA LiveStep ==
  /\ TypeOK /\ OwnedUntilDone /\ WinnerInv /\ CleanInv /\ FreshInv
  /\ HealthyIsLive /\ [Next]_vars
  => HealthyIsLive'
<1> SUFFICES ASSUME TypeOK, OwnedUntilDone, WinnerInv, CleanInv, FreshInv, HealthyIsLive,
                    [Next]_vars, Exists', NotDeleted', row'.status = "healthy", row'.refresh > 0
             PROVE  \/ row'.refresh \in live'
                    \/ \E r \in Refreshers : AtWork(r)' /\ loaded'[r].gen = row'.gen
  BY DEF HealthyIsLive, AtWork
<1>0. NotDeleted
  BY DEF Next, vars, conn, RefreshNext, RefreshLoad, RefreshPost, VendorGrants, VendorRefuses,
     VendorUnreachable, FailureReread, FailureWrite, FailureConflict, FailureMerge, StoreNext,
     CheckOwned, Replace, StoreLooks, StoreInserts, ConsentNext, ConsentRead, ConsentExchange,
     RevokeNext, RevokeLoad, RevokeCall, RevokeWrite, OperatorNext, OperatorRead,
     OperatorWrite, Crash, DeleteTokens, DeleteMapping
<1>1. CASE \E w \in Writers : /\ Pending(w) /\ loaded[w].gen = row.gen
                              /\ row' = Healthy(row.gen + 1, answer[w])
                              /\ UNCHANGED <<live, loaded, deleting>>
  BY <1>0, <1>1 DEF FreshInv, Healthy
<1>2. CASE row' = row
  <2>1. CASE row.refresh \in live /\ row.refresh \notin live'
    <3>1. PICK r \in Refreshers : /\ live \ {loaded[r].refresh} \subseteq live'
                                  /\ AtWork(r)' /\ loaded' = loaded
      BY <2>1, LiveShrinks
    <3>2. loaded[r].refresh = row.refresh
      BY <2>1, <3>1
    <3> QED
      BY <1>0, <1>2, <3>1, <3>2 DEF FreshInv
  <2>2. CASE row.refresh \notin live
    <3>1. PICK r \in Refreshers : AtWork(r) /\ loaded[r].gen = row.gen
      BY <1>0, <1>2, <2>2 DEF HealthyIsLive, AtWork, Exists
    <3>2. pc[r] # "merge" /\ pc[r] # "idle"
      BY <1>0, <1>2, <3>1 DEF CleanInv, Exists, AtWork, Ends, Steps
    <3>3. row.gen \in Nat /\ row'.gen # row.gen + 1
      BY <1>2 DEF TypeOK, Rows
    <3> QED
      BY <1>0, <1>2, <3>1, <3>2, <3>3, RefresherMoves DEF Exists
  <2> QED
    BY <1>2, <2>1, <2>2
<1>3. CASE \E r \in Refreshers : pc[r] = "merge" /\ Exists /\ loaded[r].gen = row.gen
  <2>1. row.status # "healthy"
    BY <1>0, <1>3 DEF CleanInv
  <2>2. row'.gen = row.gen \/ row'.gen = row.gen + 1
    BY <1>1, <1>2, HealthChange DEF Healthy
  <2> QED
    BY <1>1, <1>2, <2>1, HealthChange
<1> QED
  BY <1>1, <1>2, <1>3, HealthChange

\* No race of answered refreshes loses the live token of a healthy row: whoever
\* takes the token from the vendor works on that generation until the row is
\* replaced or marked.
THEOREM HealthyLive == Spec => []HealthyIsLive
<1>1. Init => /\ OwnedUntilDone /\ HealthyLoad /\ TokenInv /\ CleanInv /\ FreshInv
              /\ HealthyIsLive
  <2> SUFFICES ASSUME Init
               PROVE  /\ OwnedUntilDone /\ HealthyLoad /\ TokenInv /\ CleanInv /\ FreshInv
                      /\ HealthyIsLive
    OBVIOUS
  <2>1. /\ row.status = "healthy" /\ row.fails = 0 /\ row.refresh \in {0, 1}
        /\ issued = 1 /\ live = {1}
    BY DEF Init, NoRow, NoToken, Healthy
  <2>2. \A a \in Actors : /\ loaded[a].refresh = 0 /\ loaded[a].fails = 0
                          /\ answer[a].refresh = 0 /\ pc[a] \in {"idle", "absent"}
    BY DEF Init, NoRow, NoToken, Healthy
  <2>3. OwnedUntilDone /\ HealthyLoad
    BY DEF Init, OwnedUntilDone, HealthyLoad
  <2>4. CleanInv
    BY <2>1, <2>2 DEF CleanInv
  <2>5. TokenInv /\ FreshInv /\ HealthyIsLive
    BY <2>1, <2>2 DEF TokenInv, FreshInv, Pending, HealthyIsLive
  <2> QED
    BY <2>3, <2>4, <2>5
<1> QED
  BY <1>1, TypeCorrect, OwnedStep, WinnerInit, WinnerStep, NoRowStep, HealthyLoadStep, TokenStep,
     CleanStep, FreshStep, LiveStep, PTL DEF Spec

=============================================================================
