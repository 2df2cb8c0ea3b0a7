---------------------------- MODULE Files_proofs ----------------------------
(***************************************************************************)
(* Proofs about Files, for any requests in any number: types, single use   *)
(* of upload tokens, what a revocation stops, and that the bytes of a      *)
(* ready row are its own unless requests crossed.                          *)
(***************************************************************************)
EXTENDS Files, TLAPS

(***************************************************************************)
(* Types                                                                   *)
(***************************************************************************)
LEMMA InitType == Init => TypeOK
<1> SUFFICES ASSUME Init PROVE TypeOK
  OBVIOUS
<1>1. PICK cast \in Casts :
        /\ declared = TRUE /\ policy = Actions
        /\ file = IF cast.there THEN [status |-> "ready", version |-> 1, sha |-> Seed] ELSE NoFile
        /\ object = IF cast.there THEN Seed ELSE None
        /\ caps = [s \in Requests |-> "none"]
        /\ born = [s \in Requests |-> 0] /\ clock = 0 /\ expired = {}
        /\ staged = [s \in Requests |-> None]
        /\ call = cast.calls
        /\ at = [r \in Requests |-> IF cast.calls[r].kind = "none" THEN "done" ELSE "idle"]
        /\ of = [r \in Requests |-> None]
        /\ ver = [r \in Requests |-> 0]
        /\ bytes = [r \in Requests |-> None]
        /\ raced = {} /\ torn = FALSE
  BY DEF Init
<1>2. cast.calls \in [Requests -> Calls]
  BY <1>1, FileAssumption
<1>3. file \in Files /\ (file.status # "ready" => file = [NoFile EXCEPT !.status = file.status])
  BY <1>1 DEF Files, NoFile, Bytes
<1>4. at \in [Requests -> Places]
  BY <1>1 DEF Places
<1> QED
  BY <1>1, <1>2, <1>3, <1>4 DEF TypeOK, Bytes

\* the actions that leave the row of the file alone
LEMMA TypeKeeps ==
  ASSUME TypeOK, NEW r \in Requests,
         \/ Declared(r) \/ Policy(r) \/ SlotLook(r) \/ SlotMint(r) \/ Expire(r)
         \/ PutLoad(r) \/ Consume(r) \/ PutLocation(r) \/ Stage(r)
         \/ FinLook(r) \/ FinFind(r) \/ FinGet(r) \/ FinStore(r) \/ FinUnstage(r) \/ Discard(r)
         \/ DelLook(r) \/ DelErase(r)
         \/ AdminLoad(r) \/ DropFiles(r) \/ RevokeCaps(r) \/ RevokePolicies(r) \/ Undeclare(r)
         \/ Create(r) \/ Grant(r)
  PROVE  TypeOK'
<1> USE DEF TypeOK, store, times, bucket, history, Goto, Places
<1>1. CASE Declared(r) \/ Policy(r)
  BY <1>1 DEF Declared, Policy
<1>2. CASE SlotLook(r)
  BY <1>2 DEF SlotLook
<1>3. CASE SlotMint(r)
  BY <1>3 DEF SlotMint
<1>4. CASE Expire(r)
  BY <1>4 DEF Expire, request
<1>5. CASE PutLoad(r)
  BY <1>5 DEF PutLoad
<1>6. CASE Consume(r)
  BY <1>6 DEF Consume
<1>7. CASE PutLocation(r)
  BY <1>7 DEF PutLocation
<1>8. CASE Stage(r)
  BY <1>8 DEF Stage
<1>9. CASE FinLook(r)
  BY <1>9 DEF FinLook, Files
<1>10. CASE FinFind(r)
  BY <1>10 DEF FinFind
<1>11. CASE FinGet(r)
  BY <1>11 DEF FinGet, Bytes
<1>12. CASE FinStore(r)
  BY <1>12 DEF FinStore, Crosses, Midway
<1>13. CASE FinUnstage(r) \/ Discard(r)
  BY <1>13 DEF FinUnstage, Discard
<1>14. CASE DelLook(r)
  BY <1>14 DEF DelLook, Files
<1>15. CASE DelErase(r)
  BY <1>15 DEF DelErase, Crosses, Midway, Bytes
<1>16. CASE AdminLoad(r) \/ DropFiles(r)
  BY <1>16 DEF AdminLoad, DropFiles
<1>17. CASE RevokeCaps(r)
  BY <1>17 DEF RevokeCaps
<1>18. CASE RevokePolicies(r) \/ Undeclare(r)
  BY <1>18 DEF RevokePolicies, Undeclare
<1>19. CASE Create(r)
  BY <1>19 DEF Create
<1>20. CASE Grant(r)
  BY <1>20 DEF Grant, Actions, Calls
<1> QED
  BY <1>1, <1>2, <1>3, <1>4, <1>5, <1>6, <1>7, <1>8, <1>9, <1>10, <1>11, <1>12, <1>13,
     <1>14, <1>15, <1>16, <1>17, <1>18, <1>19, <1>20

\* the actions that change it
LEMMA TypeRow ==
  ASSUME TypeOK, NEW r \in Requests,
         SlotInsert(r) \/ FinRecord(r) \/ Forget(r) \/ DelRow(r) \/ Clean(r)
  PROVE  TypeOK'
<1> USE DEF TypeOK, times, bucket, history, Goto, Places
<1>1. NoFile \in Files /\ [NoFile EXCEPT !.status = "pending"] \in Files
  BY DEF NoFile, Files, Bytes
<1>2. /\ NoFile.status = "none" /\ [NoFile EXCEPT !.status = "none"] = NoFile
      /\ [NoFile EXCEPT !.status = "pending"].status = "pending"
  BY DEF NoFile
<1>3. CASE SlotInsert(r)
  BY <1>1, <1>2, <1>3 DEF SlotInsert
<1>4. CASE FinRecord(r)
  <2>1. [status |-> "ready", version |-> ver[r], sha |-> bytes[r]] \in Files
    BY DEF Files
  <2> QED
    BY <1>4, <2>1 DEF FinRecord
<1>5. CASE Forget(r)
  BY <1>1, <1>2, <1>5 DEF Forget
<1>6. CASE DelRow(r)
  BY <1>1, <1>2, <1>6 DEF DelRow
<1>7. CASE Clean(r)
  BY <1>1, <1>2, <1>7 DEF Clean
<1> QED
  BY <1>3, <1>4, <1>5, <1>6, <1>7

LEMMA NextType == TypeOK /\ [Next]_vars => TypeOK'
<1> SUFFICES ASSUME TypeOK, [Next]_vars PROVE TypeOK'
  OBVIOUS
<1>1. CASE UNCHANGED vars
  BY <1>1 DEF vars, store, times, bucket, request, history, TypeOK
<1>2. CASE Next
  BY <1>2, TypeKeeps, TypeRow DEF Next
<1> QED
  BY <1>1, <1>2

\* Types; only a ready row has a version and a digest.
THEOREM TypeCorrect == Spec => []TypeOK
  BY InitType, NextType, PTL DEF Spec

(***************************************************************************)
(* Revocations                                                             *)
(***************************************************************************)
\* while write is being withdrawn, or has been, the tokens that are left were
\* minted meanwhile
Left == (Withdrawing \/ "write" \notin policy) => \A s \in Requests : caps[s] = "open" => s \in raced
WithdrawInv == TypeOK /\ Left

LEMMA InitLeft == Init => Left
  BY DEF Init, Left

\* the actions that open no token and withdraw nothing
LEMMA LeftKeeps ==
  ASSUME WithdrawInv, NEW r \in Requests,
         \/ Declared(r) \/ Policy(r) \/ SlotLook(r) \/ SlotInsert(r) \/ Expire(r)
         \/ PutLoad(r) \/ Consume(r) \/ PutLocation(r) \/ Stage(r)
         \/ FinLook(r) \/ FinFind(r) \/ FinGet(r) \/ FinStore(r) \/ FinUnstage(r) \/ FinRecord(r)
         \/ Discard(r) \/ Forget(r) \/ DelLook(r) \/ DelErase(r) \/ DelRow(r)
         \/ AdminLoad(r) \/ DropFiles(r) \/ Undeclare(r) \/ Create(r) \/ Grant(r) \/ Clean(r)
  PROVE  Left'
<1> USE DEF WithdrawInv, TypeOK, store, times, bucket, history, Goto
<1>1. raced' = raced /\ call' = call /\ policy \subseteq policy'
  BY DEF Declared, Policy, SlotLook, SlotInsert, Expire, request, PutLoad, Consume, PutLocation, Stage,
         FinLook, FinFind, FinGet, FinStore, FinUnstage, FinRecord, Discard, Forget, DelLook, DelErase,
         DelRow, AdminLoad, DropFiles, Undeclare, Create, Grant, Clean
<1>2. \A s \in Requests : caps'[s] = "open" => caps[s] = "open"
  BY DEF Declared, Policy, SlotLook, SlotInsert, Expire, request, PutLoad, Consume, PutLocation, Stage,
         FinLook, FinFind, FinGet, FinStore, FinUnstage, FinRecord, Discard, Forget, DelLook, DelErase,
         DelRow, AdminLoad, DropFiles, Undeclare, Create, Grant, Clean
<1>3. \A a \in Requests : at'[a] = "policies" /\ (Kind(a) = "drop" \/ call[a].action = "write")
                          => at[a] = "policies"
  <2>1. CASE AdminLoad(r)
    BY <2>1 DEF AdminLoad, Kind
  <2>2. CASE Expire(r)
    BY <2>2 DEF Expire, request
  <2>3. CASE Declared(r) \/ Policy(r) \/ SlotLook(r) \/ SlotInsert(r)
    BY <2>3 DEF Declared, Policy, SlotLook, SlotInsert
  <2>4. CASE PutLoad(r) \/ Consume(r) \/ PutLocation(r) \/ Stage(r)
    BY <2>4 DEF PutLoad, Consume, PutLocation, Stage
  <2>5. CASE FinLook(r) \/ FinFind(r) \/ FinGet(r) \/ FinStore(r) \/ FinUnstage(r) \/ FinRecord(r)
    BY <2>5 DEF FinLook, FinFind, FinGet, FinStore, FinUnstage, FinRecord
  <2>6. CASE Discard(r) \/ Forget(r) \/ DelLook(r) \/ DelErase(r) \/ DelRow(r)
    BY <2>6 DEF Discard, Forget, DelLook, DelErase, DelRow
  <2>7. CASE DropFiles(r) \/ Undeclare(r) \/ Create(r) \/ Grant(r) \/ Clean(r)
    BY <2>7 DEF DropFiles, Undeclare, Create, Grant, Clean
  <2> QED
    BY <2>1, <2>2, <2>3, <2>4, <2>5, <2>6, <2>7
<1>4. Withdrawing' => Withdrawing
  BY <1>1, <1>3 DEF Withdrawing, Kind
<1> QED
  BY <1>1, <1>2, <1>4 DEF Left

LEMMA NextLeft == WithdrawInv /\ [Next]_vars => WithdrawInv'
<1> SUFFICES ASSUME WithdrawInv, [Next]_vars PROVE Left'
  BY NextType DEF WithdrawInv
<1> USE DEF WithdrawInv, store, times, bucket, history
<1>1. CASE UNCHANGED vars
  BY <1>1 DEF vars, request, Left, Withdrawing, Kind
<1>2. ASSUME NEW r \in Requests, SlotMint(r) PROVE Left'
  <2>1. /\ \A s \in Requests : caps'[s] = "open" => caps[s] = "open" \/ s = r
        /\ policy' = policy /\ call' = call
        /\ raced' = IF Withdrawing \/ "write" \notin policy THEN raced \union {r} ELSE raced
    BY <1>2 DEF SlotMint, TypeOK
  <2>2. Withdrawing' => Withdrawing
    BY <1>2, <2>1 DEF SlotMint, Goto, TypeOK, Withdrawing, Kind
  <2> QED
    BY <2>1, <2>2 DEF Left
<1>3. ASSUME NEW r \in Requests, RevokeCaps(r) PROVE Left'
  BY <1>3 DEF RevokeCaps, Left
<1>4. ASSUME NEW r \in Requests, RevokePolicies(r) PROVE Left'
  <2>1. "write" \notin policy' => Withdrawing \/ "write" \notin policy
    BY <1>4 DEF RevokePolicies, Withdrawing, Kind
  <2>2. Withdrawing' => Withdrawing
    BY <1>4 DEF RevokePolicies, Goto, TypeOK, Withdrawing, Kind
  <2> QED
    BY <1>4, <2>1, <2>2 DEF RevokePolicies, Left
<1> QED
  BY <1>1, <1>2, <1>3, <1>4, LeftKeeps DEF Next

\* Once write is revoked no PUT is accepted, but with a token minted by a slot
\* that had looked at the policy before and came after the other tokens were gone.
THEOREM RevokedIsRevoked == Spec => RevocationStops
<1>1. Init => WithdrawInv
  BY InitType, InitLeft DEF WithdrawInv
<1>2. WithdrawInv /\ [Next]_vars
      => [\A s \in Requests \ raced : caps[s] = "open" /\ caps'[s] = "used" => "write" \in policy]_vars
  BY DEF WithdrawInv, Left
<1> QED
  BY <1>1, <1>2, NextLeft, PTL DEF Spec, RevocationStops

(***************************************************************************)
(* Tokens                                                                  *)
(***************************************************************************)
Accepted == {"location", "stage", "done"}

\* where slots and PUTs can be
SlotPlaces == {"idle", "policy", "look", "insert", "mint", "done", "refused"}
PutPlaces  == {"idle", "policy", "consume", "refused"} \union Accepted
Placed == \A r \in Requests : /\ Kind(r) = "slot" => at[r] \in SlotPlaces
                              /\ Kind(r) = "put" => at[r] \in PutPlaces

\* a PUT works with a slot that was answered, and one that is accepted has used it
Holds == \A p \in Requests : Kind(p) = "put" /\ at[p] # "idle" =>
  /\ of[p] \in Requests /\ Kind(of[p]) = "slot" /\ at[of[p]] = "done"
  /\ at[p] \in Accepted => caps[of[p]] # "open"

TokenInv == TypeOK /\ Placed /\ Holds /\ OneBodyPerToken

LEMMA InitToken == Init => Placed /\ Holds /\ OneBodyPerToken
<1> SUFFICES ASSUME Init PROVE Placed /\ Holds /\ OneBodyPerToken
  OBVIOUS
<1>1. PICK cast \in Casts :
        /\ call = cast.calls
        /\ at = [r \in Requests |-> IF cast.calls[r].kind = "none" THEN "done" ELSE "idle"]
  BY DEF Init
<1>2. \A r \in Requests : at[r] = IF Kind(r) = "none" THEN "done" ELSE "idle"
  BY <1>1 DEF Kind
<1> QED
  BY <1>2 DEF Placed, Holds, OneBodyPerToken, SlotPlaces, PutPlaces, Accepted

\* Where a step of a request takes it and the slot it works with.
LEMMA TokenMove ==
  ASSUME TypeOK, Placed, NEW r \in Requests,
         \/ Declared(r) \/ Policy(r) \/ SlotLook(r) \/ SlotInsert(r) \/ SlotMint(r) \/ Expire(r)
         \/ PutLoad(r) \/ Consume(r) \/ PutLocation(r) \/ Stage(r)
         \/ FinLook(r) \/ FinFind(r) \/ FinGet(r) \/ FinStore(r) \/ FinUnstage(r) \/ FinRecord(r)
         \/ Discard(r) \/ Forget(r) \/ DelLook(r) \/ DelErase(r) \/ DelRow(r)
         \/ AdminLoad(r) \/ DropFiles(r) \/ RevokeCaps(r) \/ RevokePolicies(r) \/ Undeclare(r)
         \/ Create(r) \/ Grant(r) \/ Clean(r)
  PROVE  /\ call' = call
         /\ \A q \in Requests : q # r => at'[q] = at[q] /\ of'[q] = of[q]
         /\ at[r] = "done" => at'[r] = "done"
         /\ Kind(r) = "slot" => at'[r] \in SlotPlaces
         /\ Kind(r) = "put" => /\ at'[r] \in PutPlaces
                               /\ at'[r] = "idle" => at[r] = "idle"
                               /\ of'[r] # of[r] => at[r] = "idle"
         /\ Kind(r) = "put" /\ at'[r] \in Accepted /\ at[r] \notin Accepted
            => at[r] = "consume" /\ caps[of[r]] = "open" /\ caps' = [caps EXCEPT ![of[r]] = "used"]
         /\ Kind(r) = "put" /\ at[r] = "idle" /\ at'[r] # "idle"
            => /\ of'[r] \in Requests /\ Kind(of'[r]) = "slot" /\ at[of'[r]] = "done"
               /\ at'[r] \in {"policy", "refused"}
         /\ \A s \in Requests : caps'[s] = "open" => caps[s] = "open" \/ (s = r /\ at[r] = "mint")
<1> USE DEF TypeOK, store, times, bucket, history, Goto
<1>p. /\ Kind(r) = "slot" => at[r] \in SlotPlaces
      /\ Kind(r) = "put" => at[r] \in PutPlaces
  BY DEF Placed
<1> USE <1>p DEF SlotPlaces, PutPlaces, Accepted
<1>1. CASE Declared(r)
  BY <1>1 DEF Declared
<1>2. CASE Policy(r)
  BY <1>2 DEF Policy
<1>3. CASE SlotLook(r) \/ SlotInsert(r)
  BY <1>3 DEF SlotLook, SlotInsert
<1>4. CASE SlotMint(r)
  BY <1>4 DEF SlotMint
<1>5. CASE Expire(r)
  BY <1>5 DEF Expire, request
<1>6. CASE PutLoad(r)
  BY <1>6 DEF PutLoad
<1>7. CASE Consume(r)
  BY <1>7 DEF Consume
<1>8. CASE PutLocation(r) \/ Stage(r)
  BY <1>8 DEF PutLocation, Stage
<1>9. CASE FinLook(r) \/ FinFind(r) \/ FinGet(r) \/ FinStore(r)
  BY <1>9 DEF FinLook, FinFind, FinGet, FinStore
<1>10. CASE FinUnstage(r) \/ FinRecord(r) \/ Discard(r) \/ Forget(r)
  BY <1>10 DEF FinUnstage, FinRecord, Discard, Forget
<1>11. CASE DelLook(r) \/ DelErase(r) \/ DelRow(r)
  BY <1>11 DEF DelLook, DelErase, DelRow
<1>12. CASE AdminLoad(r) \/ DropFiles(r) \/ RevokeCaps(r)
  BY <1>12 DEF AdminLoad, DropFiles, RevokeCaps
<1>13. CASE RevokePolicies(r) \/ Undeclare(r)
  BY <1>13 DEF RevokePolicies, Undeclare
<1>14. CASE Create(r) \/ Grant(r) \/ Clean(r)
  BY <1>14 DEF Create, Grant, Clean
<1> QED
  BY <1>1, <1>2, <1>3, <1>4, <1>5, <1>6, <1>7, <1>8, <1>9, <1>10, <1>11, <1>12, <1>13, <1>14

LEMMA NextToken == TokenInv /\ [Next]_vars => TokenInv'
<1> SUFFICES ASSUME TokenInv, [Next]_vars PROVE Placed' /\ Holds' /\ OneBodyPerToken'
  BY NextType DEF TokenInv
<1> USE DEF TokenInv
<1>1. CASE UNCHANGED vars
  BY <1>1 DEF vars, store, request, Placed, Holds, OneBodyPerToken, Kind
<1>2. CASE Next
  <2>1. PICK r \in Requests :
         \/ Declared(r) \/ Policy(r) \/ SlotLook(r) \/ SlotInsert(r) \/ SlotMint(r) \/ Expire(r)
         \/ PutLoad(r) \/ Consume(r) \/ PutLocation(r) \/ Stage(r)
         \/ FinLook(r) \/ FinFind(r) \/ FinGet(r) \/ FinStore(r) \/ FinUnstage(r) \/ FinRecord(r)
         \/ Discard(r) \/ Forget(r) \/ DelLook(r) \/ DelErase(r) \/ DelRow(r)
         \/ AdminLoad(r) \/ DropFiles(r) \/ RevokeCaps(r) \/ RevokePolicies(r) \/ Undeclare(r)
         \/ Create(r) \/ Grant(r) \/ Clean(r)
    BY <1>2 DEF Next
  <2>2. /\ call' = call
        /\ \A q \in Requests : q # r => at'[q] = at[q] /\ of'[q] = of[q]
        /\ at[r] = "done" => at'[r] = "done"
        /\ Kind(r) = "slot" => at'[r] \in SlotPlaces
        /\ Kind(r) = "put" => /\ at'[r] \in PutPlaces
                              /\ at'[r] = "idle" => at[r] = "idle"
                              /\ of'[r] # of[r] => at[r] = "idle"
        /\ Kind(r) = "put" /\ at'[r] \in Accepted /\ at[r] \notin Accepted
           => at[r] = "consume" /\ caps[of[r]] = "open" /\ caps' = [caps EXCEPT ![of[r]] = "used"]
        /\ Kind(r) = "put" /\ at[r] = "idle" /\ at'[r] # "idle"
           => /\ of'[r] \in Requests /\ Kind(of'[r]) = "slot" /\ at[of'[r]] = "done"
              /\ at'[r] \in {"policy", "refused"}
        /\ \A s \in Requests : caps'[s] = "open" => caps[s] = "open" \/ (s = r /\ at[r] = "mint")
    BY <2>1, TokenMove
  <2>3. caps \in [Requests -> {"none", "open", "used"}]
    BY DEF TypeOK
  <2>4. \A q \in Requests : Kind(q)' = Kind(q)
    BY <2>2 DEF Kind
  <2>5. Placed'
    BY <2>2, <2>4 DEF Placed
  <2>6. ASSUME NEW p \in Requests, Kind(p) = "put", at'[p] # "idle"
        PROVE  /\ of'[p] \in Requests /\ Kind(of'[p]) = "slot" /\ at'[of'[p]] = "done"
               /\ at'[p] \in Accepted => caps'[of'[p]] # "open"
    <3>1. CASE at[p] = "idle"
      BY <2>2, <2>6, <3>1 DEF Accepted
    <3>2. CASE at[p] # "idle"
      <4>1. /\ of'[p] = of[p] /\ of[p] \in Requests /\ Kind(of[p]) = "slot" /\ at[of[p]] = "done"
            /\ at[p] \in Accepted => caps[of[p]] # "open"
        BY <2>2, <2>6, <3>2 DEF Holds
      <4>2. at'[of[p]] = "done" /\ (caps'[of[p]] = "open" => caps[of[p]] = "open")
        BY <2>2, <4>1
      <4>3. at'[p] \in Accepted /\ at[p] \notin Accepted => caps'[of[p]] = "used"
        BY <2>2, <2>3, <2>6, <4>1
      <4> QED
        BY <4>1, <4>2, <4>3
    <3> QED
      BY <3>1, <3>2
  <2>7. Holds'
    BY <2>4, <2>6 DEF Holds
  <2>8. ASSUME NEW p \in Requests, NEW q \in Requests,
               Kind(p) = "put", at'[p] \in Accepted, Kind(q) = "put", at'[q] \in Accepted,
               of'[p] = of'[q], p # q
        PROVE  FALSE
    <3>1. at[p] # "idle" /\ of'[p] = of[p] /\ at[q] # "idle" /\ of'[q] = of[q]
      BY <2>2, <2>8 DEF Accepted
    <3>2. /\ at[p] \in Accepted => caps[of[p]] # "open"
          /\ at[q] \in Accepted => caps[of[q]] # "open"
      BY <2>8, <3>1 DEF Holds
    <3>3. ASSUME NEW c \in Requests, Kind(c) = "put", at'[c] \in Accepted, at[c] \notin Accepted
          PROVE  c = r /\ caps[of[c]] = "open"
      BY <2>2, <3>3
    <3>4. at[p] \in Accepted
      <4> SUFFICES ASSUME at[p] \notin Accepted PROVE FALSE
        OBVIOUS
      <4>1. p = r /\ caps[of[p]] = "open"
        BY <2>8, <3>3
      <4>2. at[q] \in Accepted
        BY <2>2, <2>8, <4>1
      <4> QED
        BY <2>8, <3>1, <3>2, <4>1, <4>2
    <3>5. at[q] \in Accepted
      <4> SUFFICES ASSUME at[q] \notin Accepted PROVE FALSE
        OBVIOUS
      <4>1. q = r /\ caps[of[q]] = "open"
        BY <2>8, <3>3
      <4> QED
        BY <2>8, <3>1, <3>2, <3>4, <4>1
    <3> QED
      BY <2>8, <3>1, <3>4, <3>5 DEF OneBodyPerToken, Accepted
  <2>9. OneBodyPerToken'
    BY <2>4, <2>8 DEF OneBodyPerToken, Accepted
  <2> QED
    BY <2>5, <2>7, <2>9
<1> QED
  BY <1>1, <1>2

\* An upload token stages one body, however its PUTs are replayed.
THEOREM TokensWorkOnce == Spec => []OneBodyPerToken
<1>1. Init => TokenInv
  BY InitType, InitToken DEF TokenInv
<1>2. TokenInv => OneBodyPerToken
  BY DEF TokenInv
<1> QED
  BY <1>1, <1>2, NextToken, PTL DEF Spec

(***************************************************************************)
(* Bytes                                                                   *)
(***************************************************************************)
\* unless requests crossed: one at most is between object and row, and the
\* object holds what a finalization there has verified
Alone == ~torn => \A q, r \in Requests : Midway(q) /\ Midway(r) => q = r
Verified == ~torn => \A f \in Requests : at[f] \in {"unstage", "record"} => object = bytes[f]
BytesInv == TypeOK /\ Alone /\ Verified /\ ReadyHasItsBytes

LEMMA InitBytes == Init => Alone /\ Verified /\ ReadyHasItsBytes
<1> SUFFICES ASSUME Init PROVE Alone /\ Verified /\ ReadyHasItsBytes
  OBVIOUS
<1>1. PICK cast \in Casts :
        /\ file = IF cast.there THEN [status |-> "ready", version |-> 1, sha |-> Seed] ELSE NoFile
        /\ object = IF cast.there THEN Seed ELSE None
        /\ at = [r \in Requests |-> IF cast.calls[r].kind = "none" THEN "done" ELSE "idle"]
  BY DEF Init
<1>2. \A r \in Requests : at[r] \in {"done", "idle"}
  BY <1>1
<1>3. file.status = "ready" => object = file.sha
  BY <1>1 DEF NoFile
<1> QED
  BY <1>2, <1>3 DEF Alone, Verified, ReadyHasItsBytes, Midway

\* the actions that touch neither the object nor the row
LEMMA BytesKeep ==
  ASSUME BytesInv, NEW r \in Requests,
         \/ Declared(r) \/ Policy(r) \/ SlotLook(r) \/ SlotMint(r) \/ Expire(r)
         \/ PutLoad(r) \/ Consume(r) \/ PutLocation(r) \/ Stage(r)
         \/ FinLook(r) \/ FinFind(r) \/ FinGet(r) \/ FinUnstage(r) \/ Discard(r) \/ DelLook(r)
         \/ AdminLoad(r) \/ DropFiles(r) \/ RevokeCaps(r) \/ RevokePolicies(r) \/ Undeclare(r)
         \/ Create(r) \/ Grant(r)
  PROVE  Alone' /\ Verified' /\ ReadyHasItsBytes'
<1> USE DEF BytesInv, TypeOK, store, times, bucket, history, Goto
<1>1. file' = file /\ object' = object /\ torn' = torn
  BY DEF Declared, Policy, SlotLook, SlotMint, Expire, PutLoad, Consume, PutLocation, Stage,
         FinLook, FinFind, FinGet, FinUnstage, Discard, DelLook, AdminLoad, DropFiles, RevokeCaps,
         RevokePolicies, Undeclare, Create, Grant
<1>2. /\ \A q \in Requests : q # r => at'[q] = at[q] /\ bytes'[q] = bytes[q]
      /\ at'[r] \in {"unstage", "record", "row"} <=> at[r] \in {"unstage", "record", "row"}
      /\ at'[r] \in {"unstage", "record"} => at[r] \in {"unstage", "record"} /\ bytes'[r] = bytes[r]
  <2>1. CASE Declared(r) \/ Policy(r) \/ SlotLook(r) \/ SlotMint(r)
    BY <2>1 DEF Declared, Policy, SlotLook, SlotMint
  <2>2. CASE Expire(r)
    BY <2>2 DEF Expire, request
  <2>3. CASE PutLoad(r) \/ Consume(r) \/ PutLocation(r) \/ Stage(r)
    BY <2>3 DEF PutLoad, Consume, PutLocation, Stage
  <2>4. CASE FinLook(r) \/ FinFind(r) \/ FinGet(r) \/ FinUnstage(r)
    BY <2>4 DEF FinLook, FinFind, FinGet, FinUnstage
  <2>5. CASE Discard(r) \/ DelLook(r) \/ AdminLoad(r) \/ DropFiles(r)
    BY <2>5 DEF Discard, DelLook, AdminLoad, DropFiles
  <2>6. CASE RevokeCaps(r) \/ RevokePolicies(r) \/ Undeclare(r) \/ Create(r) \/ Grant(r)
    BY <2>6 DEF RevokeCaps, RevokePolicies, Undeclare, Create, Grant
  <2> QED
    BY <2>1, <2>2, <2>3, <2>4, <2>5, <2>6
<1>3. \A q \in Requests : Midway(q)' <=> Midway(q)
  BY <1>2 DEF Midway
<1>4. Alone'
  BY <1>1, <1>3 DEF Alone
<1>5. Verified'
  BY <1>1, <1>2 DEF Verified
<1>6. ReadyHasItsBytes'
  BY <1>1, <1>3 DEF ReadyHasItsBytes
<1> QED
  BY <1>4, <1>5, <1>6

\* A row that is removed, or inserted as pending, is not ready.
LEMMA BytesForget ==
  ASSUME BytesInv, NEW r \in Requests, SlotInsert(r) \/ Forget(r) \/ Clean(r)
  PROVE  Alone' /\ Verified' /\ ReadyHasItsBytes'
<1> USE DEF BytesInv, TypeOK, times, bucket, history, Goto
<1>1. object' = object /\ torn' = torn /\ bytes' = bytes
  BY DEF SlotInsert, Forget, Clean
<1>2. file'.status = "ready" => file' = file
  BY DEF SlotInsert, Forget, Clean, NoFile
<1>3. \A q \in Requests : Midway(q)' = Midway(q) /\ (at'[q] \in {"unstage", "record"} => at[q] = at'[q])
  BY DEF SlotInsert, Forget, Clean, Midway
<1> QED
  BY <1>1, <1>2, <1>3 DEF Alone, Verified, ReadyHasItsBytes

\* A request that changes the object is alone, or requests have crossed.
LEMMA BytesChange ==
  ASSUME BytesInv, NEW r \in Requests, FinStore(r) \/ DelErase(r)
  PROVE  Alone' /\ Verified' /\ ReadyHasItsBytes'
<1> USE DEF BytesInv, TypeOK, store, times, history, Goto
<1>1. /\ at[r] \in {"store", "erase"} /\ at'[r] \in {"unstage", "row"}
      /\ \A q \in Requests : q # r => at'[q] = at[q]
      /\ bytes' = bytes /\ (at'[r] = "unstage" => object' = bytes[r])
      /\ torn' = (torn \/ Crosses(r))
  BY DEF FinStore, DelErase
<1>2. ~torn' => \A q \in Requests : q # r => ~Midway(q) /\ ~Midway(q)'
  BY <1>1 DEF Crosses, Midway
<1>3. Midway(r)'
  BY <1>1 DEF Midway
<1>4. Alone'
  BY <1>2, <1>3 DEF Alone
<1>5. Verified'
  BY <1>1, <1>2 DEF Verified, Midway
<1>6. ReadyHasItsBytes'
  BY <1>3 DEF ReadyHasItsBytes
<1> QED
  BY <1>4, <1>5, <1>6

\* A request that changes the row for the object is alone, or requests have crossed.
LEMMA BytesSettle ==
  ASSUME BytesInv, NEW r \in Requests, FinRecord(r) \/ DelRow(r)
  PROVE  Alone' /\ Verified' /\ ReadyHasItsBytes'
<1> USE DEF BytesInv, TypeOK, times, bucket, history, Goto
<1>1. /\ at[r] \in {"record", "row"} /\ at'[r] \in {"refused", "done"}
      /\ \A q \in Requests : q # r => at'[q] = at[q]
      /\ bytes' = bytes /\ object' = object /\ (torn => torn')
  BY DEF FinRecord, DelRow
<1>2. Midway(r) /\ ~Midway(r)'
  BY <1>1 DEF Midway
<1>3. \A q \in Requests : q # r => (Midway(q)' <=> Midway(q))
  BY <1>1 DEF Midway
<1>4. Alone'
  BY <1>1, <1>2, <1>3 DEF Alone
<1>5. Verified'
  BY <1>1 DEF Verified
<1>6. CASE FinRecord(r)
  <2>1. ~torn => object = bytes[r]
    BY <1>6 DEF FinRecord, Verified
  <2>2. file'.status = "ready" => file'.sha = bytes[r]
    BY <1>6 DEF FinRecord, Files
  <2> QED
    BY <1>1, <1>4, <1>5, <2>1, <2>2 DEF ReadyHasItsBytes
<1>7. CASE DelRow(r)
  <2>1. file'.status = "ready" => torn'
    <3>1. CASE file.status # "none" /\ file.version = ver[r]
      <4>1. file' = NoFile
        BY <1>7, <3>1 DEF DelRow
      <4> QED
        BY <4>1 DEF NoFile
    <3>2. CASE ~(file.status # "none" /\ file.version = ver[r])
      <4>1. file' = file /\ torn' = (torn \/ file.status = "ready")
        BY <1>7, <3>2 DEF DelRow
      <4> QED
        BY <4>1
    <3> QED
      BY <3>1, <3>2
  <2> QED
    BY <1>4, <1>5, <2>1 DEF ReadyHasItsBytes
<1> QED
  BY <1>6, <1>7

LEMMA NextBytes == BytesInv /\ [Next]_vars => BytesInv'
<1> SUFFICES ASSUME BytesInv, [Next]_vars PROVE Alone' /\ Verified' /\ ReadyHasItsBytes'
  BY NextType DEF BytesInv
<1>1. CASE UNCHANGED vars
  BY <1>1 DEF BytesInv, vars, store, bucket, request, history, Alone, Verified, ReadyHasItsBytes, Midway
<1>2. CASE Next
  BY <1>2, BytesKeep, BytesForget, BytesChange, BytesSettle DEF Next
<1> QED
  BY <1>1, <1>2

\* The bytes of a ready row are those it was verified for, unless requests crossed.
THEOREM ReadyIsBacked == Spec => []ReadyHasItsBytes
<1>1. Init => BytesInv
  BY InitType, InitBytes DEF BytesInv
<1>2. BytesInv => ReadyHasItsBytes
  BY DEF BytesInv
<1> QED
  BY <1>1, <1>2, NextBytes, PTL DEF Spec

=============================================================================
