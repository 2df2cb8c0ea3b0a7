--------------------------- MODULE Tables_proofs ---------------------------
(***************************************************************************)
(* Proofs about Tables, for any number of documents, requests and          *)
(* subscribers, any clocks and any size of a page.                         *)
(***************************************************************************)
EXTENDS Tables, FiniteSetTheorems, TLAPS

USE DEF store, request, feed, history

(***************************************************************************)
(* Type correctness                                                        *)
(***************************************************************************)
\* ids only grow; what has been loaded is an id there was
Ids ==
  /\ table <= made
  /\ \A r \in Requests : /\ of[r] <= made
                         /\ at[r] \notin {"idle", "done"} => of[r] # 0
  /\ \A s \in Readers : /\ poll[s].of <= made /\ token[s].table <= made
                        /\ poll[s].at = "idle" \/ poll[s].of # 0

\* only writes are where writes go
Writing == \A r \in Requests :
  at[r] \in {"check", "existing", "peak", "preflight"} => Kind(r) \in Writes

\* a plain type: TypeOK without the foreign keys
Plain ==
  /\ table \in Nat /\ made \in Nat
  /\ rows \in [Docs -> Rows \union {None}]
  /\ grants \subseteq Users \X Actions /\ viewers \subseteq Users
  /\ call \in [Requests -> Calls]
  /\ at \in [Requests -> Places] /\ of \in [Requests -> Nat]
  /\ wants \in [Requests -> SUBSET Actions]
  /\ stamp \in [Requests -> Nat] /\ seen \in [Requests -> SUBSET Docs]
  /\ answer \in [Requests -> Answers] /\ ok \in [Requests -> SUBSET Docs]
  /\ poll \in [Readers -> [at : {"idle", "check", "scan"}, of : Nat]]
  /\ user \in [Readers -> Users] /\ token \in [Readers -> Tokens]
  /\ copy \in [Readers -> [Docs -> Requests \union {Seed, None}]]
  /\ from \in [Readers -> Nat]
  /\ high \in Nat /\ loose \subseteq Requests /\ late \subseteq Docs
  /\ took \in [Requests -> SUBSET Docs] /\ gone \in [Requests -> SUBSET Docs]

Keys == table = 0 => Live = {} /\ grants = {}

TypeInv == Plain /\ Keys /\ Ids /\ Writing

\* a row's content and stamp
LEMMA LiveRow ==
  ASSUME Plain, NEW d \in Live
  PROVE  d \in Docs /\ rows[d] \in Rows /\ rows[d].stamp \in Nat
                    /\ rows[d].data \in Requests \union {Seed}
BY DEF Live, Plain, Rows

\* the call of a request
LEMMA CallType ==
  ASSUME Plain, NEW r \in Requests
  PROVE  /\ Kind(r) \in Kinds /\ call[r].who \in Users /\ call[r].docs \subseteq Docs
         /\ call[r].action \in Actions /\ call[r].grantee \in Users
BY DEF Plain, Calls, Kind

\* documents a write names
LEMMA NamesDocs ==
  ASSUME Plain, NEW r \in Requests
  PROVE  Inserts(r) \subseteq Docs /\ Updates(r) \subseteq Docs /\ Deletes(r) \subseteq Docs
BY CallType DEF Inserts, Updates, Deletes, Plain

\* the initial state
LEMMA TypeInit == Init => TypeInv
<1> SUFFICES ASSUME Init PROVE TypeInv
  OBVIOUS
<1> PICK cast \in Casts : Init!(cast)
  BY DEF Init
<1>0. /\ cast.calls \in [Requests -> Calls] /\ cast.grants \subseteq Users \X Actions
      /\ cast.first \subseteq Docs /\ cast.since \in [Readers -> Nat]
      /\ cast.readers \in [Readers -> Users]
  BY TableAssumption
<1>1. [data |-> Seed, stamp |-> 1] \in Rows
  BY DEF Rows
<1>2. /\ rows \in [Docs -> Rows \union {None}] /\ token \in [Readers -> Tokens]
      /\ copy \in [Readers -> [Docs -> Requests \union {Seed, None}]]
      /\ at \in [Requests -> Places] /\ answer \in [Requests -> Answers]
      /\ poll \in [Readers -> [at : {"idle", "check", "scan"}, of : Nat]]
  BY <1>0, <1>1 DEF Tokens, Empty, Places, Answers
<1>3. Plain
  BY <1>0, <1>2 DEF Plain
<1> QED
  BY <1>3, <1>0 DEF TypeInv, Keys, Ids, Writing

\* the types through a request's answer, or its way to a place
LEMMA AnswerType ==
  ASSUME Plain, NEW r \in Requests, NEW a \in Answers, NEW docs \in SUBSET Docs, Answer(r, a, docs)
  PROVE  /\ at' \in [Requests -> Places] /\ answer' \in [Requests -> Answers]
         /\ ok' \in [Requests -> SUBSET Docs]
BY DEF Plain, Answer, Places

\* and its way to a place
LEMMA GotoType ==
  ASSUME Plain, NEW r \in Requests, NEW place \in Places, Goto(r, place)
  PROVE  /\ at' \in [Requests -> Places] /\ answer' \in [Requests -> Answers]
         /\ ok' \in [Requests -> SUBSET Docs]
BY DEF Plain, Goto

\* a request that goes on or ends keeps the ids and the places
LEMMA MoveKeeps ==
  ASSUME Plain, Ids, Writing, NEW r \in Requests, UNCHANGED <<table, made, call, of, poll, token>>,
         \E place \in Places :
            /\ at' = [at EXCEPT ![r] = place]
            /\ place = "done" \/ (at[r] \notin {"idle", "done"})
            /\ place \in {"check", "existing", "peak", "preflight"} => Kind(r) \in Writes
  PROVE  Ids' /\ Writing'
<1> PICK place \in Places :
            /\ at' = [at EXCEPT ![r] = place]
            /\ place = "done" \/ (at[r] \notin {"idle", "done"})
            /\ place \in {"check", "existing", "peak", "preflight"} => Kind(r) \in Writes
  OBVIOUS
<1>1. Ids'
  BY DEF Ids, Plain
<1>2. Writing'
  BY DEF Writing, Plain, Kind
<1> QED
  BY <1>1, <1>2

\* loading a table
LEMMA LoadKeeps ==
  ASSUME TypeInv, NEW r \in Requests, Load(r) \/ LoadOwned(r)
  PROVE  TypeInv'
<1> USE DEF TypeInv
<1>0. "check" \in Places /\ "write" \in Places /\ "missing" \in Answers /\ "denied" \in Answers
  BY DEF Places, Answers
<1>1. Needs(Kind(r)) \subseteq Actions \/ Kind(r) \notin Writes
  BY DEF Needs, Actions, Writes, Batches
<1>2. /\ at' \in [Requests -> Places] /\ answer' \in [Requests -> Answers]
      /\ ok' \in [Requests -> SUBSET Docs]
  BY <1>0, AnswerType, GotoType DEF Load, LoadOwned
<1>3. of' \in [Requests -> Nat] /\ wants' \in [Requests -> SUBSET Actions]
  <2>1. CASE Load(r)
    BY <1>1, <2>1 DEF Load, Plain
  <2>2. CASE LoadOwned(r)
    BY <2>2 DEF LoadOwned, Plain
  <2> QED
    BY <2>1, <2>2
<1>3a. Plain'
  <2>1. CASE Load(r)
    BY <1>2, <1>3, <2>1 DEF Load, Plain
  <2>2. CASE LoadOwned(r)
    BY <1>2, <1>3, <2>2 DEF LoadOwned, Plain
  <2> QED
    BY <2>1, <2>2
<1>4. Keys'
  BY DEF Keys, Live, Load, LoadOwned
<1>5. Ids'
  <2>1. CASE Load(r)
    BY <2>1 DEF Ids, Plain, Load, Goto, Answer
  <2>2. CASE LoadOwned(r)
    BY <2>2 DEF Ids, Plain, LoadOwned, Goto, Answer
  <2> QED
    BY <2>1, <2>2
<1>6. Writing'
  BY DEF Writing, Plain, Kind, Load, LoadOwned, Goto, Answer
<1> QED
  BY <1>3a, <1>4, <1>5, <1>6

\* the checks, the preflight, the stamp
LEMMA StepKeeps ==
  ASSUME TypeInv, NEW r \in Requests, Check(r) \/ Preflight(r) \/ Peak(r)
  PROVE  TypeInv'
<1> USE DEF TypeInv
<1>a. /\ "check" \in Places /\ "write" \in Places /\ "existing" \in Places /\ "peak" \in Places
      /\ "preflight" \in Places /\ "missing" \in Answers /\ "denied" \in Answers /\ "ok" \in Answers
  BY DEF Places, Answers
<1>0. Kind(r) \in Writes /\ at[r] \notin {"idle", "done"}
  BY DEF Writing, Check, Preflight, Peak
<1>1. CASE Check(r)
  <2>1. PICK a \in wants[r] :
          /\ wants' = [wants EXCEPT ![r] = @ \ {a}]
          /\ \/ Answer(r, "denied", {}) \/ Answer(r, "ok", {})
             \/ \E place \in {"check", "peak", "existing", "preflight", "write"} : Goto(r, place)
    BY <1>1, <1>0 DEF Check, Permitted, Writes, Batches
  <2>2. /\ at' \in [Requests -> Places] /\ answer' \in [Requests -> Answers]
        /\ ok' \in [Requests -> SUBSET Docs]
    BY <2>1, <1>a, AnswerType, GotoType
  <2>3. Plain'
    BY <1>1, <2>1, <2>2 DEF Plain, Check
  <2>4. Ids' /\ Writing'
    <3>1. \E place \in Places :
            /\ at' = [at EXCEPT ![r] = place]
            /\ place = "done" \/ (at[r] \notin {"idle", "done"})
            /\ place \in {"check", "existing", "peak", "preflight"} => Kind(r) \in Writes
      BY <2>1, <1>0, <1>a DEF Answer, Goto, Places
    <3> QED
      BY <1>1, <3>1, MoveKeeps DEF Check
  <2> QED
    BY <1>1, <2>3, <2>4 DEF Check, Keys, Live
<1>2. CASE Preflight(r)
  <2>1. \/ Answer(r, "missing", {})
        \/ \E place \in {"peak", "write"} : Goto(r, place)
    BY <1>2 DEF Preflight
  <2>2. /\ at' \in [Requests -> Places] /\ answer' \in [Requests -> Answers]
        /\ ok' \in [Requests -> SUBSET Docs]
    BY <2>1, <1>a, AnswerType, GotoType
  <2>3. seen' \in [Requests -> SUBSET Docs]
    BY <1>2, CallType DEF Preflight, Plain, Live
  <2>4. Plain'
    BY <1>2, <2>2, <2>3 DEF Plain, Preflight
  <2>5. Ids' /\ Writing'
    <3>1. \E place \in Places :
            /\ at' = [at EXCEPT ![r] = place]
            /\ place = "done" \/ (at[r] \notin {"idle", "done"})
            /\ place \in {"check", "existing", "peak", "preflight"} => Kind(r) \in Writes
      BY <2>1, <1>0, <1>a DEF Answer, Goto, Places
    <3> QED
      BY <1>2, <3>1, MoveKeeps DEF Preflight
  <2> QED
    BY <1>2, <2>4, <2>5 DEF Preflight, Keys, Live
<1>3. CASE Peak(r)
  <2>1. \E n \in Nat : stamp' = [stamp EXCEPT ![r] = n]
    <3>1. \A d \in Live : rows[d].stamp + 1 \in Nat
      BY LiveRow
    <3> QED
      BY <1>3, <3>1, TableAssumption DEF Peak
  <2>2. \E place \in {"preflight", "write"} : Goto(r, place)
    BY <1>3 DEF Peak
  <2>3. /\ at' \in [Requests -> Places] /\ answer' \in [Requests -> Answers]
        /\ ok' \in [Requests -> SUBSET Docs]
    BY <2>2, <1>a, GotoType
  <2>4. Plain'
    <3>1. stamp' \in [Requests -> Nat] /\ loose' \subseteq Requests
      BY <1>3, <2>1 DEF Plain, Peak
    <3> QED
      BY <1>3, <2>3, <3>1 DEF Plain, Peak
  <2>5. Ids' /\ Writing'
    <3>1. \E place \in Places :
            /\ at' = [at EXCEPT ![r] = place]
            /\ place = "done" \/ (at[r] \notin {"idle", "done"})
            /\ place \in {"check", "existing", "peak", "preflight"} => Kind(r) \in Writes
      BY <2>2, <1>0, <1>a DEF Goto
    <3> QED
      BY <1>3, <3>1, MoveKeeps DEF Peak
  <2> QED
    BY <1>3, <2>4, <2>5 DEF Peak, Keys, Live
<1> QED
  BY <1>1, <1>2, <1>3

\* the write, as one transaction
LEMMA WriteKeeps ==
  ASSUME TypeInv, NEW r \in Requests, Write(r)
  PROVE  TypeInv'
<1> USE DEF TypeInv
<1>a. /\ Failure(r) \in Answers /\ "missing" \in Answers /\ "ok" \in Answers
  BY DEF Failure, Answers
<1>0. at[r] \notin {"idle", "done"} /\ of[r] # 0
  BY DEF Write, Ids
<1>1. /\ \E a \in Answers, docs \in SUBSET Docs : Answer(r, a, docs)
      /\ Ids' /\ Writing'
  <2>1. \E a \in Answers, docs \in SUBSET Docs : Answer(r, a, docs)
    BY <1>a, NamesDocs DEF Write, Land
  <2>2. \E place \in Places :
            /\ at' = [at EXCEPT ![r] = place]
            /\ place = "done" \/ (at[r] \notin {"idle", "done"})
            /\ place \in {"check", "existing", "peak", "preflight"} => Kind(r) \in Writes
    BY <2>1 DEF Answer, Places
  <2> QED
    BY <2>1, <2>2, MoveKeeps DEF Write
<1>2. /\ at' \in [Requests -> Places] /\ answer' \in [Requests -> Answers]
      /\ ok' \in [Requests -> SUBSET Docs]
  BY <1>1, AnswerType
<1>3. CASE Aborts(r)
  BY <1>1, <1>2, <1>3 DEF Write, Plain, Keys, Live
<1>4. CASE ~Aborts(r)
  <2> DEFINE written == IF Sees(of[r]) THEN (Inserts(r) \ Live) \union (Updates(r) \intersect Live) ELSE {}
             deleted == IF Sees(of[r]) THEN Deletes(r) \intersect Live ELSE {}
  <2>0. /\ rows' = [d \in Docs |-> IF d \in written THEN [data |-> r, stamp |-> stamp[r]]
                                  ELSE IF d \in deleted THEN None ELSE rows[d]]
        /\ high' = IF written # {} /\ stamp[r] > high THEN stamp[r] ELSE high
        /\ loose' = IF written = {} THEN loose
                    ELSE loose \union {q \in Requests \ {r} : stamp[q] # 0 /\ at[q] # "done"}
        /\ late' = (late \ (written \union deleted)) \union (IF r \in loose THEN written ELSE {})
        /\ took' = [took EXCEPT ![r] = written \union deleted]
        /\ Vanish(r, deleted)
    BY <1>4 DEF Write, Land
  <2>1. written \subseteq Docs /\ deleted \subseteq Docs
    BY NamesDocs
  <2>2. [data |-> r, stamp |-> stamp[r]] \in Rows
    BY DEF Rows, Plain
  <2>3. rows' \in [Docs -> Rows \union {None}]
    <3> HIDE DEF written, deleted
    <3> QED
      BY <2>0, <2>2 DEF Plain
  <2>4. gone' \in [Requests -> SUBSET Docs]
    <3> HIDE DEF written, deleted
    <3> QED
      BY <2>0, <2>1 DEF Vanish, Plain
  <2>5. Plain'
    <3>1. high' \in Nat /\ loose' \subseteq Requests /\ late' \subseteq Docs /\ took' \in [Requests -> SUBSET Docs]
      <4> HIDE DEF written, deleted
      <4> QED
        BY <2>0, <2>1 DEF Plain
    <3> QED
      BY <2>3, <2>4, <3>1, <1>2 DEF Write, Plain
  <2>6. Keys'
    <3> SUFFICES ASSUME table' = 0 PROVE Live' = {} /\ grants' = {}
      BY DEF Keys
    <3>1. table = 0 /\ grants' = grants /\ ~Sees(of[r])
      BY <1>0 DEF Write, Sees
    <3>2. written = {} /\ deleted = {}
      BY <3>1
    <3>3. rows' = [d \in Docs |-> rows[d]]
      <4> HIDE DEF written, deleted
      <4> QED
        BY <3>2, <2>0
    <3> QED
      BY <3>1, <3>3 DEF Keys, Live
  <2> QED
    BY <1>1, <2>5, <2>6
<1> QED
  BY <1>3, <1>4

\* tables, grants and roles
LEMMA OwnerKeeps ==
  ASSUME TypeInv, NEW r \in Requests,
         Create(r) \/ DropRows(r) \/ DropGrants(r) \/ DropTable(r) \/ Administer(r) \/ Demote(r)
  PROVE  TypeInv'
<1> USE DEF TypeInv
<1>a. /\ "grants" \in Places /\ "table" \in Places
      /\ "ok" \in Answers /\ "conflict" \in Answers /\ "error" \in Answers
  BY DEF Places, Answers
<1>1. /\ at' \in [Requests -> Places] /\ answer' \in [Requests -> Answers]
      /\ ok' \in [Requests -> SUBSET Docs]
  <2>1. \/ \E a \in {"ok", "conflict", "error"} : Answer(r, a, {})
        \/ \E place \in {"grants", "table"} : Goto(r, place)
    BY DEF Create, DropRows, DropGrants, DropTable, Administer, Demote
  <2> QED
    BY <2>1, <1>a, AnswerType, GotoType
<1>2. CASE Create(r)
  <2>1. Plain'
    BY <1>2, <1>1 DEF Plain, Create
  <2>2. Keys' /\ Writing'
    BY <1>2 DEF Keys, Live, Writing, Kind, Create, Answer, Plain
  <2>3. Ids'
    <3>1. made \in Nat /\ made <= made' /\ table' <= made' /\ at' = [at EXCEPT ![r] = "done"]
      BY <1>2 DEF Create, Answer, Plain, Ids
    <3>2. \A q \in Requests : /\ of'[q] = of[q] /\ of[q] \in Nat
                              /\ at'[q] \notin {"idle", "done"} => at[q] \notin {"idle", "done"}
      BY <1>2, <3>1 DEF Create, Plain
    <3>3. \A x \in Readers : /\ poll'[x] = poll[x] /\ token'[x] = token[x]
                             /\ poll[x].of \in Nat /\ token[x].table \in Nat
      BY <1>2 DEF Create, Plain, Tokens
    <3>4. made' \in Nat
      BY <1>2 DEF Create, Plain
    <3> QED
      BY <3>1, <3>2, <3>3, <3>4 DEF Ids
  <2> QED
    BY <2>1, <2>2, <2>3
<1>3. CASE DropRows(r)
  <2>1. rows' \in [Docs -> Rows \union {None}] /\ late' \subseteq Docs /\ gone' \in [Requests -> SUBSET Docs]
    <3>1. CASE Sees(of[r])
      <4>1. rows' = Empty /\ late' = {}
        BY <1>3, <3>1 DEF DropRows
      <4>2. gone' \in [Requests -> SUBSET Docs]
        <5>1. \A q \in Requests : gone[q] \union (Live \intersect seen[q]) \in SUBSET Docs
          BY DEF Plain, Live
        <5>2. Vanish(r, Live)
          BY <1>3, <3>1 DEF DropRows
        <5> QED
          BY <5>1, <5>2 DEF Vanish, Plain
      <4> QED
        BY <4>1, <4>2 DEF Empty
    <3>2. CASE ~Sees(of[r])
      BY <1>3, <3>2 DEF DropRows, Plain
    <3> QED
      BY <3>1, <3>2
  <2>2. Plain'
    BY <1>3, <1>1, <2>1 DEF Plain, DropRows
  <2>3. Keys' /\ Writing'
    BY <1>3 DEF Keys, Live, Empty, Writing, Kind, DropRows, Goto, Plain
  <2>4. Ids'
    BY <1>3 DEF Ids, Plain, DropRows, Goto
  <2> QED
    BY <2>2, <2>3, <2>4
<1>4. CASE DropGrants(r)
  <2>1. Plain'
    BY <1>4, <1>1 DEF Plain, DropGrants
  <2>2. Keys' /\ Writing'
    BY <1>4 DEF Keys, Live, Writing, Kind, DropGrants, Goto, Plain
  <2>3. Ids'
    BY <1>4 DEF Ids, Plain, DropGrants, Goto
  <2> QED
    BY <2>1, <2>2, <2>3
<1>5. CASE DropTable(r)
  <2>1. Plain'
    BY <1>5, <1>1 DEF Plain, DropTable
  <2>2. Keys' /\ Writing'
    BY <1>5 DEF Keys, Live, Writing, Kind, DropTable, Answer, Plain
  <2>3. Ids'
    BY <1>5 DEF Ids, Plain, DropTable, Answer
  <2> QED
    BY <2>1, <2>2, <2>3
<1>6. CASE Administer(r)
  <2>1. <<call[r].grantee, call[r].action>> \in Users \X Actions
    BY CallType
  <2>2. Plain'
    <3>1. grants' \subseteq Users \X Actions
      BY <1>6, <2>1 DEF Administer, Plain
    <3> QED
      BY <1>6, <1>1, <3>1 DEF Administer, Plain
  <2>3. of[r] # 0
    BY <1>6 DEF Administer, Ids
  <2>4. Keys' /\ Writing'
    BY <1>6, <2>3 DEF Keys, Live, Writing, Kind, Administer, Answer, Plain, Sees
  <2>5. Ids'
    BY <1>6 DEF Ids, Plain, Administer, Answer
  <2> QED
    BY <2>2, <2>4, <2>5
<1>7. CASE Demote(r)
  <2>1. Plain'
    BY <1>7, <1>1, CallType DEF Plain, Demote
  <2>2. Keys' /\ Writing'
    BY <1>7 DEF Keys, Live, Writing, Kind, Demote, Answer, Plain
  <2>3. Ids'
    BY <1>7 DEF Ids, Plain, Demote, Answer
  <2> QED
    BY <2>1, <2>2, <2>3
<1> QED
  BY <1>2, <1>3, <1>4, <1>5, <1>6, <1>7

\* a page is made of rows
LEMMA PageRows ==
  ASSUME NEW t
  PROVE  Page(t) \subseteq {d \in Live : After(d, t)}
BY DEF Page

\* the subscribers
LEMMA PollKeeps ==
  ASSUME TypeInv, NEW s \in Readers, PollLoad(s) \/ PollCheck(s) \/ PollScan(s)
  PROVE  TypeInv'
<1> USE DEF TypeInv
<1>1. CASE PollLoad(s)
  BY <1>1 DEF PollLoad, Plain, Keys, Live, Ids, Writing, Kind
<1>2. CASE PollCheck(s)
  <2>1. NoPosition \in Tokens /\ Empty \in [Docs -> Requests \union {Seed, None}]
    BY DEF NoPosition, Tokens, Empty
  <2>2. /\ token' \in [Readers -> Tokens] /\ from' \in [Readers -> Nat]
        /\ copy' \in [Readers -> [Docs -> Requests \union {Seed, None}]]
        /\ poll' \in [Readers -> [at : {"idle", "check", "scan"}, of : Nat]]
    <3>1. poll' \in [Readers -> [at : {"idle", "check", "scan"}, of : Nat]]
      <4>1. \E place \in {"idle", "scan"} : poll' = [poll EXCEPT ![s].at = place]
        BY <1>2 DEF PollCheck
      <4> QED
        BY <4>1 DEF Plain
    <3>2. \/ UNCHANGED <<token, copy, from>>
          \/ /\ token' = [token EXCEPT ![s] = NoPosition]
             /\ copy' = [copy EXCEPT ![s] = Empty]
             /\ from' = [from EXCEPT ![s] = 0]
      BY <1>2 DEF PollCheck
    <3>3. CASE UNCHANGED <<token, copy, from>>
      BY <3>1, <3>3 DEF Plain
    <3>4. CASE /\ token' = [token EXCEPT ![s] = NoPosition]
               /\ copy' = [copy EXCEPT ![s] = Empty]
               /\ from' = [from EXCEPT ![s] = 0]
      BY <2>1, <3>1, <3>4 DEF Plain
    <3> QED
      BY <3>2, <3>3, <3>4
  <2>3. Plain'
    BY <1>2, <2>2 DEF PollCheck, Plain
  <2>4. Ids'
    <3>1. \A x \in Readers : /\ poll'[x].of = poll[x].of
                             /\ poll'[x].at = "idle" \/ poll[x].at # "idle"
      BY <1>2 DEF PollCheck, Plain
    <3>2. \A x \in Readers : token'[x] = token[x] \/ token'[x].table = 0
      BY <1>2 DEF PollCheck, Plain, NoPosition
    <3> QED
      BY <1>2, <3>1, <3>2 DEF Ids, PollCheck, Plain
  <2> QED
    BY <1>2, <2>3, <2>4 DEF PollCheck, Keys, Live, Writing, Kind
<1>3. CASE PollScan(s)
  <2> DEFINE page == IF Sees(poll[s].of) THEN Page(token[s]) ELSE {}
  <2>0. page \subseteq Live
    BY PageRows
  <2>1. copy' \in [Readers -> [Docs -> Requests \union {Seed, None}]]
    <3>1. \A d \in page : rows[d].data \in Requests \union {Seed}
      BY <2>0, LiveRow
    <3> HIDE DEF page
    <3>2. copy' = [copy EXCEPT ![s] = [d \in Docs |-> IF d \in page THEN rows[d].data ELSE @[d]]]
      BY <1>3 DEF PollScan, page
    <3> QED
      BY <3>1, <3>2 DEF Plain
  <2>2. token' = token \/ \E last \in Live : token' = [token EXCEPT ![s] = Position(last)]
    BY <1>3, <2>0 DEF PollScan
  <2>3. \A last \in Live : Position(last) \in Tokens /\ Position(last).table = table
    <3> SUFFICES ASSUME NEW last \in Live PROVE Position(last) \in Tokens /\ Position(last).table = table
      OBVIOUS
    <3>1. last \in Nat /\ rows[last].stamp \in Nat /\ table \in Nat
      BY LiveRow, TableAssumption DEF Plain
    <3> QED
      BY <3>1 DEF Position, Tokens
  <2>4. token' \in [Readers -> Tokens]
    BY <2>2, <2>3 DEF Plain
  <2>5. Plain'
    <3>1. poll' \in [Readers -> [at : {"idle", "check", "scan"}, of : Nat]]
      BY <1>3 DEF PollScan, Plain
    <3> QED
      BY <1>3, <2>1, <2>4, <3>1 DEF PollScan, Plain
  <2>6. Ids'
    <3>1. \A x \in Readers : token'[x].table <= made
      BY <2>2, <2>3 DEF Ids, Plain
    <3> QED
      BY <1>3, <3>1 DEF PollScan, Ids, Plain
  <2> QED
    BY <1>3, <2>5, <2>6 DEF PollScan, Keys, Live, Writing, Kind
<1> QED
  BY <1>1, <1>2, <1>3

\* every step
LEMMA TypeStep == TypeInv /\ [Next]_vars => TypeInv'
<1> SUFFICES ASSUME TypeInv, [Next]_vars PROVE TypeInv'
  OBVIOUS
<1>1. CASE UNCHANGED vars
  BY <1>1 DEF TypeInv, Plain, Keys, Ids, Writing, Live, Kind, vars
<1>2. CASE Next
  BY <1>2, LoadKeeps, StepKeeps, WriteKeeps, OwnerKeeps, PollKeeps DEF Next
<1> QED
  BY <1>1, <1>2

\* Every variable keeps its type, and no row or grant outlives its table.
THEOREM TypeCorrect == Spec => []TypeOK
<1>1. TypeInv => TypeOK
  BY DEF TypeInv, Plain, Keys, TypeOK
<1> QED
  BY <1>1, TypeInit, TypeStep, PTL DEF Spec

(***************************************************************************)
(* The feed loses nothing                                                  *)
(***************************************************************************)
\* a request that holds a stamp
Stamped(r) == /\ at[r] \in {"preflight", "write"}
              /\ Kind(r) \in {"insert", "update"} \union Batches

\* the stamps of the rows, of the tokens, and of the requests that will write:
\* unless it was overtaken, what comes is above whatever a token can name
Stamps ==
  /\ \A d \in Live : rows[d].stamp <= high
  /\ \A s \in Readers : token[s].table = table /\ table # 0 => token[s].stamp <= high
  /\ \A r \in Requests : Stamped(r) =>
       stamp[r] # 0 /\ (of[r] = table /\ r \notin loose => stamp[r] > high)

\* an unbound token is where its subscriber started; a scan goes by a token that
\* is unbound or of the table the poll has loaded
Positions == \A s \in Readers :
  /\ token[s].table = 0 => token[s].doc = 0 /\ token[s].stamp = from[s]
  /\ poll[s].at = "scan" => token[s].table \in {0, poll[s].of}

FeedInv == Stamps /\ Positions /\ FeedComplete

\* the initial state
LEMMA FeedInit == Init => FeedInv
<1> SUFFICES ASSUME Init PROVE FeedInv
  OBVIOUS
<1> PICK cast \in Casts : Init!(cast)
  BY DEF Init
<1>0. cast.since \in [Readers -> Nat]
  BY TableAssumption
<1>1. \A s \in Readers : token[s] = [table |-> 0, stamp |-> from[s], doc |-> 0]
  BY <1>0
<1>2. \A d \in Live : rows[d].stamp <= high
  BY DEF Live
<1>3. Stamps
  <2>1. table = 1 /\ \A r \in Requests : at[r] \in {"idle", "done"}
    OBVIOUS
  <2>2. \A s \in Readers : token[s].table = 0
    BY <1>1
  <2>3. \A r \in Requests : ~Stamped(r)
    BY <2>1 DEF Stamped
  <2> QED
    <3>2. \A s \in Readers : ~(token[s].table = table /\ table # 0)
      BY <2>1, <2>2
    <3> QED
      BY <1>2, <2>3, <3>2 DEF Stamps
<1>4. Positions
  BY <1>1 DEF Positions
<1>5. FeedComplete
  BY <1>1 DEF FeedComplete
<1> QED
  BY <1>3, <1>4, <1>5 DEF FeedInv

\* steps that touch neither rows nor tokens nor stamps
LEMMA FeedQuiet ==
  ASSUME FeedInv, Plain, UNCHANGED <<table, rows, high, loose, late, stamp, call, feed>>,
         \A q \in Requests : Stamped(q)' => Stamped(q) /\ of'[q] = of[q]
  PROVE  FeedInv'
<1>1. Stamps'
  BY DEF FeedInv, Stamps, Live
<1>2. Positions'
  BY DEF FeedInv, Positions
<1>3. FeedComplete'
  BY DEF FeedInv, FeedComplete, Live, After
<1> QED
  BY <1>1, <1>2, <1>3 DEF FeedInv

\* the steps before a write, and the owner's that touch no rows
LEMMA FeedQuietSteps ==
  ASSUME FeedInv, TypeInv, NEW r \in Requests,
         \/ Load(r) \/ Check(r) \/ Preflight(r) \/ LoadOwned(r)
         \/ DropGrants(r) \/ Administer(r) \/ Demote(r)
  PROVE  FeedInv'
<1> USE DEF TypeInv
<1>1. UNCHANGED <<table, rows, high, loose, late, stamp, call, feed>>
  BY DEF Load, Check, Preflight, LoadOwned, DropGrants, Administer, Demote
<1>2. \A q \in Requests : Stamped(q)' => Stamped(q) /\ of'[q] = of[q]
  <2>1. CASE Load(r)
    BY <2>1 DEF Load, Goto, Answer, Stamped, Kind, Plain
  <2>2. CASE Check(r)
    <3>1. PICK place : /\ at' = [at EXCEPT ![r] = place]
                       /\ place \in {"preflight", "write"} => Kind(r) \notin {"insert", "update"} \union Batches
      BY <2>2 DEF Check, Permitted, Goto, Answer, Batches, Writing, Writes
    <3> QED
      BY <2>2, <3>1 DEF Check, Stamped, Kind, Plain
  <2>3. CASE Preflight(r)
    <3>1. PICK place : /\ at' = [at EXCEPT ![r] = place]
                       /\ place \in {"preflight", "write"} => at[r] = "preflight"
      BY <2>3 DEF Preflight, Goto, Answer
    <3> QED
      BY <2>3, <3>1 DEF Preflight, Stamped, Kind, Plain
  <2>4. CASE LoadOwned(r)
    BY <2>4 DEF LoadOwned, Goto, Answer, Stamped, Kind, Plain, Batches
  <2>5. CASE DropGrants(r) \/ Administer(r) \/ Demote(r)
    BY <2>5 DEF DropGrants, Administer, Demote, Goto, Answer, Stamped, Kind, Plain
  <2> QED
    BY <2>1, <2>2, <2>3, <2>4, <2>5
<1> QED
  BY <1>1, <1>2, FeedQuiet

\* a stamp is above the rows, hence above every stamp there was, unless the
\* highest row is gone
LEMMA FeedPeak ==
  ASSUME FeedInv, TypeInv, NEW r \in Requests, Peak(r)
  PROVE  FeedInv'
<1> USE DEF TypeInv
<1>1. PICK now \in Times : \E n \in {now} \union {rows[d].stamp + 1 : d \in Live} :
         NextRevision(n, now, of[r]) /\ stamp' = [stamp EXCEPT ![r] = n]
  BY DEF Peak
<1>2. PICK n \in {now} \union {rows[d].stamp + 1 : d \in Live} :
         NextRevision(n, now, of[r]) /\ stamp' = [stamp EXCEPT ![r] = n]
  BY <1>1
<1>3. now \in Nat /\ now # 0 /\ n \in Nat /\ high \in Nat
  BY <1>2, TableAssumption, LiveRow DEF Plain
<1>4. n # 0
  BY <1>2, <1>3 DEF NextRevision
<1>5. of[r] = table => \A d \in Live : n > rows[d].stamp
  <2> SUFFICES ASSUME of[r] = table, NEW d \in Live PROVE n > rows[d].stamp
    OBVIOUS
  <2>1. rows[d].stamp \in Nat
    BY LiveRow
  <2> QED
    BY <1>2, <1>3, <2>1 DEF NextRevision, Sees
<1>6. of[r] = table /\ ~Sunk => n > high
  <2> SUFFICES ASSUME of[r] = table, ~Sunk PROVE n > high
    OBVIOUS
  <2>1. CASE high = 0
    BY <2>1, <1>3, <1>4
  <2>2. CASE high # 0
    <3>1. PICK d \in Live : ~(rows[d].stamp < high)
      BY <2>2, <1>3 DEF Sunk
    <3>2. rows[d].stamp \in Nat
      BY LiveRow
    <3> QED
      BY <3>1, <3>2, <1>3, <1>5
  <2> QED
    BY <2>1, <2>2
<1>7. Stamps'
  <2>1. \A q \in Requests : Stamped(q)' =>
          stamp'[q] # 0 /\ (of'[q] = table' /\ q \notin loose' => stamp'[q] > high')
    <3> SUFFICES ASSUME NEW q \in Requests, Stamped(q)'
                 PROVE  stamp'[q] # 0 /\ (of[q] = table /\ q \notin loose' => stamp'[q] > high)
      BY DEF Peak
    <3>1. CASE q = r
      <4>1. stamp'[q] = n /\ (r \notin loose' => ~Sunk)
        BY <3>1, <1>2 DEF Peak, Plain
      <4> QED
        BY <3>1, <4>1, <1>4, <1>6
    <3>2. CASE q # r
      <4>1. stamp'[q] = stamp[q] /\ Stamped(q) /\ loose \subseteq loose'
        BY <3>2, <1>2 DEF Peak, Plain, Goto, Stamped, Kind
      <4> QED
        BY <4>1 DEF FeedInv, Stamps
    <3> QED
      BY <3>1, <3>2
  <2> QED
    BY <2>1 DEF FeedInv, Stamps, Peak, Live
<1>8. Positions' /\ FeedComplete'
  BY DEF FeedInv, Positions, FeedComplete, Peak, Live, After
<1> QED
  BY <1>7, <1>8 DEF FeedInv

\* what is written is above every token, or its writer was overtaken
LEMMA FeedWrite ==
  ASSUME FeedInv, TypeInv, NEW r \in Requests, Write(r)
  PROVE  FeedInv'
<1> USE DEF TypeInv
<1>a. at' = [at EXCEPT ![r] = "done"]
  BY DEF Write, Land, Answer
<1>b. \A q \in Requests : Stamped(q)' => Stamped(q) /\ q # r
  BY <1>a DEF Stamped, Kind, Plain, Write
<1>1. CASE Aborts(r)
  <2>1. UNCHANGED <<table, rows, high, loose, late, stamp, call, feed>> /\ of' = of
    BY <1>1 DEF Write
  <2> QED
    BY <1>b, <2>1, FeedQuiet
<1>2. CASE ~Aborts(r)
  <2> DEFINE written == IF Sees(of[r]) THEN (Inserts(r) \ Live) \union (Updates(r) \intersect Live) ELSE {}
             deleted == IF Sees(of[r]) THEN Deletes(r) \intersect Live ELSE {}
  <2>0. /\ rows' = [d \in Docs |-> IF d \in written THEN [data |-> r, stamp |-> stamp[r]]
                                  ELSE IF d \in deleted THEN None ELSE rows[d]]
        /\ high' = IF written # {} /\ stamp[r] > high THEN stamp[r] ELSE high
        /\ loose' = IF written = {} THEN loose
                    ELSE loose \union {q \in Requests \ {r} : stamp[q] # 0 /\ at[q] # "done"}
        /\ late' = (late \ (written \union deleted)) \union (IF r \in loose THEN written ELSE {})
        /\ UNCHANGED <<table, call, of, stamp, feed>>
    BY <1>2 DEF Write, Land
  <2>1. written # {} => Stamped(r) /\ of[r] = table /\ table # 0
    BY DEF Write, Inserts, Updates, Stamped, Sees, Batches, Ids
  <2>2. high \in Nat /\ high' \in Nat /\ high <= high' /\ stamp[r] \in Nat
        /\ (written # {} => stamp[r] <= high')
    <3> HIDE DEF written, deleted
    <3> QED
      BY <2>0 DEF Plain
  <2>3. \A d \in Live' : \/ d \in written /\ rows'[d].stamp = stamp[r] /\ rows'[d].data = r
                         \/ d \notin written /\ d \in Live /\ rows'[d] = rows[d]
    <3> HIDE DEF written, deleted
    <3> SUFFICES ASSUME NEW d \in Live'
                 PROVE  \/ d \in written /\ rows'[d].stamp = stamp[r] /\ rows'[d].data = r
                        \/ d \notin written /\ d \in Live /\ rows'[d] = rows[d]
      OBVIOUS
    <3>1. d \in Docs /\ rows'[d] # None
      BY DEF Live
    <3>2. rows'[d] = IF d \in written THEN [data |-> r, stamp |-> stamp[r]]
                     ELSE IF d \in deleted THEN None ELSE rows[d]
      BY <2>0, <3>1
    <3>3. CASE d \in written
      BY <3>2, <3>3
    <3>4. CASE d \notin written
      BY <3>1, <3>2, <3>4 DEF Live
    <3> QED
      BY <3>3, <3>4
  <2> HIDE DEF written, deleted
  <2>4. Stamps'
    <3>1. \A d \in Live' : rows'[d].stamp <= high'
      <4> SUFFICES ASSUME NEW d \in Live' PROVE rows'[d].stamp <= high'
        OBVIOUS
      <4>1. CASE d \in written
        BY <4>1, <2>2, <2>3
      <4>2. CASE d \notin written
        <5>1. d \in Live /\ rows'[d] = rows[d]
          BY <4>2, <2>3
        <5>2. rows[d].stamp \in Nat /\ rows[d].stamp <= high
          BY <5>1, LiveRow DEF FeedInv, Stamps
        <5> QED
          BY <5>1, <5>2, <2>2
      <4> QED
        BY <4>1, <4>2
    <3>2. \A s \in Readers : token'[s].table = table' /\ table' # 0 => token'[s].stamp <= high'
      BY <2>0, <2>2 DEF FeedInv, Stamps, Plain, Tokens
    <3>3. \A q \in Requests : Stamped(q)' =>
            stamp'[q] # 0 /\ (of'[q] = table' /\ q \notin loose' => stamp'[q] > high')
      <4> SUFFICES ASSUME NEW q \in Requests, Stamped(q)'
                   PROVE  stamp[q] # 0 /\ (of[q] = table /\ q \notin loose' => stamp[q] > high')
        BY <2>0
      <4>1. Stamped(q) /\ q # r /\ stamp[q] # 0
        BY <1>b DEF FeedInv, Stamps
      <4>2. CASE written = {}
        BY <4>1, <4>2, <2>0 DEF FeedInv, Stamps
      <4>3. CASE written # {}
        BY <4>1, <4>3, <2>0 DEF Stamped
      <4> QED
        BY <4>1, <4>2, <4>3
    <3> QED
      BY <3>1, <3>2, <3>3 DEF Stamps
  <2>5. Positions'
    BY <2>0 DEF FeedInv, Positions
  <2>6. FeedComplete'
    <3> SUFFICES ASSUME NEW s \in Readers, NEW d \in Live' \ late',
                        token[s].table = table, rows'[d].stamp >= from[s], ~After(d, token[s])'
                 PROVE  copy[s][d] = rows'[d].data
      BY <2>0 DEF FeedComplete
    <3>1. CASE d \in written
      <4>1. r \notin loose /\ Stamped(r) /\ of[r] = table /\ table # 0
        BY <3>1, <2>0, <2>1
      <4>2. stamp[r] > high /\ token[s].stamp <= high /\ token[s].stamp \in Nat
        BY <4>1 DEF FeedInv, Stamps, Plain, Tokens
      <4>3. rows'[d].stamp = stamp[r] /\ token'[s] = token[s]
        BY <3>1, <2>0, <2>3
      <4> QED
        BY <4>2, <4>3, <2>2 DEF After
    <3>2. CASE d \notin written
      <4>1. d \in Live /\ rows'[d] = rows[d] /\ token'[s] = token[s]
        BY <3>2, <2>0, <2>3
      <4>2. d \notin late
        <5>1. d \notin deleted
          BY <2>0, <3>2 DEF Live
        <5> QED
          BY <2>0, <3>2, <5>1
      <4>3. ~After(d, token[s])
        BY <4>1 DEF After
      <4> QED
        BY <4>1, <4>2, <4>3 DEF FeedInv, FeedComplete
    <3> QED
      BY <3>1, <3>2
  <2> QED
    BY <2>4, <2>5, <2>6 DEF FeedInv
<1> QED
  BY <1>1, <1>2

\* a table that goes or comes has no rows, and nobody a token of it yet
LEMMA FeedTables ==
  ASSUME FeedInv, TypeInv, NEW r \in Requests, Create(r) \/ DropRows(r) \/ DropTable(r)
  PROVE  FeedInv'
<1> USE DEF TypeInv
<1>a. UNCHANGED <<stamp, loose, call, feed>>
  BY DEF Create, DropRows, DropTable
<1>b. \A q \in Requests : Stamped(q)' => Stamped(q) /\ of'[q] = of[q]
  BY DEF Create, DropRows, DropTable, Goto, Answer, Stamped, Kind, Plain
<1>c. Positions'
  BY <1>a DEF FeedInv, Positions
<1>1. CASE Create(r)
  <2>1. CASE table # 0
    <3>1. UNCHANGED <<table, rows, high, late>>
      BY <1>1, <2>1 DEF Create
    <3> QED
      BY <1>a, <1>b, <3>1, FeedQuiet
  <2>2. CASE table = 0
    <3>1. Live' = {}
      BY <1>1, <2>2 DEF Create, Keys, Live
    <3>2. \A s \in Readers : token[s].table # table'
      BY <1>1, <2>2 DEF Create, Ids, Plain, Tokens
    <3>3. \A q \in Requests : of[q] # table'
      BY <1>1, <2>2 DEF Create, Ids, Plain
    <3>4. Stamps'
      BY <1>a, <1>b, <3>1, <3>2, <3>3 DEF FeedInv, Stamps
    <3>5. FeedComplete'
      BY <3>1 DEF FeedComplete
    <3> QED
      BY <1>c, <3>4, <3>5 DEF FeedInv
  <2> QED
    BY <2>1, <2>2
<1>2. CASE DropRows(r)
  <2>1. CASE Sees(of[r])
    <3>1. Live' = {} /\ UNCHANGED <<table, high>>
      BY <1>2, <2>1 DEF DropRows, Live, Empty
    <3>2. Stamps'
      BY <1>a, <1>b, <3>1 DEF FeedInv, Stamps
    <3>3. FeedComplete'
      BY <3>1 DEF FeedComplete
    <3> QED
      BY <1>c, <3>2, <3>3 DEF FeedInv
  <2>2. CASE ~Sees(of[r])
    <3>1. UNCHANGED <<table, rows, high, late>>
      BY <1>2, <2>2 DEF DropRows
    <3> QED
      BY <1>a, <1>b, <3>1, FeedQuiet
  <2> QED
    BY <2>1, <2>2
<1>3. CASE DropTable(r)
  <2>1. CASE table' = table
    <3>1. UNCHANGED <<table, rows, high, late>>
      BY <1>3, <2>1 DEF DropTable
    <3> QED
      BY <1>a, <1>b, <3>1, FeedQuiet
  <2>2. CASE table' # table
    <3>1. Live' = {} /\ table' = 0 /\ high' = high
      BY <1>3, <2>2 DEF DropTable, Live
    <3>2. \A q \in Requests : Stamped(q) => of[q] # 0
      BY DEF Stamped, Ids
    <3>3. Stamps'
      BY <1>a, <1>b, <3>1, <3>2 DEF FeedInv, Stamps
    <3>4. FeedComplete'
      BY <3>1 DEF FeedComplete
    <3> QED
      BY <1>c, <3>3, <3>4 DEF FeedInv
  <2> QED
    BY <2>1, <2>2
<1> QED
  BY <1>1, <1>2, <1>3

\* the order of the feed: what is not after a row of a page, and after the
\* token, is on the page
LEMMA PageClosed ==
  ASSUME TypeInv, NEW t \in Tokens, NEW last \in Page(t), NEW d \in Live,
         After(d, t), ~After(d, Position(last))
  PROVE  d \in Page(t)
<1> USE DEF TypeInv
<1> DEFINE rest == {e \in Live : After(e, t)}
           upto(x) == {e \in rest : ~After(e, Position(x))}
<1>1. last \in rest /\ Cardinality(upto(last)) <= Limit
  BY DEF Page
<1>2. upto(d) \subseteq upto(last)
  <2> SUFFICES ASSUME NEW e \in Live, ~After(e, Position(d)) PROVE ~After(e, Position(last))
    OBVIOUS
  <2>1. /\ rows[e].stamp \in Nat /\ rows[d].stamp \in Nat /\ rows[last].stamp \in Nat
        /\ e \in Nat /\ d \in Nat /\ last \in Nat
    BY <1>1, LiveRow, TableAssumption
  <2> QED
    BY <2>1 DEF After, Position
<1>3. IsFiniteSet(upto(last))
  <2>1. upto(last) \subseteq Docs
    BY LiveRow
  <2> QED
    BY <2>1, TableAssumption, FS_Subset
<1>4. Cardinality(upto(d)) <= Cardinality(upto(last))
  BY <1>2, <1>3, FS_Subset
<1>5. Cardinality(upto(d)) \in Nat /\ Cardinality(upto(last)) \in Nat
  BY <1>2, <1>3, FS_Subset, FS_CardinalityType
<1>6. Cardinality(upto(d)) <= Limit
  BY <1>1, <1>4, <1>5, TableAssumption
<1> QED
  BY <1>6 DEF Page

\* a page brings everything up to the token that goes with it
LEMMA FeedScan ==
  ASSUME FeedInv, TypeInv, NEW s \in Readers, PollScan(s)
  PROVE  FeedInv'
<1> USE DEF TypeInv
<1> DEFINE page == IF Sees(poll[s].of) THEN Page(token[s]) ELSE {}
<1>0. /\ copy' = [copy EXCEPT ![s] = [d \in Docs |-> IF d \in page THEN rows[d].data ELSE @[d]]]
      /\ poll' = [poll EXCEPT ![s].at = "idle"]
      /\ UNCHANGED <<store, request, from, history>>
  BY DEF PollScan
<1>1. page \subseteq Live /\ \A d \in page : After(d, token[s])
  BY PageRows
<1>t. token[s] \in Tokens
  BY DEF Plain
<1>2. CASE page = {}
  <2>1. token' = token
    BY <1>2 DEF PollScan
  <2>2. copy' = copy
    <3> HIDE DEF page
    <3>1. copy[s] = [d \in Docs |-> copy[s][d]] /\ copy = [x \in Readers |-> copy[x]]
      BY DEF Plain
    <3>2. [d \in Docs |-> IF d \in page THEN rows[d].data ELSE copy[s][d]] = copy[s]
      BY <1>2, <3>1
    <3> QED
      BY <1>0, <3>1, <3>2
  <2>3. Stamps' /\ FeedComplete'
    BY <1>0, <2>1, <2>2 DEF FeedInv, Stamps, FeedComplete, Live, After, Stamped, Kind
  <2>4. Positions'
    BY <1>0, <2>1 DEF FeedInv, Positions, Plain
  <2> QED
    BY <2>3, <2>4 DEF FeedInv
<1>3. CASE page # {}
  <2>1. PICK last \in page : /\ \A d \in page : ~After(d, Position(last))
                             /\ token' = [token EXCEPT ![s] = Position(last)]
    BY <1>3 DEF PollScan
  <2>2. poll[s].of = table /\ table # 0 /\ page = Page(token[s])
    BY <1>3 DEF Sees, PollScan, Ids
  <2>3. token'[s] = Position(last) /\ last \in Live /\ rows[last].stamp \in Nat
    BY <2>1, <1>1, LiveRow DEF Plain
  <2>4. Stamps'
    <3>1. token'[s].stamp <= high
      BY <2>3 DEF Position, FeedInv, Stamps
    <3>2. \A x \in Readers : x # s => token'[x] = token[x]
      BY <2>1 DEF Plain
    <3> QED
      BY <1>0, <3>1, <3>2 DEF FeedInv, Stamps, Live, Stamped, Kind
  <2>5. Positions'
    <3>1. token'[s].table # 0
      BY <2>2, <2>3 DEF Position
    <3> QED
      BY <1>0, <2>1, <3>1 DEF FeedInv, Positions, Plain
  <2>6. FeedComplete'
    <3> SUFFICES ASSUME NEW x \in Readers, NEW d \in Live \ late,
                        token'[x].table = table, rows[d].stamp >= from[x], ~After(d, token'[x])
                 PROVE  copy'[x][d] = rows[d].data
      BY <1>0 DEF FeedComplete, Live, After
    <3>1. CASE x # s
      <4>1. token'[x] = token[x] /\ copy'[x] = copy[x]
        BY <3>1, <1>0, <2>1 DEF Plain
      <4> QED
        BY <4>1 DEF FeedInv, FeedComplete
    <3>2. CASE x = s
      <4>0. d \in Docs /\ copy'[s] = [e \in Docs |-> IF e \in page THEN rows[e].data ELSE copy[s][e]]
        <5> HIDE DEF page
        <5> QED
          BY <1>0 DEF Plain, Live
      <4>1. CASE After(d, token[s])
        <5>1. d \in Page(token[s])
          BY <3>2, <4>1, <2>2, <2>3, <1>t, PageClosed
        <5> QED
          BY <5>1, <4>0, <3>2, <2>2
      <4>2. CASE ~After(d, token[s])
        <5>1. token[s].table = table
          <6>1. token[s].table \in {0, table}
            BY <2>2 DEF FeedInv, Positions, PollScan
          <6>2. token[s].table = 0 => After(d, token[s])
            <7> SUFFICES ASSUME token[s].table = 0 PROVE After(d, token[s])
              OBVIOUS
            <7>1. token[s].doc = 0 /\ token[s].stamp = from[s]
              BY DEF FeedInv, Positions
            <7>2. d \in Nat \ {0} /\ rows[d].stamp \in Nat /\ from[s] \in Nat
              BY LiveRow, TableAssumption DEF Plain
            <7> QED
              BY <3>2, <7>1, <7>2 DEF After
          <6> QED
            BY <4>2, <6>1, <6>2
        <5>2. copy[s][d] = rows[d].data
          BY <5>1, <3>2, <4>2 DEF FeedInv, FeedComplete
        <5> QED
          BY <5>2, <4>0, <3>2
      <4> QED
        BY <4>1, <4>2
    <3> QED
      BY <3>1, <3>2
  <2> QED
    BY <2>4, <2>5, <2>6 DEF FeedInv
<1> QED
  BY <1>2, <1>3

\* a poll begins, is refused, or starts over
LEMMA FeedPoll ==
  ASSUME FeedInv, TypeInv, NEW s \in Readers, PollLoad(s) \/ PollCheck(s)
  PROVE  FeedInv'
<1> USE DEF TypeInv
<1>0. UNCHANGED <<store, request, history>>
  BY DEF PollLoad, PollCheck
<1>1. CASE UNCHANGED <<token, copy, from>>
  <2>1. poll'[s].at = "scan" => token[s].table \in {0, poll'[s].of}
    BY <1>1 DEF PollLoad, PollCheck, Bound, Plain
  <2>2. \A x \in Readers : x # s => poll'[x] = poll[x]
    BY DEF PollLoad, PollCheck, Plain
  <2>3. Positions'
    BY <1>1, <2>1, <2>2 DEF FeedInv, Positions
  <2>4. Stamps' /\ FeedComplete'
    BY <1>0, <1>1 DEF FeedInv, Stamps, FeedComplete, Live, After, Stamped, Kind
  <2> QED
    BY <2>3, <2>4 DEF FeedInv
<1>2. CASE ~UNCHANGED <<token, copy, from>>
  <2>1. /\ poll' = [poll EXCEPT ![s].at = "idle"]
        /\ token' = [token EXCEPT ![s] = NoPosition]
        /\ copy' = [copy EXCEPT ![s] = Empty]
        /\ from' = [from EXCEPT ![s] = 0]
        /\ poll[s].of # 0
    BY <1>2 DEF PollLoad, PollCheck, Ids
  <2>2. token'[s] = NoPosition /\ from'[s] = 0 /\ poll'[s].at = "idle"
    BY <2>1 DEF Plain
  <2>3. \A x \in Readers : x # s => token'[x] = token[x] /\ copy'[x] = copy[x]
                                     /\ from'[x] = from[x] /\ poll'[x] = poll[x]
    BY <2>1 DEF Plain
  <2>4. Positions'
    BY <2>2, <2>3 DEF FeedInv, Positions, NoPosition
  <2>5. Stamps'
    BY <1>0, <2>2, <2>3 DEF FeedInv, Stamps, NoPosition, Live, Stamped, Kind
  <2>6. FeedComplete'
    <3> SUFFICES ASSUME NEW x \in Readers, NEW d \in Live \ late,
                        token'[x].table = table, rows[d].stamp >= from'[x], ~After(d, token'[x])
                 PROVE  copy'[x][d] = rows[d].data
      BY <1>0 DEF FeedComplete, Live, After
    <3>1. CASE x # s
      BY <3>1, <2>3 DEF FeedInv, FeedComplete
    <3>2. CASE x = s
      <4>1. d \in Nat \ {0} /\ rows[d].stamp \in Nat
        BY LiveRow, TableAssumption
      <4> QED
        BY <3>2, <2>2, <4>1 DEF After, NoPosition
    <3> QED
      BY <3>1, <3>2
  <2> QED
    BY <2>4, <2>5, <2>6 DEF FeedInv
<1> QED
  BY <1>1, <1>2

\* every step
LEMMA FeedStep == TypeInv /\ FeedInv /\ [Next]_vars => FeedInv'
<1> SUFFICES ASSUME TypeInv, FeedInv, [Next]_vars PROVE FeedInv'
  OBVIOUS
<1>1. CASE UNCHANGED vars
  <2>1. \A q \in Requests : Stamped(q)' => Stamped(q) /\ of'[q] = of[q]
    BY <1>1 DEF vars, Stamped, Kind
  <2> QED
    BY <1>1, <2>1, FeedQuiet DEF vars, TypeInv
<1>2. CASE Next
  BY <1>2, FeedQuietSteps, FeedPeak, FeedWrite, FeedTables, FeedScan, FeedPoll DEF Next
<1> QED
  BY <1>1, <1>2

\* No row at or behind a token is missing from what its holder was sent, for
\* any writers, pages, clocks and recreations of the table.
THEOREM FeedLosesNothing == Spec => []FeedComplete
<1>1. FeedInv => FeedComplete
  BY DEF FeedInv
<1> QED
  BY <1>1, TypeInit, TypeStep, FeedInit, FeedStep, PTL DEF Spec

(***************************************************************************)
(* What is reported ok was done                                            *)
(***************************************************************************)
\* what a preflight found is there until somebody deletes it; only writes look,
\* and nothing is reported before the end
Seen(r) ==
  /\ at[r] # "done" => /\ seen[r] \subseteq gone[r] \union (IF of[r] = table THEN Live ELSE {})
                       /\ ok[r] = {}
  /\ seen[r] # {} => Kind(r) \in Writes /\ at[r] \notin {"idle", "check"}

EarnInv == OkIsEarned /\ \A r \in Requests : Seen(r)

\* the initial state
LEMMA EarnInit == Init => EarnInv
BY DEF Init, EarnInv, OkIsEarned, Seen

\* steps that keep the rows and what has been deleted
LEMMA EarnQuiet ==
  ASSUME TypeInv, EarnInv, NEW r \in Requests,
         Load(r) \/ Check(r) \/ Preflight(r) \/ Peak(r) \/ LoadOwned(r)
  PROVE  EarnInv'
<1> USE DEF TypeInv
<1>0. UNCHANGED <<table, rows, took, gone, call>>
  BY DEF Load, Check, Preflight, Peak, LoadOwned
<1>1. \/ \E a \in Answers : Answer(r, a, {})
      \/ \E place \in Places \ {"idle", "check"} : Goto(r, place)
      \/ at[r] \in {"idle", "check"} /\ Goto(r, "check")
  BY DEF Load, Check, Permitted, Preflight, Peak, LoadOwned, Answers, Places, Writing, Writes, Batches
<1>2. /\ ok' = [ok EXCEPT ![r] = {}] \/ (ok' = ok /\ at[r] # "done")
      /\ \A q \in Requests \ {r} : at'[q] = at[q] /\ of'[q] = of[q] /\ seen'[q] = seen[q]
  <2>1. \A q \in Requests \ {r} : at'[q] = at[q]
    BY <1>1 DEF Answer, Goto, Plain
  <2>2. \A q \in Requests \ {r} : of'[q] = of[q] /\ seen'[q] = seen[q]
    BY DEF Load, Check, Preflight, Peak, LoadOwned, Plain
  <2>3. at[r] # "done"
    BY DEF Load, Check, Preflight, Peak, LoadOwned
  <2> QED
    BY <1>1, <2>1, <2>2, <2>3 DEF Answer, Goto
<1>3. ok'[r] = {} /\ \A q \in Requests \ {r} : ok'[q] = ok[q]
  BY <1>2 DEF EarnInv, Seen, Plain
<1>4. Seen(r)'
  <2>1. CASE Preflight(r)
    <3>1. /\ seen'[r] = (IF Sees(of[r]) THEN call[r].docs \intersect Live ELSE {})
          /\ of'[r] = of[r] /\ Kind(r)' \in Writes /\ at'[r] \notin {"idle", "check"}
      BY <2>1, <1>0 DEF Preflight, Plain, Writing, Kind, Goto, Answer
    <3> QED
      BY <1>0, <1>3, <3>1 DEF Seen, Sees, Live
  <2>2. CASE Check(r) \/ Peak(r)
    <3>1. seen'[r] = seen[r] /\ of'[r] = of[r] /\ at[r] # "done"
      BY <2>2 DEF Check, Peak
    <3>2. at'[r] \in {"idle", "check"} => at[r] \in {"idle", "check"}
      BY <2>2, <1>1 DEF Answer, Goto, Plain
    <3> QED
      BY <1>0, <1>3, <3>1, <3>2 DEF EarnInv, Seen, Live, Kind
  <2>3. CASE Load(r) \/ LoadOwned(r)
    <3>1. seen'[r] = seen[r] /\ at[r] = "idle"
      BY <2>3 DEF Load, LoadOwned
    <3>2. seen[r] = {}
      BY <3>1 DEF EarnInv, Seen
    <3> QED
      BY <1>3, <3>1, <3>2 DEF Seen
  <2> QED
    BY <2>1, <2>2, <2>3
<1>5. \A q \in Requests \ {r} : Seen(q)'
  BY <1>0, <1>2, <1>3 DEF EarnInv, Seen, Live, Kind
<1>6. OkIsEarned'
  BY <1>0, <1>3 DEF EarnInv, OkIsEarned
<1> QED
  BY <1>4, <1>5, <1>6 DEF EarnInv

\* one transaction
LEMMA EarnWrite ==
  ASSUME TypeInv, EarnInv, NEW r \in Requests, Write(r)
  PROVE  EarnInv'
<1> USE DEF TypeInv
<1>0. /\ UNCHANGED <<table, call, of, seen>> /\ at' = [at EXCEPT ![r] = "done"]
      /\ \A q \in Requests \ {r} : ok'[q] = ok[q] /\ at'[q] = at[q]
  BY DEF Write, Land, Answer, Plain
<1>1. CASE Aborts(r)
  <2>1. ok'[r] = {} /\ UNCHANGED <<rows, took, gone>>
    BY <1>1 DEF Write, Answer, Plain
  <2>2. at'[r] = "done"
    BY <1>0 DEF Plain
  <2>3. Seen(r)'
    BY <1>0, <2>2 DEF EarnInv, Seen, Kind, Write
  <2>4. \A q \in Requests \ {r} : Seen(q)'
    BY <1>0, <2>1 DEF EarnInv, Seen, Live, Kind
  <2> QED
    BY <1>0, <2>1, <2>3, <2>4 DEF EarnInv, OkIsEarned
<1>2. CASE ~Aborts(r)
  <2> DEFINE written == IF Sees(of[r]) THEN (Inserts(r) \ Live) \union (Updates(r) \intersect Live) ELSE {}
             deleted == IF Sees(of[r]) THEN Deletes(r) \intersect Live ELSE {}
  <2>0. /\ rows' = [d \in Docs |-> IF d \in written THEN [data |-> r, stamp |-> stamp[r]]
                                  ELSE IF d \in deleted THEN None ELSE rows[d]]
        /\ took' = [took EXCEPT ![r] = written \union deleted]
        /\ Vanish(r, deleted)
    BY <1>2 DEF Write, Land
  <2>1. ok'[r] \subseteq (written \union deleted) \union gone[r]
    <3>1. \/ ok'[r] = {}
          \/ /\ ok'[r] = Inserts(r) \union Updates(r) \union Deletes(r)
             /\ Kind(r) = "delete" => deleted # {}
      BY <1>2 DEF Write, Land, Answer, Plain
    <3>2. Inserts(r) \subseteq written
      BY <1>2 DEF Aborts
    <3>3. seen[r] \subseteq gone[r] \union (IF Sees(of[r]) THEN Live ELSE {})
      BY DEF EarnInv, Seen, Write, Sees
    <3>4. Updates(r) \subseteq written \union gone[r]
      BY <3>3 DEF Updates
    <3>5. CASE Kind(r) = "delete"
      <4>1. \E d \in Docs : Deletes(r) = {d}
        BY <3>5 DEF Deletes, Kind, Plain, Calls
      <4>2. deleted # {} => Deletes(r) \subseteq deleted
        BY <4>1
      <4> HIDE DEF written, deleted
      <4> QED
        BY <3>1, <3>2, <3>4, <3>5, <4>2
    <3>6. CASE Kind(r) # "delete"
      <4>1. Deletes(r) \subseteq deleted \union gone[r]
        BY <3>3, <3>6 DEF Deletes
      <4> HIDE DEF written, deleted
      <4> QED
        BY <3>1, <3>2, <3>4, <4>1
    <3> QED
      BY <3>5, <3>6
  <2> HIDE DEF written, deleted
  <2>2. gone'[r] = gone[r] /\ took'[r] = written \union deleted
    BY <2>0 DEF Vanish, Plain
  <2>3. \A q \in Requests \ {r} : took'[q] = took[q] /\ gone[q] \subseteq gone'[q]
    BY <2>0 DEF Vanish, Plain
  <2>4. OkIsEarned'
    BY <1>0, <2>1, <2>2, <2>3 DEF EarnInv, OkIsEarned
  <2>5. \A q \in Requests \ {r} : Seen(q)'
    <3> SUFFICES ASSUME NEW q \in Requests \ {r} PROVE Seen(q)'
      OBVIOUS
    <3>1. at[q] # "done" => gone'[q] = gone[q] \union (deleted \intersect seen[q])
      BY <2>0 DEF Vanish
    <3>2. Live \ deleted \subseteq Live'
      <4> SUFFICES ASSUME NEW d \in Live, d \notin deleted PROVE d \in Live'
        OBVIOUS
      <4>1. d \in Docs /\ rows[d] # None
        BY DEF Live
      <4>2. [data |-> r, stamp |-> stamp[r]] \in Rows
        BY DEF Rows, Plain
      <4>3. rows'[d] # None
        BY <2>0, <4>1, <4>2, TableAssumption
      <4> QED
        BY <4>1, <4>3 DEF Live
    <3> QED
      BY <1>0, <3>1, <3>2 DEF EarnInv, Seen, Kind
  <2>6. Seen(r)'
    <3>1. at'[r] = "done"
      BY <1>0 DEF Plain
    <3> QED
      BY <1>0, <3>1 DEF EarnInv, Seen, Kind, Write
  <2> QED
    BY <2>4, <2>5, <2>6 DEF EarnInv
<1> QED
  BY <1>1, <1>2

\* tables, grants and roles
LEMMA EarnOwner ==
  ASSUME TypeInv, EarnInv, NEW r \in Requests,
         Create(r) \/ DropRows(r) \/ DropGrants(r) \/ DropTable(r) \/ Administer(r) \/ Demote(r)
  PROVE  EarnInv'
<1> USE DEF TypeInv
<1>0. UNCHANGED <<call, of, seen, took>> /\ at[r] # "done"
  BY DEF Create, DropRows, DropGrants, DropTable, Administer, Demote
<1>1. \/ \E a \in Answers : Answer(r, a, {})
      \/ \E place \in Places \ {"idle", "check"} : Goto(r, place)
  BY DEF Create, DropRows, DropGrants, DropTable, Administer, Demote, Answers, Places
<1>2. \A q \in Requests : /\ ok'[q] = ok[q] /\ (q # r => at'[q] = at[q])
                          /\ at'[r] \notin {"idle", "check"}
  BY <1>0, <1>1 DEF Answer, Goto, Plain, EarnInv, Seen
<1>3. \A q \in Requests : /\ gone[q] \subseteq gone'[q]
                          /\ at[q] # "done" /\ of[q] = table /\ of[q] = table' =>
                               Live \intersect seen[q] \subseteq Live' \union gone'[q]
                          /\ at[q] # "done" /\ of[q] = table /\ of[q] # table' => Live = {}
  <2>1. CASE Create(r)
    <3>1. rows' = rows /\ gone' = gone /\ (table' # table => Live = {})
      BY <2>1 DEF Create, Keys
    <3> QED
      BY <3>1 DEF Live
  <2>2. CASE DropRows(r)
    <3>1. seen[r] = {}
      BY <2>2 DEF DropRows, EarnInv, Seen, Writes, Batches
    <3>2. CASE Sees(of[r])
      <4>1. table' = table /\ gone' = [q \in Requests |-> IF q # r /\ at[q] # "done"
                              THEN gone[q] \union (Live \intersect seen[q]) ELSE gone[q]]
        BY <2>2, <3>2 DEF DropRows, Vanish
      <4> QED
        BY <3>1, <4>1
    <3>3. CASE ~Sees(of[r])
      <4>1. table' = table /\ rows' = rows /\ gone' = gone
        BY <2>2, <3>3 DEF DropRows
      <4> QED
        BY <4>1 DEF Live
    <3> QED
      BY <3>2, <3>3
  <2>3. CASE DropTable(r)
    <3>1. rows' = rows /\ gone' = gone /\ (table' # table => Live = {})
      BY <2>3 DEF DropTable
    <3> QED
      BY <3>1 DEF Live
  <2>4. CASE DropGrants(r) \/ Administer(r) \/ Demote(r)
    <3>1. rows' = rows /\ gone' = gone /\ table' = table
      BY <2>4 DEF DropGrants, Administer, Demote
    <3> QED
      BY <3>1 DEF Live
  <2> QED
    BY <2>1, <2>2, <2>3, <2>4
<1>4. \A q \in Requests : Seen(q)'
  <2> SUFFICES ASSUME NEW q \in Requests PROVE Seen(q)'
    OBVIOUS
  <2>1. at'[q] # "done" => at[q] # "done"
    BY <1>0, <1>2
  <2>2. at[q] # "done" => seen[q] \subseteq gone'[q] \union (IF of[q] = table' THEN Live' ELSE {})
    BY <1>3 DEF EarnInv, Seen
  <2>3. seen[q] # {} => Kind(q) \in Writes /\ at'[q] \notin {"idle", "check"}
    BY <1>2 DEF EarnInv, Seen
  <2> QED
    BY <1>0, <1>2, <2>1, <2>2, <2>3 DEF EarnInv, Seen, Kind
<1>5. OkIsEarned'
  BY <1>0, <1>2, <1>3 DEF EarnInv, OkIsEarned
<1> QED
  BY <1>4, <1>5 DEF EarnInv

\* every step
LEMMA EarnStep == TypeInv /\ EarnInv /\ [Next]_vars => EarnInv'
<1> SUFFICES ASSUME TypeInv, EarnInv, [Next]_vars PROVE EarnInv'
  OBVIOUS
<1>1. CASE \/ UNCHANGED vars
           \/ \E s \in Readers : PollLoad(s) \/ PollCheck(s) \/ PollScan(s)
  <2>1. UNCHANGED <<store, request, history>>
    BY <1>1 DEF vars, PollLoad, PollCheck, PollScan
  <2> QED
    BY <2>1 DEF EarnInv, OkIsEarned, Seen, Live, Kind
<1>2. CASE \E r \in Requests :
             \/ Load(r) \/ Check(r) \/ Preflight(r) \/ Peak(r) \/ Write(r)
             \/ Create(r) \/ LoadOwned(r) \/ DropRows(r) \/ DropGrants(r) \/ DropTable(r)
             \/ Administer(r) \/ Demote(r)
  BY <1>2, EarnQuiet, EarnWrite, EarnOwner
<1> QED
  BY <1>1, <1>2 DEF Next

\* What a request reports ok it did, or another took the document from under it,
\* for any number of racing requests and any sizes of their batches.
THEOREM OkEarned == Spec => []OkIsEarned
<1>1. EarnInv => OkIsEarned
  BY DEF EarnInv
<1> QED
  BY <1>1, TypeInit, TypeStep, EarnInit, EarnStep, PTL DEF Spec
=============================================================================
