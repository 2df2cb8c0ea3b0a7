------------------------------- MODULE Tables -------------------------------
(***************************************************************************)
(* One Table name of an Organization (src/tables.ts): its documents, its   *)
(* grants, the single and the batch writes, and the polled feed of changes *)
(* that replaces a push channel.                                           *)
(*                                                                         *)
(* Every writer stamps what it writes with an instant after the highest    *)
(* stamp of the rows it can see, one statement before it writes them.      *)
(* Subscribers page through the rows in (stamp, document) order and keep   *)
(* a token of the last row they saw: a row that is written at or behind a  *)
(* token is never sent.  A Table that is deleted and created again has a   *)
(* new id, which tokens carry.                                             *)
(***************************************************************************)
EXTENDS Integers, FiniteSets

CONSTANTS
  Docs,      \* document ids, numbers: the feed orders by them
  Users,     \* callers, one of them the owner of the Table
  Owner,
  Requests,  \* requests that write or administer
  Readers,   \* subscribers
  Limit,     \* rows of one page of the feed
  Times,     \* what an isolate's clock may say; clocks are not synchronized
  Seed,      \* the content of a row that was there at first
  None,      \* no row
  Casts      \* scenarios: requests, grants, first rows, subscriptions

Actions == {"read", "insert", "update", "delete"}
Batches == {"batch-insert", "batch-update", "upsert"}
Writes  == {"insert", "update", "delete", "batch-delete"} \union Batches
Kinds   == Writes \union {"create", "drop", "grant", "revoke", "demote", "none"}
Rows    == [data : Requests \union {Seed}, stamp : Nat]

\* a position of the feed; instance 0 and document 0 are the empty strings of
\* a `since`, and stamp 0 that there is no position at all
Tokens == [table : Nat, stamp : Nat, doc : Nat]
Calls  == {c \in [kind : Kinds, who : Users, docs : SUBSET Docs, action : Actions, grantee : Users] :
             c.kind \in {"insert", "update", "delete"} => \E d \in Docs : c.docs = {d}}
Places == {"idle", "check", "existing", "peak", "preflight", "write", "grants", "table", "done"}
Answers == {"none", "ok", "denied", "missing", "conflict", "retry", "error"}

ASSUME TableAssumption ==
  /\ Docs \subseteq Nat \ {0} /\ IsFiniteSet(Docs)
  /\ Owner \in Users
  /\ Limit \in Nat \ {0}
  /\ Times \subseteq Nat \ {0}
  /\ Seed \notin Requests /\ None \notin Rows
  /\ Casts \subseteq [calls : [Requests -> Calls], grants : SUBSET (Users \X Actions),
                      first : SUBSET Docs, since : [Readers -> Nat], readers : [Readers -> Users]]

VARIABLES
  table,      \* the id of the tables row of that name, 0 while there is none
  made,       \* how many ids there have been
  rows,       \* its table_rows
  grants,     \* its table_grants
  viewers,    \* members whose role is viewer
  call,       \* what a request asks
  at,         \* where it is
  of,         \* the table it has loaded
  wants,      \* the actions it has still to be granted
  stamp,      \* its nextRevision
  seen,       \* the documents its preflight found
  answer, ok, \* what it answered, and the documents it reported ok
  poll,       \* where a subscriber's poll is, and the table it has loaded
  user,       \* who the subscriber is
  token,      \* the position it holds
  copy,       \* what it has been sent
  from,       \* the instant it subscribed from
  high,       \* history: the highest stamp ever written to this table
  loose,      \* history: requests whose stamp may not be above it
  late,       \* history: documents such a request wrote last
  took,       \* history: the documents a request changed
  gone        \* history: documents deleted since its preflight

store   == <<table, made, rows, grants, viewers>>
request == <<call, at, of, wants, stamp, seen, answer, ok>>
feed    == <<poll, user, token, copy, from>>
history == <<high, loose, late, took, gone>>
vars    == <<store, request, feed, history>>

Live == {d \in Docs : rows[d] # None}
Empty == [d \in Docs |-> None]

Init == \E cast \in Casts :
  /\ table = 1 /\ made = 1 /\ viewers = {}
  /\ rows = [d \in Docs |-> IF d \in cast.first THEN [data |-> Seed, stamp |-> 1] ELSE None]
  /\ grants = cast.grants
  /\ call = cast.calls
  /\ at = [r \in Requests |-> IF cast.calls[r].kind = "none" THEN "done" ELSE "idle"]
  /\ of = [r \in Requests |-> 0]
  /\ wants = [r \in Requests |-> {}]
  /\ stamp = [r \in Requests |-> 0]
  /\ seen = [r \in Requests |-> {}]
  /\ answer = [r \in Requests |-> "none"]
  /\ ok = [r \in Requests |-> {}]
  /\ poll = [s \in Readers |-> [at |-> "idle", of |-> 0]]
  /\ user = cast.readers
  /\ token = [s \in Readers |-> [table |-> 0, stamp |-> cast.since[s], doc |-> 0]]
  /\ copy = [s \in Readers |-> Empty]
  /\ from = cast.since
  /\ high = IF cast.first = {} THEN 0 ELSE 1
  /\ loose = {} /\ late = {}
  /\ took = [r \in Requests |-> {}]
  /\ gone = [r \in Requests |-> {}]

Kind(r) == call[r].kind
Sees(id) == id = table     \* statements name a table by its id

\* canAct: viewers only read; the owner may, others need a grant row
CanAct(u, a, id) ==
  /\ a # "read" => u \notin viewers
  /\ u = Owner \/ (Sees(id) /\ <<u, a>> \in grants)

Goto(r, place) == at' = [at EXCEPT ![r] = place] /\ UNCHANGED <<answer, ok>>
Answer(r, a, docs) ==
  /\ at' = [at EXCEPT ![r] = "done"]
  /\ answer' = [answer EXCEPT ![r] = a] /\ ok' = [ok EXCEPT ![r] = docs]

(***************************************************************************)
(* Writes                                                                  *)
(***************************************************************************)
Needs(k) == CASE k \in {"insert", "batch-insert"} -> {"insert"}
              [] k \in {"update", "batch-update"} -> {"update"}
              [] k = "upsert" -> {"insert", "update"}
              [] k \in {"delete", "batch-delete"} -> {"delete"}

\* the route: loadTable, then the handler
Load(r) ==
  /\ at[r] = "idle" /\ Kind(r) \in Writes
  /\ IF table = 0 THEN Answer(r, "missing", {}) /\ UNCHANGED <<of, wants>>
     ELSE /\ of' = [of EXCEPT ![r] = table]
          /\ wants' = [wants EXCEPT ![r] = Needs(Kind(r))]
          /\ Goto(r, "check")
  /\ UNCHANGED <<store, call, stamp, seen, feed, history>>

\* where a request goes once its actions are granted; empty batches end here
Permitted(r) ==
  IF Kind(r) \in Batches \union {"batch-delete"} /\ call[r].docs = {} THEN Answer(r, "ok", {})
  ELSE Goto(r, CASE Kind(r) \in {"insert"} \union Batches -> "peak"
                 [] Kind(r) = "update" -> "existing"
                 [] Kind(r) = "batch-delete" -> "preflight"
                 [] Kind(r) = "delete" -> "write")

\* requireAct, or a round of the batch's loop over canAct: insert, then update
Check(r) ==
  /\ at[r] = "check"
  /\ \E a \in wants[r] :
       /\ "insert" \in wants[r] => a = "insert"
       /\ wants' = [wants EXCEPT ![r] = @ \ {a}]
       /\ IF ~CanAct(call[r].who, a, of[r]) THEN Answer(r, "denied", {})
          ELSE IF wants[r] = {a} THEN Permitted(r) ELSE Goto(r, "check")
  /\ UNCHANGED <<store, call, of, stamp, seen, feed, history>>

\* updateRow's SELECT of the row, and preflightExisting
Preflight(r) ==
  /\ at[r] \in {"existing", "preflight"}
  /\ LET found == IF Sees(of[r]) THEN call[r].docs \intersect Live ELSE {} IN
     /\ seen' = [seen EXCEPT ![r] = found]
     /\ IF at[r] = "preflight" THEN Goto(r, "write")
        ELSE IF found = {} THEN Answer(r, "missing", {}) ELSE Goto(r, "peak")
  /\ UNCHANGED <<store, call, of, wants, stamp, feed, history>>

\* the peak the rows show is not the highest stamp there has been
Sunk == high > 0 /\ \A d \in Live : rows[d].stamp < high

\* Mutant: equal stamps are not bumped.
NextRevisionUnbumped(n, now, id) ==
  IF Sees(id) /\ \E d \in Live : rows[d].stamp > now
  THEN n > now /\ \A d \in Live : rows[d].stamp < n
  ELSE n = now

\* nextRevision, of a clock that says now: MAX(updated_at) + 1 ms if it must
NextRevision(n, now, id) ==
  IF Sees(id) /\ \E d \in Live : rows[d].stamp >= now
  THEN n > now /\ \A d \in Live : rows[d].stamp < n
  ELSE n = now

Peak(r) ==
  /\ at[r] = "peak"
  /\ \E now \in Times : \E n \in {now} \union {rows[d].stamp + 1 : d \in Live} :
       NextRevision(n, now, of[r]) /\ stamp' = [stamp EXCEPT ![r] = n]
  /\ loose' = IF Sunk THEN loose \union {r} ELSE loose
  /\ Goto(r, IF Kind(r) \in Batches THEN "preflight" ELSE "write")
  /\ UNCHANGED <<store, call, of, wants, seen, feed, high, late, took, gone>>

Inserts(r) == IF Kind(r) \in {"insert", "batch-insert", "upsert"} THEN call[r].docs \ seen[r] ELSE {}
Updates(r) == IF Kind(r) \in {"update", "batch-update", "upsert"} THEN seen[r] ELSE {}
Deletes(r) == IF Kind(r) = "delete" THEN call[r].docs
              ELSE IF Kind(r) = "batch-delete" THEN seen[r] ELSE {}

\* Mutant: INSERT ... ON CONFLICT DO NOTHING.
AbortsNever(r) == FALSE

\* the primary key, or the foreign key to tables: the transaction rolls back
Aborts(r) == Inserts(r) # {} /\ (~Sees(of[r]) \/ Inserts(r) \intersect Live # {})

\* what the catch around the statement makes of a failure
Failure(r) == IF Kind(r) = "insert" THEN "conflict"
              ELSE IF Kind(r) \in Batches \union {"batch-delete"} THEN "retry" ELSE "error"

\* documents are deleted under the requests that have found them
Vanish(r, docs) ==
  gone' = [q \in Requests |-> IF q # r /\ at[q] # "done"
                              THEN gone[q] \union (docs \intersect seen[q]) ELSE gone[q]]

\* the statement or the batch: one transaction
Land(r) ==
  LET written == IF Sees(of[r]) THEN (Inserts(r) \ Live) \union (Updates(r) \intersect Live) ELSE {}
      deleted == IF Sees(of[r]) THEN Deletes(r) \intersect Live ELSE {}
  IN /\ rows' = [d \in Docs |-> IF d \in written THEN [data |-> r, stamp |-> stamp[r]]
                                ELSE IF d \in deleted THEN None ELSE rows[d]]
     /\ high' = IF written # {} /\ stamp[r] > high THEN stamp[r] ELSE high
     /\ loose' = IF written = {} THEN loose
                 ELSE loose \union {q \in Requests \ {r} : stamp[q] # 0 /\ at[q] # "done"}
     /\ late' = (late \ (written \union deleted)) \union (IF r \in loose THEN written ELSE {})
     /\ took' = [took EXCEPT ![r] = written \union deleted]
     /\ Vanish(r, deleted)
     /\ \/ IF Kind(r) = "delete" /\ deleted = {} THEN Answer(r, "missing", {})
           ELSE Answer(r, "ok", Inserts(r) \union Updates(r) \union Deletes(r))
        \/ Answer(r, Failure(r), {})     \* it landed, but its reply is lost

Write(r) ==
  /\ at[r] = "write" /\ Kind(r) \in Writes
  /\ IF Aborts(r) THEN Answer(r, Failure(r), {}) /\ UNCHANGED <<rows, history>>
     ELSE Land(r)
  /\ UNCHANGED <<table, made, grants, viewers, call, of, wants, stamp, seen, feed>>

(***************************************************************************)
(* Tables and grants                                                       *)
(***************************************************************************)
\* createTable: UNIQUE(org_id, name)
Create(r) ==
  /\ at[r] = "idle" /\ Kind(r) = "create"
  /\ IF table # 0 THEN Answer(r, "conflict", {}) /\ UNCHANGED <<table, made, high>>
     ELSE /\ made' = made + 1 /\ table' = made' /\ high' = 0
          /\ Answer(r, "ok", {})
  /\ UNCHANGED <<rows, grants, viewers, call, of, wants, stamp, seen, feed, loose, late, took, gone>>

\* the owner's routes: loadTable and the test of the owner
LoadOwned(r) ==
  /\ at[r] = "idle" /\ Kind(r) \in {"drop", "grant", "revoke"}
  /\ of' = [of EXCEPT ![r] = table]
  /\ IF table = 0 THEN Answer(r, "missing", {})
     ELSE IF call[r].who # Owner THEN Answer(r, "denied", {}) ELSE Goto(r, "write")
  /\ UNCHANGED <<store, call, wants, stamp, seen, feed, history>>

\* deleteTable: three statements, not one transaction
DropRows(r) ==
  /\ at[r] = "write" /\ Kind(r) = "drop" /\ Goto(r, "grants")
  /\ IF Sees(of[r]) THEN rows' = Empty /\ late' = {} /\ Vanish(r, Live)
     ELSE UNCHANGED <<rows, late, gone>>
  /\ UNCHANGED <<table, made, grants, viewers, call, of, wants, stamp, seen, feed, high, loose, took>>

DropGrants(r) ==
  /\ at[r] = "grants" /\ Goto(r, "table")
  /\ grants' = IF Sees(of[r]) THEN {} ELSE grants
  /\ UNCHANGED <<table, made, rows, viewers, call, of, wants, stamp, seen, feed, history>>

\* Mutant: the foreign keys do not hold it back.
DropTableAnyway(r) ==
  /\ at[r] = "table"
  /\ table' = IF Sees(of[r]) THEN 0 ELSE table
  /\ Answer(r, "ok", {})
  /\ UNCHANGED <<made, rows, grants, viewers, call, of, wants, stamp, seen, feed, history>>

\* rows and grants that came meanwhile hold the table back
DropTable(r) ==
  /\ at[r] = "table"
  /\ IF Sees(of[r]) /\ (Live # {} \/ grants # {}) THEN Answer(r, "error", {}) /\ UNCHANGED table
     ELSE /\ table' = IF Sees(of[r]) THEN 0 ELSE table
          /\ Answer(r, "ok", {})
  /\ UNCHANGED <<made, rows, grants, viewers, call, of, wants, stamp, seen, feed, history>>

\* grantTable and revokeTable; a grant on a table that is gone fails its foreign key
Administer(r) ==
  /\ at[r] = "write" /\ Kind(r) \in {"grant", "revoke"}
  /\ LET g == <<call[r].grantee, call[r].action>> IN
     grants' = IF ~Sees(of[r]) THEN grants
               ELSE IF Kind(r) = "grant" THEN grants \union {g} ELSE grants \ {g}
  /\ Answer(r, IF ~Sees(of[r]) /\ Kind(r) = "grant" THEN "error" ELSE "ok", {})
  /\ UNCHANGED <<table, made, rows, viewers, call, of, wants, stamp, seen, feed, history>>

\* external: a member becomes a viewer
Demote(r) ==
  /\ at[r] = "idle" /\ Kind(r) = "demote"
  /\ viewers' = viewers \union {call[r].grantee} /\ Answer(r, "ok", {})
  /\ UNCHANGED <<table, made, rows, grants, call, of, wants, stamp, seen, feed, history>>

(***************************************************************************)
(* The feed: pollRowChanges                                                *)
(***************************************************************************)
\* (updated_at, doc_id) > (?, ?)
After(d, t) == rows[d].stamp > t.stamp \/ (rows[d].stamp = t.stamp /\ d > t.doc)

Position(d) == [table |-> table, stamp |-> rows[d].stamp, doc |-> d]
NoPosition == [table |-> 0, stamp |-> 0, doc |-> 0]

\* the first Limit rows after the token
Page(t) ==
  LET rest == {d \in Live : After(d, t)} IN
  {d \in rest : Cardinality({e \in rest : ~After(e, Position(d))}) <= Limit}

PollLoad(s) ==
  /\ poll[s].at = "idle" /\ table # 0
  /\ poll' = [poll EXCEPT ![s] = [at |-> "check", of |-> table]]
  /\ UNCHANGED <<store, request, user, token, copy, from, history>>

\* a token of another table, or of one that is gone, is refused
Bound(t, id) == t.table \in {0, id}

\* the ceiling and the grant, then the token: RESYNC_REQUIRED starts over
PollCheck(s) ==
  /\ poll[s].at = "check"
  /\ IF ~CanAct(user[s], "read", poll[s].of)
     THEN poll' = [poll EXCEPT ![s].at = "idle"] /\ UNCHANGED <<token, copy, from>>
     ELSE IF Bound(token[s], poll[s].of)
     THEN poll' = [poll EXCEPT ![s].at = "scan"] /\ UNCHANGED <<token, copy, from>>
     ELSE /\ poll' = [poll EXCEPT ![s].at = "idle"]
          /\ token' = [token EXCEPT ![s] = NoPosition]
          /\ copy' = [copy EXCEPT ![s] = Empty]
          /\ from' = [from EXCEPT ![s] = 0]
  /\ UNCHANGED <<store, request, user, history>>

\* an empty page keeps the token
PollScan(s) ==
  /\ poll[s].at = "scan" /\ poll' = [poll EXCEPT ![s].at = "idle"]
  /\ LET page == IF Sees(poll[s].of) THEN Page(token[s]) ELSE {} IN
     /\ copy' = [copy EXCEPT ![s] = [d \in Docs |-> IF d \in page THEN rows[d].data ELSE @[d]]]
     /\ IF page = {} THEN UNCHANGED token
        ELSE \E last \in page :
               /\ \A d \in page : ~After(d, Position(last))
               /\ token' = [token EXCEPT ![s] = Position(last)]
  /\ UNCHANGED <<store, request, user, from, history>>

Next ==
  \/ \E r \in Requests :
       \/ Load(r) \/ Check(r) \/ Preflight(r) \/ Peak(r) \/ Write(r)
       \/ Create(r) \/ LoadOwned(r) \/ DropRows(r) \/ DropGrants(r) \/ DropTable(r)
       \/ Administer(r) \/ Demote(r)
  \/ \E s \in Readers : PollLoad(s) \/ PollCheck(s) \/ PollScan(s)

Spec == Init /\ [][Next]_vars

(***************************************************************************)
(* Properties                                                              *)
(***************************************************************************)
\* Types, and the foreign keys: a table that is gone has left no rows and no
\* grants behind, whatever was written while it was being deleted.
TypeOK ==
  /\ table = 0 => Live = {} /\ grants = {}
  /\ table \in Nat /\ made \in Nat
  /\ rows \in [Docs -> Rows \union {None}]
  /\ grants \subseteq Users \X Actions /\ viewers \subseteq Users
  /\ call \in [Requests -> Calls]
  /\ at \in [Requests -> Places] /\ of \in [Requests -> Nat]
  /\ wants \in [Requests -> SUBSET Actions]
  /\ stamp \in [Requests -> Nat] /\ seen \in [Requests -> SUBSET Docs]
  /\ answer \in [Requests -> Answers] /\ ok \in [Requests -> SUBSET Docs]
  /\ poll \in [Readers -> [at : {"idle", "check", "scan"}, of : Nat]]
  /\ user \in [Readers -> Users] /\ token \in [Readers -> Tokens]
  /\ copy \in [Readers -> [Docs -> Requests \union {Seed, None}]]
  /\ from \in [Readers -> Nat]
  /\ high \in Nat /\ loose \subseteq Requests /\ late \subseteq Docs
  /\ took \in [Requests -> SUBSET Docs] /\ gone \in [Requests -> SUBSET Docs]

\* A row at or behind a subscriber's token has been sent to it as it is now:
\* batches, page ends, clocks, deleted and recreated tables lose no change.
\* Excepted are the rows whose stamp was overtaken by another commit, or
\* was taken when the row with the highest stamp had been deleted.
FeedComplete ==
  \A s \in Readers : \A d \in Live \ late :
    token[s].table = table /\ rows[d].stamp >= from[s] /\ ~After(d, token[s]) =>
      copy[s][d] = rows[d].data

\* What a request reports ok it did, in the one transaction it had, or another
\* request had deleted the document after its preflight found it: racing
\* inserts, upserts and deletes of one document are never both believed.
OkIsEarned == \A r \in Requests : ok[r] \subseteq took[r] \union gone[r]

=============================================================================
