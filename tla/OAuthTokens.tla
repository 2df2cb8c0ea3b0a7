----------------------------- MODULE OAuthTokens -----------------------------
(***************************************************************************)
(* The stored OAuth token of one Connection (oauth_tokens), and everything *)
(* that writes it around calls to the vendor:                              *)
(*                                                                         *)
(*   refreshers  refreshPersistedOAuthToken: load, one vendor POST per     *)
(*               flight, then a replacement or a failure write             *)
(*   revokers    revokePersistedOAuthToken                                 *)
(*   consents    handleOAuthCallback: first store or re-consent            *)
(*   operators   recordOAuthTokenFailure / recordOAuthTokenRevoked without *)
(*               an expected generation                                    *)
(*   the Connection's deletion (connections.ts deleteConnection)           *)
(*                                                                         *)
(* Every D1 statement is one action; the vendor answers between them.      *)
(* Tokens are numbers in the order the vendor issues them, 0 is "none".    *)
(* The failure code moves only together with the count and is left out.    *)
(***************************************************************************)
EXTENDS Naturals, FiniteSets

CONSTANTS
  Refreshers, Revokers, Consents, Operators,
  FlightOf,    \* refreshers with the same value share an isolate or a fence
  Decides,     \* Decides[o]: what operator o records, "failed" or "revoked"
  Casts,       \* [who, deletes]: a scenario: who arrives, is the Connection deleted
  MaxTokens    \* bound: tokens the vendor issues

Writers == Refreshers \union Consents
Actors  == Writers \union Revokers \union Operators

ASSUME OAuthAssumption ==
  /\ Refreshers \intersect Consents = {} /\ Writers \intersect Revokers = {}
  /\ Operators \intersect (Writers \union Revokers) = {}
  /\ Decides \in [Operators -> {"failed", "revoked"}]
  /\ Casts \subseteq [who : SUBSET Actors, deletes : BOOLEAN]
  /\ MaxTokens \in Nat

Statuses == {"healthy", "failed", "revoked"}
Rows     == [gen : Nat, access : Nat, refresh : Nat, status : Statuses, fails : Nat]
Tokens   == [access : Nat, refresh : Nat]
Ends     == {"replaced", "stored", "stale", "notfound", "unusable", "unavailable",
             "failed", "unreachable", "revoked", "refused", "crashed", "done"}
Steps    == {"absent", "idle", "post", "flying", "reread", "failwrite", "conflict",
             "merge", "check", "replace", "exists", "insert", "exchange",
             "revoking", "revokewrite", "opwrite"}

\* recordTokenSuccess(initialTokenHealth()) with the issued tokens
Healthy(gen, token) ==
  [gen |-> gen, access |-> token.access, refresh |-> token.refresh,
   status |-> "healthy", fails |-> 0]

NoToken == [access |-> 0, refresh |-> 0]
NoRow   == Healthy(0, NoToken)

VARIABLES
  row,       \* the oauth_tokens row; generation 0 while there is none
  owned,     \* does the Connection still exist?
  deleting,  \* deleteConnection: "never" or "no" (not yet), "tokens" (row gone), "done"
  live,      \* refresh tokens the vendor accepts
  issued,    \* tokens the vendor has issued
  gone,      \* access tokens the vendor confirmed revoked
  pc, loaded, base, answer   \* an actor's step, its load, its reread count, its tokens

conn   == <<owned, deleting>>
vendor == <<live, issued, gone>>
held   == <<loaded, base, answer>>
vars   == <<row, conn, vendor, pc, held>>

Init == \E cast \in Casts :
  /\ issued = 1 /\ live = {1}
  /\ row \in {NoRow, Healthy(1, [access |-> 1, refresh |-> 1])}
  /\ owned = TRUE /\ deleting = IF cast.deletes THEN "no" ELSE "never"
  /\ gone = {}
  /\ pc = [a \in Actors |-> IF a \in cast.who THEN "idle" ELSE "absent"]
  /\ loaded = [a \in Actors |-> NoRow]
  /\ base = [a \in Actors |-> 0]
  /\ answer = [a \in Actors |-> NoToken]

Step(a, to) == pc' = [pc EXCEPT ![a] = to]
Exists == row.gen > 0
Load(a) == loaded' = [loaded EXCEPT ![a] = row]

(***************************************************************************)
(* Refresh                                                                 *)
(***************************************************************************)
\* loadOAuthToken and the tests before any vendor call
RefreshLoad(r) ==
  /\ pc[r] = "idle" /\ Load(r)
  /\ Step(r, IF ~Exists THEN "notfound"
             ELSE IF row.status # "healthy" THEN "unusable"
             ELSE IF row.refresh = 0 THEN "unavailable" ELSE "post")
  /\ UNCHANGED <<row, conn, vendor, base, answer>>

\* who waits for the vendor on the flight of q and its generation
Flight(q) == {r \in Refreshers : /\ pc[r] = "flying" /\ FlightOf[r] = FlightOf[q]
                                 /\ loaded[r].gen = loaded[q].gen}

\* refreshRotatingToken: join the flight of the same key, or POST
RefreshPost(r) ==
  /\ pc[r] = "post" /\ Step(r, "flying")
  /\ UNCHANGED <<row, conn, vendor, held>>

\* the flight settles and is released; every waiter gets its outcome
Settle(r, to) == pc' = [q \in Actors |-> IF q \in Flight(r) THEN to ELSE pc[q]]

\* the vendor exchanges a live token, for a new one or with no new one
VendorGrants(r) ==
  /\ pc[r] = "flying" /\ Settle(r, "check")
  /\ loaded[r].refresh \in live /\ issued < MaxTokens
  /\ issued' = issued + 1
  /\ \E rotates \in BOOLEAN :
       /\ live' = IF rotates THEN (live \ {loaded[r].refresh}) \union {issued'} ELSE live
       /\ answer' = [q \in Actors |->
                       IF q \in Flight(r)
                       THEN [access |-> issued', refresh |-> IF rotates THEN issued' ELSE 0]
                       ELSE answer[q]]
  /\ UNCHANGED <<row, conn, gone, loaded, base>>

\* what the vendor may have done although its answer does not say so
Unsaid(r) == live' \in {live, live \ {loaded[r].refresh}}

\* Mutant: a refusal is taken to mean that another refresher was faster.
VendorRefusesStale(r) ==
  /\ pc[r] = "flying" /\ Settle(r, "stale") /\ Unsaid(r)
  /\ UNCHANGED <<row, conn, issued, gone, held>>

\* a Fault: the token is refused, the answer malformed, the deadline passed
VendorRefuses(r) ==
  /\ pc[r] = "flying" /\ Settle(r, "reread") /\ Unsaid(r)
  /\ UNCHANGED <<row, conn, issued, gone, held>>

\* Mutant: a transport error is recorded as a health status.
VendorUnreachableMarked(r) ==
  /\ pc[r] = "flying" /\ Settle(r, "unreachable")
  /\ row' = IF Exists THEN [row EXCEPT !.status = "unreachable"] ELSE row
  /\ Unsaid(r)
  /\ UNCHANGED <<conn, issued, gone, held>>

\* a raw transport error: no health write
VendorUnreachable(r) ==
  /\ pc[r] = "flying" /\ Settle(r, "unreachable")
  /\ Unsaid(r)
  /\ UNCHANGED <<row, conn, issued, gone, held>>

(***************************************************************************)
(* recordOAuthTokenFailure with the generation and health of the load      *)
(***************************************************************************)
FailureReread(r) ==
  /\ pc[r] = "reread" /\ Step(r, IF Exists THEN "failwrite" ELSE "notfound")
  /\ base' = [base EXCEPT ![r] = row.fails]
  /\ UNCHANGED <<row, conn, vendor, loaded, answer>>

\* Mutant: the failure write compares the generation only.
ObservedGeneration(r) == row.gen = loaded[r].gen

\* the health and generation the UPDATE compares with
Observed(r) == /\ row.gen = loaded[r].gen
               /\ row.status = loaded[r].status /\ row.fails = loaded[r].fails

FailureWrite(r) ==
  /\ pc[r] = "failwrite"
  /\ IF Exists /\ Observed(r)
     THEN /\ row' = [row EXCEPT !.status = "failed", !.fails = base[r] + 1]
          /\ Step(r, "failed")
     ELSE UNCHANGED row /\ Step(r, "conflict")
  /\ UNCHANGED <<conn, vendor, held>>

\* the row the failure lost against: gone, newer, or moved in its generation
FailureConflict(r) ==
  /\ pc[r] = "conflict"
  /\ Step(r, IF ~Exists THEN "notfound"
             ELSE IF row.gen # loaded[r].gen THEN "stale" ELSE "merge")
  /\ UNCHANGED <<row, conn, vendor, held>>

\* the losing failure still counts, and never moves the status
FailureMerge(r) ==
  /\ pc[r] = "merge"
  /\ IF Exists /\ row.gen = loaded[r].gen
     THEN row' = [row EXCEPT !.fails = @ + 1] /\ Step(r, "failed")
     ELSE UNCHANGED row /\ Step(r, IF Exists THEN "stale" ELSE "notfound")
  /\ UNCHANGED <<conn, vendor, held>>

(***************************************************************************)
(* replaceOAuthToken and storeInitialOAuthToken                            *)
(***************************************************************************)
\* ownedConnectionId; the envelope encryption separates it from the write
CheckOwned(w) ==
  /\ pc[w] = "check"
  /\ Step(w, IF ~owned THEN "notfound"
             ELSE IF loaded[w].gen = 0 THEN "exists" ELSE "replace")
  /\ UNCHANGED <<row, conn, vendor, held>>

\* Mutant: the UPDATE without its WHERE generation = ?.
ReplaceUnfenced(w) ==
  /\ pc[w] = "replace"
  /\ IF Exists
     THEN row' = Healthy(loaded[w].gen + 1, answer[w]) /\ Step(w, "replaced")
     ELSE UNCHANGED row /\ Step(w, "notfound")
  /\ UNCHANGED <<conn, vendor, held>>

Replace(w) ==
  /\ pc[w] = "replace"
  /\ IF Exists /\ row.gen = loaded[w].gen
     THEN row' = Healthy(row.gen + 1, answer[w]) /\ Step(w, "replaced")
     ELSE UNCHANGED row /\ Step(w, IF Exists THEN "stale" ELSE "notfound")
  /\ UNCHANGED <<conn, vendor, held>>

\* storeInitialOAuthToken asks for a row before it encrypts
StoreLooks(w) ==
  /\ pc[w] = "exists" /\ Step(w, IF Exists THEN "stale" ELSE "insert")
  /\ UNCHANGED <<row, conn, vendor, held>>

\* its INSERT, which the primary key and the foreign key refuse
StoreInserts(w) ==
  /\ pc[w] = "insert"
  /\ IF ~Exists /\ owned
     THEN row' = Healthy(1, answer[w]) /\ Step(w, "stored")
     ELSE UNCHANGED row /\ Step(w, IF Exists THEN "stale" ELSE "notfound")
  /\ UNCHANGED <<conn, vendor, held>>

(***************************************************************************)
(* handleOAuthCallback                                                     *)
(***************************************************************************)
\* getConnection, then the generation, both before the code is spent
ConsentRead(c) ==
  /\ pc[c] = "idle" /\ Load(c)
  /\ Step(c, IF owned THEN "exchange" ELSE "notfound")
  /\ UNCHANGED <<row, conn, vendor, base, answer>>

\* exchangeAuthorizationCode: an access token, with a refresh token or without
ConsentExchange(c) ==
  /\ pc[c] = "exchange"
  /\ \/ Step(c, "refused") /\ UNCHANGED <<live, issued, answer>>
     \/ /\ issued < MaxTokens /\ issued' = issued + 1 /\ Step(c, "check")
        /\ \E refresh \in {0, issued'} :
             /\ live' = live \union ({refresh} \ {0})
             /\ answer' = [answer EXCEPT ![c] = [access |-> issued', refresh |-> refresh]]
  /\ UNCHANGED <<row, conn, gone, loaded, base>>

(***************************************************************************)
(* revokePersistedOAuthToken                                               *)
(***************************************************************************)
RevokeLoad(v) ==
  /\ pc[v] = "idle" /\ Load(v) /\ Step(v, IF Exists THEN "revoking" ELSE "notfound")
  /\ UNCHANGED <<row, conn, vendor, base, answer>>

\* revokeOAuthToken: a failure says nothing of the token
RevokeCall(v) ==
  /\ pc[v] = "revoking"
  /\ \/ Step(v, "revokewrite") /\ gone' = gone \union {loaded[v].access}
     \/ Step(v, "refused") /\ UNCHANGED gone
  /\ UNCHANGED <<row, conn, live, issued, held>>

\* Mutant: the revocation is written without the generation.
RevokeUnfenced(v) ==
  /\ pc[v] = "revokewrite"
  /\ IF Exists THEN row' = [row EXCEPT !.status = "revoked"] /\ Step(v, "revoked")
     ELSE UNCHANGED row /\ Step(v, "notfound")
  /\ UNCHANGED <<conn, vendor, held>>

\* Mutant: the revocation writes back the counters of its own load.
RevokeRestores(v) ==
  /\ pc[v] = "revokewrite"
  /\ IF Exists /\ row.gen = loaded[v].gen
     THEN /\ row' = [row EXCEPT !.status = "revoked", !.fails = loaded[v].fails]
          /\ Step(v, "revoked")
     ELSE UNCHANGED row /\ Step(v, IF Exists THEN "stale" ELSE "notfound")
  /\ UNCHANGED <<conn, vendor, held>>

\* recordOAuthTokenRevoked with the loaded generation: the status only
RevokeWrite(v) ==
  /\ pc[v] = "revokewrite"
  /\ IF Exists /\ row.gen = loaded[v].gen
     THEN row' = [row EXCEPT !.status = "revoked"] /\ Step(v, "revoked")
     ELSE UNCHANGED row /\ Step(v, IF Exists THEN "stale" ELSE "notfound")
  /\ UNCHANGED <<conn, vendor, held>>

(***************************************************************************)
(* Direct operator writes: no generation, the counters of their read       *)
(***************************************************************************)
OperatorRead(o) ==
  /\ pc[o] = "idle" /\ Step(o, IF Exists THEN "opwrite" ELSE "notfound")
  /\ base' = [base EXCEPT ![o] = row.fails]
  /\ UNCHANGED <<row, conn, vendor, loaded, answer>>

OperatorWrite(o) ==
  /\ pc[o] = "opwrite" /\ Step(o, "done")
  /\ row' = IF ~Exists THEN row
            ELSE IF Decides[o] = "failed"
            THEN [row EXCEPT !.status = IF @ = "revoked" THEN @ ELSE "failed",
                             !.fails = base[o] + 1]
            ELSE [row EXCEPT !.status = "revoked", !.fails = base[o]]
  /\ UNCHANGED <<conn, vendor, held>>

(***************************************************************************)
(* deleteConnection, and isolates that die                                 *)
(***************************************************************************)
DeleteTokens ==
  /\ deleting = "no" /\ deleting' = "tokens"
  /\ row' = NoRow
  /\ UNCHANGED <<owned, vendor, pc, held>>

\* the mapping goes, and a row stored since then goes with it (foreign key)
DeleteMapping ==
  /\ deleting = "tokens" /\ deleting' = "done"
  /\ owned' = FALSE /\ row' = NoRow
  /\ UNCHANGED <<vendor, pc, held>>

\* the isolate of one request dies at any await
Crash(a) ==
  /\ pc[a] \notin {"absent", "idle"} \union Ends /\ Step(a, "crashed")
  /\ UNCHANGED <<row, conn, vendor, held>>

RefreshNext(r) ==
  \/ RefreshLoad(r) \/ RefreshPost(r)
  \/ VendorGrants(r) \/ VendorRefuses(r) \/ VendorUnreachable(r)
  \/ FailureReread(r) \/ FailureWrite(r) \/ FailureConflict(r) \/ FailureMerge(r)
StoreNext(w) == CheckOwned(w) \/ Replace(w) \/ StoreLooks(w) \/ StoreInserts(w)
ConsentNext(c) == ConsentRead(c) \/ ConsentExchange(c)
RevokeNext(v) == RevokeLoad(v) \/ RevokeCall(v) \/ RevokeWrite(v)
OperatorNext(o) == OperatorRead(o) \/ OperatorWrite(o)

Next ==
  \/ \E r \in Refreshers : RefreshNext(r)
  \/ \E w \in Writers : StoreNext(w)
  \/ \E c \in Consents : ConsentNext(c)
  \/ \E v \in Revokers : RevokeNext(v)
  \/ \E o \in Operators : OperatorNext(o)
  \/ \E a \in Actors : Crash(a)
  \/ DeleteTokens \/ DeleteMapping

Spec == Init /\ [][Next]_vars

(***************************************************************************)
(* Properties                                                              *)
(***************************************************************************)
\* Every variable keeps its type.
TypeOK ==
  /\ row \in Rows /\ owned \in BOOLEAN /\ deleting \in {"never", "no", "tokens", "done"}
  /\ live \subseteq Nat /\ issued \in Nat /\ gone \subseteq Nat
  /\ pc \in [Actors -> Steps \union Ends]
  /\ loaded \in [Actors -> Rows] /\ base \in [Actors -> Nat]
  /\ answer \in [Actors -> Tokens]

NotDeleted == deleting \in {"never", "no"}

\* However refreshes and consents race, one replacement wins each generation
\* and one store the first: no rotated token is overwritten unseen.
OneWinnerPerGeneration ==
  NotDeleted =>
    \A w \in Writers : \A q \in Writers \ {w} :
      pc[w] \in {"replaced", "stored"} /\ pc[q] \in {"replaced", "stored"}
        => loaded[w].gen # loaded[q].gen

\* Within a generation revoked is terminal, whoever writes and whatever the
\* writer read before (issue #451).
RevokedIsTerminal ==
  [][row.status = "revoked" /\ row'.gen = row.gen => row'.status = "revoked"]_row

\* A row is revoked only when the vendor confirmed the revocation of the very
\* token it holds, or an operator decided so.
RevokedIsConfirmed ==
  row.status = "revoked" /\ NotDeleted =>
    \/ row.access \in gone
    \/ \E o \in Operators : Decides[o] = "revoked" /\ pc[o] = "done"

\* Every failed use of the stored token is counted, and no other: failures
\* that lose a race merge, revocations keep the count, a replacement resets it.
FailuresCounted ==
  Exists /\ NotDeleted /\ (\A o \in Operators : pc[o] # "done") =>
    row.fails = Cardinality({r \in Refreshers : pc[r] = "failed" /\ loaded[r].gen = row.gen})

\* A healthy row holds a refresh token the vendor still accepts, unless a
\* refresher took that very generation and is still at work, lost its isolate
\* or got no answer: no race of answered refreshes loses the live token. Not
\* so between the two statements of a deletion: a consent that stores then
\* starts the generations again, and a refresher still at work on an older one
\* may replace its token with one another refresher has spent.
HealthyIsLive ==
  Exists /\ NotDeleted /\ row.status = "healthy" /\ row.refresh > 0 =>
    \/ row.refresh \in live
    \/ \E r \in Refreshers :
         /\ pc[r] \in (Steps \ {"absent", "idle"}) \union {"crashed", "unreachable"}
         /\ loaded[r].gen = row.gen

=============================================================================
