-------------------------------- MODULE Files --------------------------------
(***************************************************************************)
(* One path of one file location (src/files.ts, with its routes in         *)
(* src/index.ts and the cleanups of src/ops.ts): its row and its           *)
(* capabilities in D1, its object and the staged uploads in R2.            *)
(*                                                                         *)
(* An upload is a slot (a pending row and a token that works once), a PUT  *)
(* of the bytes under a staging key, and a finalization that verifies      *)
(* them, stores them under the key of the path and then makes the row      *)
(* ready.  A deletion removes the object and then the row.  Revoking the   *)
(* write policy deletes the outstanding capabilities and then the policy.  *)
(* Nothing spans D1 and R2, and a request that stops anywhere is not       *)
(* resumed: it takes no further step.                                      *)
(***************************************************************************)
EXTENDS Naturals

CONSTANTS
  Requests,  \* requests; a slot is also its capability, a PUT its bytes
  Seed,      \* the bytes of a file that was there at first
  None,
  Casts      \* scenarios: what the requests ask, whether the file was there

Actions == {"write", "delete"}
Uploads == {"slot", "put", "finalize", "delete"}
Admins  == {"grant", "revoke", "drop", "create"}
Kinds   == Uploads \union Admins \union {"clean-uploads", "clean-tokens", "none"}
Calls   == [kind : Kinds, action : Actions]
Bytes   == Requests \union {Seed, None}
Files   == [status : {"none", "pending", "ready"}, version : Nat, sha : Bytes]
Places  == {"idle", "policy", "look", "insert", "mint", "consume", "location", "stage", "find",
            "get", "store", "unstage", "record", "discard", "forget", "erase", "row", "files",
            "caps", "policies", "undeclare", "first", "second", "done", "refused"}

ASSUME FileAssumption ==
  /\ Seed \notin Requests /\ None \notin Requests \union {Seed}
  /\ Casts \subseteq [calls : [Requests -> Calls], there : BOOLEAN]

VARIABLES
  declared,  \* the file_locations row
  policy,    \* the actions with a file_policies row
  file,      \* the files row of the path
  caps,      \* the file_capabilities row of a slot
  born,      \* its created_at
  clock,     \* the latest instant
  expired,   \* slots beyond their expires_at
  object,    \* R2: the object of the path
  staged,    \* R2: what is under the staging key of a slot
  call,      \* what a request asks
  at,        \* where it is, or whether it was refused
  of,        \* the slot it works with
  ver,       \* the version it will record, or has read to delete
  bytes,     \* the bytes it has verified
  raced,     \* history: slots minted while write was being or had been revoked
  torn       \* history: requests crossed between the object and the row

store   == <<declared, policy, file, caps>>
times   == <<born, clock, expired>>
bucket  == <<object, staged>>
request == <<call, at, of, ver, bytes>>
history == <<raced, torn>>
vars    == <<store, times, bucket, request, history>>

NoFile == [status |-> "none", version |-> 0, sha |-> None]

Init == \E cast \in Casts :
  /\ declared = TRUE /\ policy = Actions
  /\ file = IF cast.there THEN [status |-> "ready", version |-> 1, sha |-> Seed] ELSE NoFile
  /\ object = IF cast.there THEN Seed ELSE None
  /\ caps = [s \in Requests |-> "none"]
  /\ born = [s \in Requests |-> 0] /\ clock = 0 /\ expired = {}
  /\ staged = [s \in Requests |-> None]
  /\ call = cast.calls
  /\ at = [r \in Requests |-> IF cast.calls[r].kind = "none" THEN "done" ELSE "idle"]
  /\ of = [r \in Requests |-> None]
  /\ ver = [r \in Requests |-> 0]
  /\ bytes = [r \in Requests |-> None]
  /\ raced = {} /\ torn = FALSE

Kind(r) == call[r].kind
Goto(r, place) == at' = [at EXCEPT ![r] = place]

(***************************************************************************)
(* What slots, finalizations and deletions begin with                      *)
(***************************************************************************)
\* loadLocation; a claim out of the bounds of the location is refused too
Declared(r) ==
  /\ at[r] = "idle" /\ Kind(r) \in {"slot", "finalize", "delete"}
  /\ \/ declared /\ Goto(r, "policy")
     \/ (~declared \/ Kind(r) = "finalize") /\ Goto(r, "refused")
  /\ UNCHANGED <<store, times, bucket, call, of, ver, bytes, history>>

\* hasPolicy
Allowed(r) == IF Kind(r) = "delete" THEN "delete" \in policy ELSE "write" \in policy

Policy(r) ==
  /\ at[r] = "policy"
  /\ Goto(r, IF ~Allowed(r) THEN "refused" ELSE IF Kind(r) = "put" THEN "consume" ELSE "look")
  /\ UNCHANGED <<store, times, bucket, call, of, ver, bytes, history>>

(***************************************************************************)
(* issueUploadSlot                                                         *)
(***************************************************************************)
\* the instant of the slot, and the row it finds; a pending one is only touched
SlotLook(s) ==
  /\ at[s] = "look" /\ Kind(s) = "slot"
  /\ \E now \in {clock, clock + 1} : clock' = now /\ born' = [born EXCEPT ![s] = now]
  /\ Goto(s, IF file.status = "none" THEN "insert" ELSE "mint")
  /\ UNCHANGED <<store, expired, bucket, call, of, ver, bytes, history>>

\* the primary key refuses a second row
SlotInsert(s) ==
  /\ at[s] = "insert"
  /\ IF file.status = "none" THEN file' = [NoFile EXCEPT !.status = "pending"] /\ Goto(s, "mint")
     ELSE Goto(s, "refused") /\ UNCHANGED file
  /\ UNCHANGED <<declared, policy, caps, times, bucket, call, of, ver, bytes, history>>

\* a revocation or a deletion of the location between its two deletes
Withdrawing == \E a \in Requests :
  at[a] = "policies" /\ (Kind(a) = "drop" \/ call[a].action = "write")

SlotMint(s) ==
  /\ at[s] = "mint" /\ Goto(s, "done")
  /\ caps' = [caps EXCEPT ![s] = "open"]
  /\ raced' = IF Withdrawing \/ "write" \notin policy THEN raced \union {s} ELSE raced
  /\ UNCHANGED <<declared, policy, file, times, bucket, call, of, ver, bytes, torn>>

Expire(s) ==
  /\ caps[s] # "none" /\ s \notin expired /\ expired' = expired \union {s}
  /\ UNCHANGED <<store, born, clock, bucket, request, history>>

(***************************************************************************)
(* PUT: consumeUploadToken, then the bytes                                 *)
(***************************************************************************)
\* a token that was answered to somebody
PutLoad(p) ==
  /\ at[p] = "idle" /\ Kind(p) = "put"
  /\ \E s \in Requests :
       /\ Kind(s) = "slot" /\ at[s] = "done"
       /\ of' = [of EXCEPT ![p] = s]
       /\ Goto(p, IF caps[s] = "open" /\ s \notin expired THEN "policy" ELSE "refused")
  /\ UNCHANGED <<store, times, bucket, call, ver, bytes, history>>

\* Mutant: no fence on used_at.
ConsumeAgain(p) ==
  /\ at[p] = "consume"
  /\ IF caps[of[p]] # "none" THEN caps' = [caps EXCEPT ![of[p]] = "used"] /\ Goto(p, "location")
     ELSE Goto(p, "refused") /\ UNCHANGED caps
  /\ UNCHANGED <<declared, policy, file, times, bucket, call, of, ver, bytes, history>>

Consume(p) ==
  /\ at[p] = "consume"
  /\ IF caps[of[p]] = "open" THEN caps' = [caps EXCEPT ![of[p]] = "used"] /\ Goto(p, "location")
     ELSE Goto(p, "refused") /\ UNCHANGED caps
  /\ UNCHANGED <<declared, policy, file, times, bucket, call, of, ver, bytes, history>>

\* a body of another type, too long or broken off is refused: the token is spent
PutLocation(p) ==
  /\ at[p] = "location"
  /\ Goto(p, "refused") \/ (declared /\ Goto(p, "stage"))
  /\ UNCHANGED <<store, times, bucket, call, of, ver, bytes, history>>

Stage(p) ==
  /\ at[p] = "stage" /\ Goto(p, "done")
  /\ staged' = [staged EXCEPT ![of[p]] = p]
  /\ UNCHANGED <<store, times, object, call, of, ver, bytes, history>>

(***************************************************************************)
(* finalizeUpload                                                          *)
(***************************************************************************)
\* a ready row needs its version: without it, or with another, a conflict
FinLook(f) ==
  /\ at[f] = "look" /\ Kind(f) = "finalize"
  /\ \/ file.status # "pending" /\ Goto(f, "refused") /\ UNCHANGED ver
     \/ /\ file.status # "none" /\ Goto(f, "find")
        /\ ver' = [ver EXCEPT ![f] = IF file.status = "ready" THEN file.version + 1 ELSE 1]
  /\ UNCHANGED <<store, times, bucket, call, of, bytes, history>>

\* findStagingKey: the newest used capability
Newest(s) == caps[s] = "used" /\ \A t \in Requests : caps[t] = "used" => born[t] <= born[s]

FinFind(f) ==
  /\ at[f] = "find"
  /\ \/ /\ \E s \in Requests : Newest(s) /\ of' = [of EXCEPT ![f] = s]
        /\ Goto(f, "get")
     \/ (\A s \in Requests : ~Newest(s)) /\ Goto(f, "refused") /\ UNCHANGED of
  /\ UNCHANGED <<store, times, bucket, call, ver, bytes, history>>

\* the staged bytes are read once, measured and compared with the claim
FinGet(f) ==
  /\ at[f] = "get"
  /\ LET found == staged[of[f]] IN
     IF found = None THEN Goto(f, "refused") /\ UNCHANGED bytes
     ELSE \E claim \in Bytes \ {None} :
            IF claim = found THEN bytes' = [bytes EXCEPT ![f] = found] /\ Goto(f, "store")
            ELSE Goto(f, "discard") /\ UNCHANGED bytes
  /\ UNCHANGED <<store, times, bucket, call, of, ver, history>>

\* requests that have changed the object and not yet the row
Midway(r) == at[r] \in {"unstage", "record", "row"}
Crosses(r) == \E q \in Requests \ {r} : Midway(q)

FinStore(f) ==
  /\ at[f] = "store" /\ Goto(f, "unstage")
  /\ object' = bytes[f]
  /\ torn' = (torn \/ Crosses(f))
  /\ UNCHANGED <<store, times, staged, call, of, ver, bytes, raced>>

FinUnstage(f) ==
  /\ at[f] = "unstage" /\ Goto(f, "record")
  /\ staged' = [staged EXCEPT ![of[f]] = None]
  /\ UNCHANGED <<store, times, object, call, of, ver, bytes, history>>

\* the UPDATE names the path alone; a row that is gone is a 500
FinRecord(f) ==
  /\ at[f] = "record"
  /\ IF file.status = "none" THEN Goto(f, "refused") /\ UNCHANGED file
     ELSE /\ file' = [status |-> "ready", version |-> ver[f], sha |-> bytes[f]]
          /\ Goto(f, "done")
  /\ UNCHANGED <<declared, policy, caps, times, bucket, call, of, ver, bytes, history>>

\* Mutant: a mismatch removes the object of the path.
DiscardObject(f) ==
  /\ at[f] = "discard" /\ Goto(f, "forget")
  /\ object' = None
  /\ UNCHANGED <<store, times, staged, call, of, ver, bytes, history>>

\* discardPending: COMPLETION_MISMATCH
Discard(f) ==
  /\ at[f] = "discard" /\ Goto(f, "forget")
  /\ staged' = [staged EXCEPT ![of[f]] = None]
  /\ UNCHANGED <<store, times, object, call, of, ver, bytes, history>>

Forget(f) ==
  /\ at[f] = "forget" /\ Goto(f, "refused")
  /\ file' = IF file.status = "pending" THEN NoFile ELSE file
  /\ UNCHANGED <<declared, policy, caps, times, bucket, call, of, ver, bytes, history>>

(***************************************************************************)
(* deleteFile                                                              *)
(***************************************************************************)
DelLook(d) ==
  /\ at[d] = "look" /\ Kind(d) = "delete"
  /\ \/ Goto(d, "refused") /\ UNCHANGED ver     \* missing, or another version
     \/ /\ file.status # "none" /\ Goto(d, "erase")
        /\ ver' = [ver EXCEPT ![d] = file.version]
  /\ UNCHANGED <<store, times, bucket, call, of, bytes, history>>

DelErase(d) ==
  /\ at[d] = "erase" /\ Goto(d, "row")
  /\ object' = None
  /\ torn' = (torn \/ Crosses(d))
  /\ UNCHANGED <<store, times, staged, call, of, ver, bytes, raced>>

\* Mutant: the row is kept and marked.
DelRowSoftly(d) ==
  /\ at[d] = "row" /\ Goto(d, "done")
  /\ IF file.status # "none" /\ file.version = ver[d]
     THEN file' = [file EXCEPT !.status = "none"] /\ UNCHANGED torn
     ELSE torn' = (torn \/ file.status = "ready") /\ UNCHANGED file
  /\ UNCHANGED <<declared, policy, caps, times, bucket, call, of, ver, bytes, raced>>

\* the row of the version that was read; a newer one stays, without bytes
DelRow(d) ==
  /\ at[d] = "row" /\ Goto(d, "done")
  /\ IF file.status # "none" /\ file.version = ver[d] THEN file' = NoFile /\ UNCHANGED torn
     ELSE torn' = (torn \/ file.status = "ready") /\ UNCHANGED file
  /\ UNCHANGED <<declared, policy, caps, times, bucket, call, of, ver, bytes, raced>>

(***************************************************************************)
(* Policies, the location, the cleanups                                    *)
(***************************************************************************)
AdminLoad(a) ==
  /\ at[a] = "idle" /\ Kind(a) \in {"grant", "revoke", "drop"}
  /\ Goto(a, IF ~declared THEN "refused"
             ELSE CASE Kind(a) = "grant" -> "first"
                    [] Kind(a) = "drop" -> "files"
                    [] Kind(a) = "revoke" -> IF call[a].action = "write" THEN "caps" ELSE "policies")
  /\ UNCHANGED <<store, times, bucket, call, of, ver, bytes, history>>

\* deleteLocation: LOCATION_NOT_EMPTY
DropFiles(a) ==
  /\ at[a] = "files" /\ Goto(a, IF file.status = "none" THEN "caps" ELSE "refused")
  /\ UNCHANGED <<store, times, bucket, call, of, ver, bytes, history>>

\* Mutant: deletes the download capabilities instead.
KeepCaps(a) ==
  /\ at[a] = "caps" /\ Goto(a, "policies")
  /\ UNCHANGED <<store, times, bucket, call, of, ver, bytes, history>>

\* the upload capabilities of the location, used or not
RevokeCaps(a) ==
  /\ at[a] = "caps" /\ Goto(a, "policies")
  /\ caps' = [s \in Requests |-> "none"]
  /\ UNCHANGED <<declared, policy, file, times, bucket, call, of, ver, bytes, history>>

RevokePolicies(a) ==
  /\ at[a] = "policies"
  /\ Goto(a, IF Kind(a) = "drop" THEN "undeclare"
             ELSE IF call[a].action \in policy THEN "done" ELSE "refused")
  /\ policy' = IF Kind(a) = "drop" THEN {} ELSE policy \ {call[a].action}
  /\ UNCHANGED <<declared, file, caps, times, bucket, call, of, ver, bytes, history>>

Undeclare(a) ==
  /\ at[a] = "undeclare" /\ Goto(a, "done")
  /\ declared' = FALSE
  /\ UNCHANGED <<policy, file, caps, times, bucket, call, of, ver, bytes, history>>

\* createLocation; a policy row that is there already ends it
Create(a) ==
  /\ at[a] = "idle" /\ Kind(a) = "create"
  /\ declared' = TRUE /\ Goto(a, IF declared THEN "refused" ELSE "first")
  /\ UNCHANGED <<policy, file, caps, times, bucket, call, of, ver, bytes, history>>

Grant(a) ==
  /\ at[a] \in {"first", "second"}
  /\ LET action == IF Kind(a) = "grant" THEN call[a].action
                   ELSE IF at[a] = "first" THEN "write" ELSE "delete"
     IN /\ policy' = policy \union {action}
        /\ Goto(a, IF Kind(a) = "grant" THEN "done"
                   ELSE IF action \in policy THEN "refused"
                   ELSE IF at[a] = "first" THEN "second" ELSE "done")
  /\ UNCHANGED <<declared, file, caps, times, bucket, call, of, ver, bytes, history>>

\* cleanup-pending-uploads and cleanup-expired-tokens of runRepair
Clean(c) ==
  /\ at[c] = "idle" /\ Kind(c) \in {"clean-uploads", "clean-tokens"} /\ Goto(c, "done")
  /\ IF Kind(c) = "clean-uploads"
     THEN file' = (IF file.status = "pending" THEN NoFile ELSE file) /\ UNCHANGED caps
     ELSE /\ caps' = [s \in Requests |-> IF s \in expired THEN "none" ELSE caps[s]]
          /\ UNCHANGED file
  /\ UNCHANGED <<declared, policy, times, bucket, call, of, ver, bytes, history>>

Next == \E r \in Requests :
  \/ Declared(r) \/ Policy(r)
  \/ SlotLook(r) \/ SlotInsert(r) \/ SlotMint(r) \/ Expire(r)
  \/ PutLoad(r) \/ Consume(r) \/ PutLocation(r) \/ Stage(r)
  \/ FinLook(r) \/ FinFind(r) \/ FinGet(r) \/ FinStore(r) \/ FinUnstage(r) \/ FinRecord(r)
  \/ Discard(r) \/ Forget(r)
  \/ DelLook(r) \/ DelErase(r) \/ DelRow(r)
  \/ AdminLoad(r) \/ DropFiles(r) \/ RevokeCaps(r) \/ RevokePolicies(r) \/ Undeclare(r)
  \/ Create(r) \/ Grant(r) \/ Clean(r)

Spec == Init /\ [][Next]_vars

(***************************************************************************)
(* Properties                                                              *)
(***************************************************************************)
\* Types; only a ready row has a version and a digest.
TypeOK ==
  /\ declared \in BOOLEAN /\ policy \subseteq Actions
  /\ file \in Files /\ (file.status # "ready" => file = [NoFile EXCEPT !.status = file.status])
  /\ caps \in [Requests -> {"none", "open", "used"}]
  /\ born \in [Requests -> Nat] /\ clock \in Nat /\ expired \subseteq Requests
  /\ object \in Bytes /\ staged \in [Requests -> Requests \union {None}]
  /\ call \in [Requests -> Calls] /\ at \in [Requests -> Places]
  /\ of \in [Requests -> Requests \union {None}]
  /\ ver \in [Requests -> Nat] /\ bytes \in [Requests -> Bytes]
  /\ raced \subseteq Requests /\ torn \in BOOLEAN

\* An upload token stages one body: of the PUTs that replay it, however they
\* interleave with each other, revocations and cleanups, one is accepted.
OneBodyPerToken == \A p, q \in Requests :
  /\ Kind(p) = "put" /\ at[p] \in {"location", "stage", "done"}
  /\ Kind(q) = "put" /\ at[q] \in {"location", "stage", "done"}
  /\ of[p] = of[q]
  => p = q

\* Once write is revoked no PUT is accepted, although its own look at the
\* policy came before.  The tokens excepted were minted by a slot that had
\* looked at the policy too, after the revocation had deleted the others.
RevocationStops == [][\A s \in Requests \ raced :
  caps[s] = "open" /\ caps'[s] = "used" => "write" \in policy]_vars

\* The bytes of a ready row are those it was verified for, unless a request
\* that changed the object has not changed the row (it may never), or two
\* requests crossed: both between object and row, or a deletion at work for
\* a version that a finalization has replaced.
ReadyHasItsBytes ==
  file.status = "ready" /\ ~torn /\ (\A r \in Requests : ~Midway(r)) => object = file.sha

=============================================================================
