-------------------------------- MODULE Forms --------------------------------
(***************************************************************************)
(* One Form of an Organization and its sessions (src/forms.ts): operators  *)
(* start sessions of it, and so do outsiders through signed embeds         *)
(* (src/embeds.ts) and through its publication (src/public-forms.ts), the  *)
(* capabilities that name the declaration they were bound to.              *)
(*                                                                         *)
(* A session is a one-time handle.  A submission looks at it, checks the   *)
(* values, reserves it to its Idempotency-Key, admits an Execution for     *)
(* that key, and spends it afterwards, so that an uncertain dispatch can   *)
(* be retried.  When the declaration changed, rotating an embed or         *)
(* publishing and reviewing the Form binds the capability to the new one   *)
(* and then deletes the sessions of the old.  Each statement sent to D1    *)
(* is a step; an isolate may die between two, and most faults of D1 are    *)
(* answered as a stale handle.                                             *)
(***************************************************************************)
EXTENDS Integers, FiniteSets

CONSTANTS
  Handles,                          \* sessions, each with the request that starts it
  Embeds, Publications, Operators,  \* who starts sessions and submits
  FormIds, Prints,                  \* ids and fingerprints of declarations
  Keys, Values,                     \* Idempotency-Keys, and what is submitted
  Submits, Rebinds,                 \* requests: submissions, and rotate/publish/review
  SweepLimit,                       \* expired sessions one startup deletes
  None,                             \* no form, grant, session, Execution or key
  Casts                             \* scenarios: who starts, submits and binds again

Externals    == Embeds \union Publications
Principals   == Externals \union Operators
Declarations == [id : FormIds, print : Prints]
Grants       == [to : Declarations, enabled : BOOLEAN]
Inputs       == [values : Values, later : BOOLEAN]  \* later: with a scheduleAt
Executions   == [input : Inputs, dispatched : BOOLEAN]
Asks         == [handle : Handles, who : Principals, key : Keys, input : Inputs]

\* `under` and `loose` are history: the declaration the session was minted
\* under (of which the row keeps the id), and why it outlives a re-bind: it was
\* inserted "late", after the deletion, or "kept" because nothing deleted it
Excuses == {"late", "kept", "between"}
Sessions == [user : Principals, under : Declarations, expired : BOOLEAN, used : BOOLEAN,
             claimed : Keys \union {None}, loose : SUBSET Excuses]

ASSUME FormsAssumption ==
  /\ SweepLimit \in Nat
  /\ Embeds \intersect Publications = {} /\ Externals \intersect Operators = {}
  /\ None \notin Declarations \union Grants \union Sessions \union Executions
  /\ None \notin Principals \union Keys \union Asks
  /\ Casts \subseteq [starts : [Handles -> Principals \union {None}], subs : [Submits -> Asks \union {None}],
                      rebinds : [Rebinds -> Externals \union {None}],
                      granted : SUBSET Externals, form : Declarations, acts : Nat]

VARIABLES
  form,       \* the declaration of that name
  acts,       \* bound: how often it, or a grant, is still edited
  grant,      \* form_embeds and form_publications
  session,    \* form_startups
  execution,  \* executions, by user and key
  launched,   \* the Executions that have a Workflow instance
  start,      \* the startup request of each handle
  sub,        \* the submissions
  rebind,     \* the requests that bind a capability again
  via         \* history: the keys admitted through each handle

tables == <<form, acts, grant, session, execution, launched>>
vars   == <<tables, start, sub, rebind, via>>

InFlight  == {"form", "peek", "reserve", "claim", "admit", "launch", "mark", "consume", "spend", "verify"}
Answers   == {"accepted", "stale", "refused", "unconfirmed", "dead"}
Reserved  == {"admit", "launch", "mark", "consume", "spend", "verify", "accepted", "unconfirmed"}

StartAt  == {"idle", "form", "insert", "sweep", "done", "refused"}
RebindAt == {"idle", "grant", "write", "invalidate", "done", "failed"}

Init == \E cast \in Casts :
  /\ form = cast.form /\ acts = cast.acts
  /\ grant = [p \in Externals |-> IF p \in cast.granted THEN [to |-> form, enabled |-> TRUE] ELSE None]
  /\ session = [h \in Handles |-> None]
  /\ execution = [x \in Principals \X Keys |-> None]
  /\ launched = {}
  /\ start = [h \in Handles |-> [at |-> IF cast.starts[h] = None THEN "refused" ELSE "idle",
                                 who |-> cast.starts[h], to |-> None, under |-> None]]
  /\ sub = [s \in Submits |-> [at |-> IF cast.subs[s] = None THEN "dead" ELSE "idle",
                               ask |-> cast.subs[s], to |-> None, under |-> None,
                               admitted |-> FALSE, fault |-> FALSE, excuses |-> {}]]
  /\ rebind = [r \in Rebinds |-> [at |-> IF cast.rebinds[r] = None THEN "failed" ELSE "idle",
                                 who |-> cast.rebinds[r], to |-> None, from |-> None]]
  /\ via = [h \in Handles |-> {}]

-----------------------------------------------------------------------------
(* The designer and the administrator.                                     *)

\* Create or replace the declaration.  The id of the row it finds is kept; a
\* save that looked before a deletion puts the Form back under the old id.
SaveForm ==
  /\ acts > 0 /\ acts' = acts - 1
  /\ form' \in {d \in Declarations : form # None => d.id = form.id}
  /\ UNCHANGED <<grant, session, execution, launched, start, sub, rebind, via>>

DeleteForm ==
  /\ acts > 0 /\ acts' = acts - 1
  /\ form # None
  /\ form' = None
  /\ UNCHANGED <<grant, session, execution, launched, start, sub, rebind, via>>

\* Issue an embed, or publish for the first time.
Issue(p) ==
  /\ acts > 0 /\ acts' = acts - 1
  /\ grant[p] = None /\ form # None
  /\ grant' = [grant EXCEPT ![p] = [to |-> form, enabled |-> TRUE]]
  /\ UNCHANGED <<form, session, execution, launched, start, sub, rebind, via>>

\* Revoke an embed or block the publication.
Disable(p) ==
  /\ acts > 0 /\ acts' = acts - 1
  /\ grant[p] # None
  /\ grant' = [grant EXCEPT ![p].enabled = FALSE]
  /\ UNCHANGED <<form, session, execution, launched, start, sub, rebind, via>>

(* Rotate, publish again or review: the Form is loaded, then the grant; the *)
(* grant is written, and if it named another declaration the sessions of    *)
(* its principal are deleted.                                               *)

RebindForm(r) ==
  /\ rebind[r].at = "idle" /\ form # None
  /\ rebind' = [rebind EXCEPT ![r].at = "grant", ![r].to = form]
  /\ UNCHANGED <<tables, start, sub, via>>

RebindGrant(r) ==
  LET p == rebind[r].who IN
  /\ rebind[r].at = "grant"
  /\ rebind' = IF grant[p] = None \/ (p \in Embeds /\ ~grant[p].enabled)
               THEN [rebind EXCEPT ![r].at = "failed"]
               ELSE [rebind EXCEPT ![r].at = "write", ![r].from = grant[p].to]
  /\ UNCHANGED <<tables, start, sub, via>>

ChangesId(r) == rebind[r].to.id # rebind[r].from.id
Changes(r) == rebind[r].to # rebind[r].from

\* The sessions of p that are not of declaration d outlive this.
Outlive(p, d) ==
  [h \in Handles |-> IF session[h] # None /\ session[h].user = p /\ session[h].under # d
                     THEN [session[h] EXCEPT !.loose = @ \union {"kept"}] ELSE session[h]]

\* A review leaves the grant disabled, a publication enables it.  What to do
\* next was decided by the grant as it was read: when another re-bind wrote in
\* between, nothing need be deleted for this one.
RebindWrite(r) ==
  LET p == rebind[r].who IN
  /\ rebind[r].at = "write"
  /\ \E on \in {grant[p].enabled} \union (IF p \in Publications THEN {TRUE} ELSE {}) :
       grant' = [grant EXCEPT ![p] = [to |-> rebind[r].to, enabled |-> on]]
  /\ rebind' = [rebind EXCEPT ![r].at = IF Changes(r) THEN "invalidate" ELSE "done"]
  /\ session' = IF ~Changes(r) /\ grant[p].to # rebind[r].from THEN Outlive(p, rebind[r].to) ELSE session
  /\ UNCHANGED <<form, acts, execution, launched, start, sub, via>>

Invalidate(r) ==
  /\ rebind[r].at = "invalidate"
  /\ session' = [h \in Handles |-> IF session[h] # None /\ session[h].user = rebind[r].who
                                   THEN None ELSE session[h]]
  /\ rebind' = [rebind EXCEPT ![r].at = "done"]
  /\ UNCHANGED <<form, acts, grant, execution, launched, start, sub, via>>

\* D1 fails the deletion, or the isolate dies before it: the request fails,
\* and a later one finds the grant bound already.
InvalidateFails(r) ==
  /\ rebind[r].at = "invalidate"
  /\ session' = Outlive(rebind[r].who, rebind[r].to)
  /\ rebind' = [rebind EXCEPT ![r].at = "failed"]
  /\ UNCHANGED <<form, acts, grant, execution, launched, start, sub, via>>

RebindFails(r) ==
  /\ rebind[r].at \in {"grant", "write"}
  /\ rebind' = [rebind EXCEPT ![r].at = "failed"]
  /\ UNCHANGED <<tables, start, sub, via>>

-----------------------------------------------------------------------------
(* Starting a session.                                                     *)

\* An outsider's route loads the grant first.
StartGrant(h) ==
  LET p == start[h].who IN
  /\ start[h].at = "idle"
  /\ p \in Externals => grant[p] # None /\ grant[p].enabled
  /\ start' = [start EXCEPT ![h].at = "form", ![h].to = IF p \in Externals THEN grant[p].to ELSE None]
  /\ UNCHANGED <<tables, sub, rebind, via>>

StartForm(h) ==
  /\ start[h].at = "form"
  /\ start' = IF form # None /\ (start[h].who \in Externals => form = start[h].to)
              THEN [start EXCEPT ![h].at = "insert", ![h].under = form]
              ELSE [start EXCEPT ![h].at = "refused"]
  /\ UNCHANGED <<tables, sub, rebind, via>>

\* The providers of the Form have been asked in between.
InsertSession(h) ==
  LET p == start[h].who IN
  /\ start[h].at = "insert"
  /\ session' = [session EXCEPT ![h] =
       [user |-> p, under |-> start[h].under, expired |-> FALSE, used |-> FALSE, claimed |-> None,
        loose |-> IF p \in Externals /\ grant[p].to # start[h].under THEN {"late"} ELSE {}]]
  /\ start' = [start EXCEPT ![h].at = "sweep"]
  /\ UNCHANGED <<form, acts, grant, execution, launched, sub, rebind, via>>

Expired == {h \in Handles : session[h] # None /\ session[h].expired}

\* Best effort, at most SweepLimit rows.
Sweep(h) ==
  /\ start[h].at = "sweep"
  /\ \E swept \in SUBSET Expired :
       /\ swept = {} \/ swept = Expired \/ Cardinality(swept) = SweepLimit
       /\ Cardinality(swept) <= SweepLimit
       /\ session' = [g \in Handles |-> IF g \in swept THEN None ELSE session[g]]
  /\ start' = [start EXCEPT ![h].at = "done"]
  /\ UNCHANGED <<form, acts, grant, execution, launched, sub, rebind, via>>

\* Half an hour passes.
Expire(h) ==
  /\ session[h] # None /\ ~session[h].expired
  /\ session' = [session EXCEPT ![h].expired = TRUE]
  /\ UNCHANGED <<form, acts, grant, execution, launched, start, sub, rebind, via>>

-----------------------------------------------------------------------------
(* Submitting.                                                             *)

Move(s, place) == sub' = [sub EXCEPT ![s].at = place]

Who(s) == sub[s].ask.who
Key(s) == sub[s].ask.key
Id(s)  == <<Who(s), Key(s)>>
Row(s) == session[sub[s].ask.handle]

\* An outsider's route finds the capability by the user of the session, an
\* operator is who he is.  A grant has to be enabled.
Present(s) ==
  LET p == Who(s) IN
  /\ sub[s].at = "idle" /\ start[sub[s].ask.handle].at = "done"
  /\ IF p \in Operators THEN Move(s, "form")
     ELSE IF Row(s) # None /\ Row(s).user = p /\ grant[p] # None /\ grant[p].enabled
     THEN sub' = [sub EXCEPT ![s].at = "form", ![s].to = grant[p].to]
     ELSE Move(s, "stale")
  /\ UNCHANGED <<tables, start, rebind, via>>

LoadForm(s) ==
  /\ sub[s].at = "form"
  /\ sub' = IF form # None /\ (Who(s) \in Externals => form = sub[s].to)
            THEN [sub EXCEPT ![s].at = "peek", ![s].to = form]
            ELSE [sub EXCEPT ![s].at = "stale"]
  /\ UNCHANGED <<tables, start, rebind, via>>

\* A handle its own key has spent is live for that key.
Live(s) ==
  LET row == Row(s) IN
  /\ row # None
  /\ row.user = Who(s)
  /\ row.under.id = sub[s].to.id
  /\ ~(row.used /\ row.claimed \notin {None, Key(s)})
  /\ ~row.expired

\* The values, the files and the input of the Saga are checked after the look.
Peek(s) ==
  /\ sub[s].at = "peek"
  /\ \E place \in IF Live(s) THEN {"reserve", "refused"} ELSE {"stale"} : Move(s, place)
  /\ UNCHANGED <<tables, start, rebind, via>>

ReservePeek(s) ==
  /\ sub[s].at = "reserve"
  /\ Move(s, IF Live(s) THEN "claim" ELSE "stale")
  /\ UNCHANGED <<tables, start, rebind, via>>

TakesUnused(row, k) ==
  /\ row # None
  /\ ~row.used \/ row.claimed = k

Takes(row, k) ==
  /\ row # None
  /\ ~row.used \/ row.claimed = k
  /\ row.claimed \in {None, k}

\* A re-bind to another declaration has written and not yet deleted.
Pending(p, d) == \E r \in Rebinds : rebind[r].at = "invalidate" /\ rebind[r].who = p /\ rebind[r].to # d

\* The dispatch fence.  The reply may be lost after the row has been taken.
Claim(s) ==
  LET h == sub[s].ask.handle
      k == Key(s) IN
  /\ sub[s].at = "claim"
  /\ IF Takes(session[h], k)
     THEN /\ session' = [session EXCEPT ![h].claimed = k]
          /\ \/ sub' = [sub EXCEPT ![s].at = "admit", ![s].under = session[h].under,
                                   ![s].excuses = session[h].loose \union
                                     {e \in {"between"} : Pending(Who(s), session[h].under)}]
             \/ Move(s, "stale")
     ELSE session' = session /\ Move(s, "stale")
  /\ UNCHANGED <<form, acts, grant, execution, launched, start, rebind, via>>

OnwardAtOnce(s, dispatched) ==
  {"refused"} \union IF dispatched THEN {"consume"} ELSE {"launch"}

\* Where an admitted submission goes: policies, budgets and cancellation may
\* refuse to dispatch, and what is deferred or was dispatched before is done.
Onward(s, dispatched) ==
  IF sub[s].ask.input.later THEN {"consume"}
  ELSE {"refused"} \union IF dispatched THEN {"consume"} ELSE {"launch"}

\* One Execution for a user and a key, of one input.
Admit(s) ==
  LET x == Id(s)
      old == execution[x]
      now == IF old = None THEN [input |-> sub[s].ask.input, dispatched |-> FALSE] ELSE old IN
  /\ sub[s].at = "admit"
  /\ execution' = [execution EXCEPT ![x] = now]
  /\ IF now.input = sub[s].ask.input
     THEN /\ via' = [via EXCEPT ![sub[s].ask.handle] = @ \union {Key(s)}]
          /\ \E place \in Onward(s, now.dispatched) :
               sub' = [sub EXCEPT ![s].at = place, ![s].admitted = TRUE]
     ELSE via' = via /\ Move(s, "refused")
  /\ UNCHANGED <<form, acts, grant, session, launched, start, rebind>>

\* createBatch skips an instance it knows; its answer may be lost.
Launch(s) ==
  /\ sub[s].at = "launch"
  /\ \/ /\ launched' = launched \union {Id(s)}
        /\ \E place \in {"mark", "unconfirmed"} : Move(s, place)
     \/ launched' = launched /\ Move(s, "unconfirmed")
  /\ UNCHANGED <<form, acts, grant, session, execution, start, rebind, via>>

Mark(s) ==
  /\ sub[s].at = "mark"
  /\ \/ /\ execution' = [execution EXCEPT ![Id(s)].dispatched = TRUE]
        /\ \E place \in {"consume", "unconfirmed"} : Move(s, place)
     \/ execution' = execution /\ Move(s, "unconfirmed")
  /\ UNCHANGED <<form, acts, grant, session, launched, start, rebind, via>>

ConsumeRethrows == "stale"

\* When a spent, expired or deleted handle cannot be consumed, the submission
\* is accepted if the Execution is its own and the handle bound to its key.
ConsumeStale == "verify"

ConsumePeek(s) ==
  /\ sub[s].at = "consume"
  /\ Move(s, IF Live(s) THEN "spend" ELSE ConsumeStale)
  /\ UNCHANGED <<tables, start, rebind, via>>

Spend(s) ==
  LET h == sub[s].ask.handle
      k == Key(s) IN
  /\ sub[s].at = "spend"
  /\ IF session[h] # None /\ ~session[h].used /\ session[h].claimed \in {None, k}
     THEN /\ session' = [session EXCEPT ![h].used = TRUE, ![h].claimed = k]
          /\ \E place \in {"accepted", ConsumeStale} : Move(s, place)
     ELSE session' = session /\ Move(s, ConsumeStale)
  /\ UNCHANGED <<form, acts, grant, execution, launched, start, rebind, via>>

VerifyOwn(s) ==
  LET h == sub[s].ask.handle
      k == Key(s) IN
  /\ sub[s].at = "verify"
  /\ IF /\ execution[Id(s)] # None /\ execution[Id(s)].input = sub[s].ask.input
        /\ session[h] # None /\ session[h].claimed \in {None, k}
     THEN session' = [session EXCEPT ![h].claimed = k] /\ Move(s, "accepted")
     ELSE session' = session /\ Move(s, "stale")
  /\ UNCHANGED <<form, acts, grant, execution, launched, start, rebind, via>>

\* A statement on form_startups that D1 fails reads as a stale handle.
StorageFails(s) ==
  /\ \/ sub[s].at \in {"peek", "reserve", "claim", "verify"}
        /\ sub' = [sub EXCEPT ![s].at = "stale", ![s].fault = TRUE]
     \/ sub[s].at \in {"consume", "spend"} /\ Move(s, ConsumeStale)
  /\ UNCHANGED <<tables, start, rebind, via>>

\* The isolate dies, or D1 fails the admission.
Die(s) ==
  /\ sub[s].at \in InFlight
  /\ Move(s, "dead")
  /\ UNCHANGED <<tables, start, rebind, via>>

Designer == SaveForm \/ DeleteForm \/ \E p \in Externals : Issue(p) \/ Disable(p)
Rebinder(r) ==
  \/ RebindForm(r) \/ RebindGrant(r) \/ RebindWrite(r) \/ Invalidate(r) \/ InvalidateFails(r) \/ RebindFails(r)
Startup(h) ==
  \/ StartGrant(h) \/ StartForm(h) \/ InsertSession(h) \/ Sweep(h) \/ Expire(h)
Submission(s) ==
  \/ Present(s) \/ LoadForm(s) \/ Peek(s) \/ ReservePeek(s) \/ Claim(s) \/ Admit(s) \/ Launch(s) \/ Mark(s)
  \/ ConsumePeek(s) \/ Spend(s) \/ VerifyOwn(s) \/ StorageFails(s) \/ Die(s)

Next ==
  \/ Designer
  \/ \E r \in Rebinds : Rebinder(r)
  \/ \E h \in Handles : Startup(h)
  \/ \E s \in Submits : Submission(s)

Spec == Init /\ [][Next]_vars

-----------------------------------------------------------------------------
(* Properties.                                                             *)

\* Types, and that nothing but a row of an immediate submission has a Workflow
\* instance: a deferred one waits (index.ts scheduleFormExecution).
TypeOK ==
  /\ form \in Declarations \union {None} /\ acts \in Nat
  /\ grant \in [Externals -> Grants \union {None}]
  /\ session \in [Handles -> Sessions \union {None}]
  /\ execution \in [Principals \X Keys -> Executions \union {None}]
  /\ launched \subseteq {x \in Principals \X Keys : execution[x] # None /\ ~execution[x].input.later}
  /\ start \in [Handles -> [at : StartAt, who : Principals \union {None},
                            to : Declarations \union {None}, under : Declarations \union {None}]]
  /\ sub \in [Submits -> [at : {"idle"} \union InFlight \union Answers, ask : Asks \union {None},
                          to : Declarations \union {None}, under : Declarations \union {None},
                          admitted : BOOLEAN, fault : BOOLEAN, excuses : SUBSET Excuses]]
  /\ rebind \in [Rebinds -> [at : RebindAt, who : Externals \union {None},
                             to : Declarations \union {None}, from : Declarations \union {None}]]
  /\ via \in [Handles -> SUBSET Keys]

\* However submissions race, are retried, expire or fail half way, one handle
\* admits Executions of one key (forms.ts reserveStartupHandle).
OneExecutionPerHandle == \A h \in Handles : \A k, l \in via[h] : k = l

\* An outsider's submission is admitted against the declaration his session
\* was minted under, also when the Form changed and the capability was bound
\* again (invalidateFormSessions).  Excused are a session that was inserted
\* after the re-bind had deleted, one that a re-bind did not delete because D1
\* failed or because another one overtook it, and one reserved between the two
\* statements of a re-bind.
AdmittedUnderOwn ==
  \A s \in Submits : sub[s].at \in Reserved /\ Who(s) \in Externals =>
                       sub[s].to = sub[s].under \/ sub[s].excuses # {}

\* A submission whose Execution was admitted is not answered that its handle
\* is stale, be it a retry, late or overtaken by one of the same key, unless
\* the row was deleted under it or D1 failed (forms.ts consumeAfterAdmission).
AdmittedIsNotStale ==
  \A s \in Submits : sub[s].at = "stale" /\ sub[s].admitted => sub[s].fault \/ Row(s) = None

\* "rotation never revives a pre-change startup handle" (test/embeds.test.ts),
\* for handles that are there when the rotation starts and used after it ends.
NeverRevived ==
  \A s \in Submits : sub[s].at \in Reserved /\ Who(s) \in Externals =>
                       sub[s].to = sub[s].under \/ sub[s].excuses \intersect {"late", "between"} # {}

\* What Forms assumes of submit is what module Executions does: the Execution of
\* a user and a key is a receipt, whichever sessions, retries and deferrals come
\* to it (index.ts runFormSubmit).  It has no cancel and no window here.
Receipt(x) == INSTANCE SubmitReceipt WITH
  state   <- IF execution[x] = None THEN "none"
             ELSE IF execution[x].dispatched THEN "dispatched" ELSE "pending",
  content <- IF execution[x] = None THEN None ELSE execution[x].input

ImplementsReceipts ==
  /\ \A x \in Principals \X Keys : Receipt(x)!Init
  /\ [][\A x \in Principals \X Keys : [Receipt(x)!Next]_(Receipt(x)!vars)]_vars

=============================================================================
