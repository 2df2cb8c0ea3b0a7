# Wrangnarok: a TLA+ verification project

Wrangnarok is a Cloudflare Worker that runs *Sagas* for *Organizations*. Its
durable state is one D1 (SQLite) database, R2 buckets for bytes, and the native
Workflows engine that runs Saga bodies. Every request is a Worker invocation of
its own: there is no lock and no transaction across two `await`s, so the program
defends its invariants with conditional `UPDATE`s, generations, deterministic
IDs and the order of its statements. That is what this project models.

## Inventory

| Part | Source | State | Operations | What is hard | What makes it correct |
|---|---|---|---|---|---|
| Executions | `executions.ts`, `domain.ts`, `saga.ts`, `saga-helpers.ts`, `sagas/*`, `index.ts` | `executions`, `operations` rows, a Workflow instance | submit, prepare, begin/finish operation, terminal checkpoints, owner cancel, repair cancel | replays, ambiguous engine answers, late attempts, a two-phase cancel over two systems | one run per key, one terminal status, an acknowledged cancel sticks |
| Admission and policy | `executions.ts` | `saga_policies` | store policy, admit (pause, limit) | the receipt precedes the count; three routes | the limit is never exceeded |
| Providers | `sync.ts` | the same rows, run inline | `runProvider` | replays of an inline call | the Action runs once per key |
| Children | `children.ts` | rows with a parent | invoke, await, cancel fan-out | a child dispatched while its parent is cancelled | no child outlives a confirmed cancel unseen |
| OAuth tokens | `oauth-tokens.ts`, `oauth.ts`, `oauth-refresh-fence.ts`, `oauth-consent.ts` | `oauth_tokens` | store, replace, refresh, fail, revoke, consent | the vendor's one-time tokens between two D1 statements | one winner per generation, revoked is final |
| Connections | `connections.ts` | mappings, encrypted secrets | upsert, delete | deletion against token writers | nothing orphaned |
| Events | `events.ts` | sources, logs, subscriptions, deliveries | emit, fan out, retry, edit sources and subscriptions | crashes inside a fan-out, replays, rows created again under their old id | what ran is what was logged; a receipt tells the truth |
| Schedules | `schedules.ts` | schedules, deliveries | tick, park, enable, create, delete | overlapping ticks on stale rows, one row that ends a tick | no window skipped, parks earned, due rows settle |
| Endpoints | `endpoints.ts` | endpoint keys, a log | receive, rotate | the Execution comes before its three records | no record of an Execution that was not dispatched |
| Ops | `ops.ts` | audit, notifications, repairs | inspect, repair | repairs race the program they repair | a repair is never worse than what it found |
| Tables | `tables.ts` | rows with revisions | insert, update, batch, changes feed | lost updates, a polled feed that skips | every change is seen once |
| Managed files | `files.ts`, `session-uploads.ts` | rows, policies, capabilities in D1, objects in R2 | slot, PUT, finalize, delete, revoke, clean up | two stores without a transaction, replayed tokens | a ready row has its bytes, a revocation stops uploads |
| Artifacts | `artifacts.ts` | D1 rows and R2 objects | bind, retain, clean up | the same two stores | a readable artifact has its bytes |
| Orgs, roles | `orgs.ts`, `roles.ts`, `access.ts` | memberships, roles | invite, change, delete | the last owner | an Organization keeps an owner |
| Solutions | `solutions.ts` | bundles, a pointer | install, activate | the pointer race | one active bundle |
| Apps | `apps.ts`, `app-runtime.ts` | deploy jobs, slugs, grants | deploy, swap, call | crash between steps of a deploy | a slug always serves a complete build |
| Forms | `forms.ts`, `embeds.ts`, `public-forms.ts` | Forms, sessions, embeds, publications | start, reserve, admit, spend, sweep, rotate, publish, review | racing and retried submits, a declaration that changes under a session | a handle admits one key, under the declaration it was minted for |
| MCP | `mcp-*.ts` | tokens with generations | connect, consent, dispatch | a refresh inside a dispatch | one inline refresh |
| The rest | see `PROJECT.json` | | | | |

A request reaches an Execution through `submit` (HTTP, schedules, events, forms,
MCP), `invokeChild` (a parent's step) or `runProvider` (inline). All three write
the same `executions` row and ask the same `admitExecution`. The engine calls the
Saga body back, which writes its checkpoints to the same row, as do cancels and
repairs. Vendor calls need a token, which the OAuth writers keep. Schedules, event
deliveries, vendor deliveries and Form submissions are clients of `submit` that derive
the key themselves and depend on its replay; Tables and files share only the database.

## Modules

| Module | Models | Checked by |
|---|---|---|
| `ExecutionOutcome` | what an Execution promises: one input, one outcome written once, one acknowledged cancel that decided it | refined by `Executions` |
| `ExecutionRow` | what the admission of other requests may reckon with: how a row moves | refined by `Executions` and by each row of `Admission` |
| `SubmitReceipt` | what the clients of `submit` may rely on: the receipt of a key | refined by `Executions`, the windows of `Schedules`, the keys of `Events` and of `Forms` |
| `Executions` | one Execution: `submit`, owner and repair cancels, the run, engine faults | `MCExecutions_*` |
| `Executions_proofs` | proofs about it | `tlapm` |
| `Admission` | the rows of one Saga on all three routes, the policy and its edits | `MCAdmission_*` |
| `Admission_proofs` | proofs about it | `tlapm` |
| `OAuthTokens` | the token row of one Connection, the vendor, everybody who writes it | `MCOAuthTokens_*` |
| `OAuthTokens_proofs` | proofs about it | `tlapm` |
| `Schedules` | the schedules rows, overlapping Cron ticks, the receipts of their windows, operator edits | `MCSchedules_*` |
| `Schedules_proofs` | proofs about it | `tlapm` |
| `Events` | event sources and their logs, subscriptions, fan-outs, retries, vendor deliveries | `MCEvents_*` |
| `Events_proofs` | proofs about it | `tlapm` |
| `Tables` | one Table name: rows, grants, single and batch writes, the polled feed | `MCTables_*` |
| `Tables_proofs` | proofs about it | `tlapm` |
| `Forms` | one Form name: sessions, submissions, embeds and publications that are bound again | `MCForms_*` |
| `Forms_proofs` | proofs about it | `tlapm` |
| `Files` | one path of one file location, in D1 and R2 | `MCFiles_*` |
| `Files_proofs` | proofs about it | `tlapm` |

### Conventions

* One D1 statement (or `db.batch`), one engine or vendor call is one action.
  What a handler does between two awaits belongs to the action before or after.
* A variable `pc`-like (`sub`, `can`, `rep`, `pc`, `edit`, `at`) says where a request
  is, or what it answered. The guard of an action is that point and the tests the
  code makes; a `WHERE` clause is an `IF` on the row, because a statement that
  matches nothing is still a step.
* **Casts.** `Casts` is the set of scenarios `Init` chooses from: which of the
  requests arrive at all. The others stay `"absent"`. A run can so explore
  several crowds, each small, in one state space. The proofs hold for every set of
  casts, hence for every number of requests at once.
* **History.** A variable or field whose comment says *history* is not in the program. It
  records what a property needs to name: what a log ever held, which requests crossed,
  why a session outlived a re-bind. No guard reads more of it than a row of the code holds.
* Operators whose comment begins with *Mutant* are faulty variants of the
  definition that follows them. They show that a property is sensitive to the code: each
  property is violated when the definition is replaced by its mutant. No
  specification uses them.

### Executions and the code

| Variable | In the code |
|---|---|
| `status`, `started`, `dispatched`, `input` | columns of `executions` |
| `expired` | `RECOVERY_WINDOW_MS` has passed since `created_at` |
| `op` | `operations.status` of the prepare and the vendor Operation |
| `engine`, `run`, `tries`, `late` | the Workflow instance, the point of its body, the attempts it spent, points of abandoned attempts |
| `sub`, `can`, `rep`, `prior` | the requests, and what an owner cancel remembers |

The engine is external and modelled from how the code uses it: `createBatch` skips
a retained ID, `terminate()` may be applied although it failed, a step is retried up
to its limit from its first statement, its timeout does not stop the callback that
timed out (`saga.ts` says the attempt is abandoned), and a settled instance is
forgotten some time after the fifteen-minute window. `EnginePurge` assumes that
no request is so slow that the window is open at its test and the retention
over at its `createBatch`.

### Admission and the code

`row` is the status of every Execution of the Saga, `launched` the IDs whose work
began. Requests insert (`Insert`), read back (`Read`), load the policy, count and
go on; the `UPDATE`s of the run and of the cancels of other requests are four
environment actions (`RunMarks`, `RunEnds`, `CancelMarks`, `CancelEnds`). What they may do is
stated once, in `ExecutionRow`, and it is proved from both sides, see below.

### OAuthTokens and the code

`row` is the token row; `live` the refresh tokens the vendor accepts. A flight (`singleFlight` or the fence object) is
the set of refreshers waiting for one POST. The vendor may rotate or not at every
grant, refuse, or act and not be heard. `refreshPersistedOAuthToken` and
`revokePersistedOAuthToken` are library functions that only tests call at this
commit; `handleOAuthCallback` and `deleteConnection` are routed.

### Schedules and the code

| Variable | In the code |
|---|---|
| `exists`, `enabled`, `due` | the row: `enabled`, `next_due_at` (0 is NULL) |
| `plan` | what only `createSchedule` writes: kind, cron or run-at (as minutes), owner, Saga and `input_json` |
| `mark` | `last_window`: the streak *n* of `quarantine:n`, `QuarantineAfter` for `quarantined`, 0 for a window or NULL |
| `batch`, `job`, `at` | the rows a tick scanned and has not begun, the one it works on, its statement |
| `fresh` | the plan that `promoteWindow` re-read |
| `receipt`, `ranOn` | the `executions` row of a window key (schedule, owner, window), and its Saga and `input_json` |
| `block` | what refuses the submits: a paused policy, a lost authority, a full limit |
| `catalog` | the deployed Sagas; `Scan` passes over the rows of others |
| `astray` | history: a tick has moved `next_due_at` of this row by the plan of an earlier row of the name |

`promoteDueSchedules` is `Scan`, then for each row `Take`, `Fence`, `Authority`, `Insert`,
`Gate`, `Create`, `Record`, `Mark`, `Clear` and `Advance`, one action per statement that
another tick or an operator can come between. A Fault is `Refuse` with its code: skip, skip
and `Accrue`, or end the tick. Time is minutes; `nextCronDue` is the next element of a
plan's set of matching minutes, none within a `Year` being its Fault. `createSchedule` takes any
plan, also under the name, hence the id, of a deleted row that a tick still works on. What is
simplified: the scan is one read (the code asks once per Organization; the fence
re-reads each row anyway); the rows of a batch come in any order; faults of D1 that the
bookkeeping swallows are not separate from its crashes; the receipt of a window is the abstract result of `submit`, whose races are `Executions` and `Admission`.

### Events and the code

| Variable | In the code |
|---|---|
| `source`, `log` | `event_sources` (gone, off, on) and the `events` of each, by event id |
| `sub`, `enabled`, `delivered` | `event_subscriptions` (owner, Saga, filter), and the owner of the Execution an `event_deliveries` receipt names |
| `noted` | `endpoint_events`, the log of the endpoint |
| `exec` | `executions`, by the parts of the derived key: user, target, event |
| `admitted` | history: what each log has held |
| `at`, `carries`, `todo`, `fresh` | where a call is, what it dispatches, its fan-out, the row it re-read |

An emission is `Emit`, `Append`, `Prior` (the content of the row that was there already),
`Scan`, and for each subscriber `Fence`, `Authority`, `Insert`, `Gate`, `Create` and
`Receipt`. A retry enters at `Retry`, `Lookup`, `Count`; a vendor delivery runs its own
Execution first and then writes `Note`, `Observe`, `Copy`, `Announce` and `Publish`, whose
event fans out like any other. An entry of a log is its content and whether it names an
Execution (`execution_id`). Operators may emit any id on any source, the ones the platform
derives for its announcements included: `parseEventId` reserves no prefix. Ids of sources and subscriptions are hashes of their names,
so a row that is created again has the old keys, and that is modelled. What else happens
(edits, deletions, revoked users, a confirmed cancel, the end of the recovery window, an
outage, a crash) is listed in a cast and happens at most once each. Simplified: a content is
its topic and payload, a Saga accepts a set of them; the gate of `submit` is one step,
whose races are `Executions` and `Admission`; a deletion of a source is one batch, as in
the code.

### Tables and the code

`table` is the id of the row of the name, `made` counts the ids there have been, since a
statement that was prepared for a deleted Table names the old one. A write is `Load`,
`Check` (role ceiling and grant rows, one query per action), for an update `Preflight`,
`Peak` (`nextRevision`), for a batch `Preflight` (`preflightExisting`), and `Write`: one
statement or one `db.batch`. `deleteTable` is the three statements it is, and the foreign
keys hold the last one back. A poll is `PollLoad`, `PollCheck`, `PollScan`. Clocks of
isolates are not synchronized (`Times` is what one may say at any time); a statement may
land and its reply be lost. The membership read and the grant query are one step, the items
of a batch are a set of documents (a repetition inside a request is left out), and documents,
cursors and limits of pages are abstract. Enforcement of foreign keys is assumed, as the
migrations declare them.

### Forms and the code

| Variable | In the code |
|---|---|
| `form` | the declaration saved under the name, with its fingerprint |
| `grant` | the rows of `form_embeds` and `form_publications`: bound declaration, enabled |
| `session` | `form_startups`: who, declaration, expiry, `used_at`, the key it is reserved to |
| `execution`, `launched` | the Execution of a user and key, and whether it has an instance |
| `start`, `sub`, `rebind` | startups, submissions, and rotations, publications and reviews |

A submission is `Present`, `LoadForm`, `Peek`, `ReservePeek`, `Claim`, `Admit`, `Launch`, `Mark`,
`ConsumePeek`, `Spend` and `VerifyOwn`, one per statement; a deferred one (`scheduleAt`) is
admitted and not launched. Identity and grant are read in one step. A save after a deletion
may keep the id of the declaration. Expiry comes to a session at any time (one clock, no
skew); a fault of D1 while a handle is read or reserved is answered as a stale handle, as
the catches do. `acts` bounds how often the designer edits. `SweepLimit` is the `LIMIT 100`
of the sweep in the code, 1 in the runs so that a session outlives a sweep.

### Files and the code

A slot request is also its capability and a PUT its bytes. `file` is the `files` row of the
path, `caps` the `file_capabilities` rows, `policy` the rows of `file_policies`, `object` and
`staged` the two kinds of R2 keys. An upload is `Declared`, `Policy`, `SlotLook`,
`SlotInsert`, `SlotMint`; then `PutLoad`, `Policy`, `Consume`, `PutLocation`, `Stage`; then
`Declared`, `Policy`, `FinLook`, `FinFind` (`findStagingKey`: the newest used capability, ties
are possible), `FinGet`, `FinStore`, `FinUnstage`, `FinRecord`, or `Discard` and `Forget` when a claim
is wrong. A deletion is `DelLook`, `DelErase`, `DelRow`; a revocation `AdminLoad`, `RevokeCaps`,
`RevokePolicies`, and the deletion of a location the same and `DropFiles`, `Undeclare`. A request
that dies simply takes no further step: nothing resumes it. Left out: the read policy with
downloads and the shared fallback (they change nothing), the ceiling of viewers, sizes and
content types (what they refuse is the choice in `Declared`, `FinGet` and `PutLocation`). `discardPending` reads
the row and deletes it under its version, merged in `Forget`.

## What the runs show

| Run | Question | Bounds |
|---|---|---|
| `execution_safety` | nine properties of one Execution, among them the refinements of `ExecutionOutcome`, `ExecutionRow` and `SubmitReceipt` | casts: conflicting submits, repeated submits, two owner cancels, an owner cancel with a repair by the owner or by another administrator; one retry per step; one late statement at a time |
| `execution_live` | a launched Execution ends; every marker resolves | one submit, two cancels, a repair; no crash |
| `admission` | the limit, single execution of providers, and that every row moves as `ExecutionRow` says | three routes while the limit is lowered; repeated submits or provider calls while the Saga is paused |
| `oauth_tokens` | six properties of the token row | three refreshers on two flights, a revoker, two consents, two operators, a deletion, in casts of three or four; four tokens |
| `schedules` | no skipped window, earned parks, due rows settle | two overlapping ticks on one schedule while it is deleted and created again with any of five plans of two owners, paused, disabled, denied, cancelled; one tick on two Organizations of which it admits one; three minutes, a streak of two |
| `events_deliveries` | Executions run what was logged; receipts and vendor records are true | nine casts of up to three calls on one event id, operator emissions under the id of an announcement among them, three subscriptions of which a fan-out takes two, two sources; deletions, new rows, skips, crash, outage, cancel |
| `tables_feed` | the feed loses no change; what is reported ok was done | eleven casts of three writers and a subscriber, three documents, pages of one row, clocks that say one of two instants |
| `forms_sessions` | one key per handle, own declaration, no stale answer to who was admitted | seven casts: two handles, three submissions, two keys, two re-binds, four declarations, up to three edits |
| `files_uploads` | one body per token, a revocation stops PUTs, a ready row has its bytes | seven casts of up to six requests on one path, empty or ready at first |

What the properties except is part of what they say. `NoWindowSkipped` excepts a row that a slow
tick advanced or disabled by the plan of an earlier row of its name (`astray`). `RunsAsLogged`
and `ReceiptsAreTrue` except a platform announcement whose id an operator had taken
(`Squatted`). `ReceiptsAreTrue` stops where a row was
created again under a call at work (`torn`): there a receipt can be of the old row.
`FeedComplete` excepts the residual the source admits (a writer overtaken between its stamp
and its commit) and a stamp taken after the highest row was deleted; `OkIsEarned` excepts
documents deleted after the preflight. `AdmittedUnderOwn` names the three ways a
session outlives a re-bind, `RevocationStops` the tokens minted between the two deletes, and
`ReadyHasItsBytes` the requests that crossed between object and row. `HealthyIsLive` stops at the
deletion of the Connection, `ProviderRunsOnce` speaks of keys that are sent to the provider route,
and `NativeSuccessIsRecorded` of runs that no cancel or foreign repair had marked. Each exception was
reached by TLC before it was written; those that contradict a document are listed below.

Why the bounds suffice: every race the code defends against is between two writers
of a row, and a third actor matters only where two of one kind meet one of another
(two cancels and a run, two isolates and a revocation); all of those crowds are casts.
One retry is enough for an attempt to follow an abandoned one; one late
statement can land at every later point. A page of one row ends inside every batch,
two clock readings put a stamp before, at or behind another, two keys make a conflict, and
six requests are two uploads of one path from slot to finalization. The proofs remove these bounds for the
safety properties they cover.

The violation runs are statements of the sources that the code does not keep; each
has a finding in `PROJECT.json`:

| Run | Statement |
|---|---|
| `execution_lost_outcome` | after a roll back "the true terminal outcome can still land" (`index.ts:2872`) |
| `schedules_overdue` | "Overdue rows promote", and of a parked row "The operator re-enables to resume" (`schedules.ts:667`, `681`) |
| `forms_revived` | a rotation that cannot invalidate "fails rather than healing the grant while leaving old handles live" (`forms.ts:2003`), "rotation never revives a pre-change startup handle" (`test/embeds.test.ts:610`) |

Further disagreements were met while modelling and have no run of their own.

* Executions. An ambiguous cancel "rolls back Cancelling to the prior active status"
  (`index.ts:2812`), but that status was read before the marker (`2834`) and can be older. The
  repair does "Mark Cancelling, then confirm" (`ops.ts:1198`); `index.ts:3576` marks by id and then
  re-reads under the owner's scope, so for another owner's Execution it answers 404 and leaves the
  marker. A crash between marker and resolution leaves `Cancelling`, which `domain.ts:355`
  calls transient (`CancellingResolves` is checked without crashes for that reason).
* Admission. Under a limit of 1 a first Execution "still dispatches" (`executions.ts:272`): two at
  once refuse each other, and a refused Pending receipt goes on occupying the limit. `PROVIDER_IN_FLIGHT` means a
  "call is still in flight" (`sync.ts:198`): it is also the answer when that call was refused
  or died. `storeSagaPolicy` says its version bumps on every write (`executions.ts:139`); two
  racing edits can both write the same one.
* OAuth. The one-time token "is submitted exactly once" (`oauth.ts:488`): a crash before the row
  is replaced, or a second isolate without the fence, submits it again. `oauth.ts:481-485` and the title
  of the test at `test/oauth-tokens.test.ts:582` say a token of a vendor that does not rotate
  is kept; `replaceOAuthToken` stores none, and the same test pins that at line 606.
* Schedules. `docs/sdk.md:68` says that enabling a schedule recomputes its due index;
  `setScheduleEnabled` changes `enabled` only. `schedules.ts:25` says disabled schedules never
  promote; a disable between the re-read and the submit does not stop the promotion. Overdue rows are
  "never silently skipped" (`schedules.ts:667`): a tick that is still at work on a deleted row ends with
  `UPDATE ... WHERE id = ?` (`804-814`), and a row created under the name meanwhile, with another cron or
  kind, has its `next_due_at` moved past windows nobody ran, or is disabled unrun.
* Events. "One event never dispatches more than the bound" (`events.ts:1012`, `917`): the first
  `EVENT_FANOUT_LIMIT` subscribers change when a subscription is edited, so a replay dispatches to others, and two retries
  that count at once both pass. An announcement "replays the
  same `evt-` keys like every other re-emit" (`events.ts:1115`): every other emission compares its content with the log's,
  but `recordPlatformEvent` does not. Operators may emit on the platform topics (`47`) under any safe id (`116`), and
  where one has logged an event under the id of an announcement the log keeps it and the announcement is dispatched.
* Tables. A lost race "fails the whole request" (`tables.ts:882`): an update, upsert or deletion of a row
  that went away between preflight and batch matches nothing and is answered ok. Stamps are
  "strictly increasing" (`tables.ts:844`, ADR 045): not after the row with the highest one was deleted.
* Forms. Stale handles "dispatch nothing" (`forms.ts:1877`, `index.ts:2504`): a submission whose row was swept
  or invalidated after its reservation has dispatched and is answered `STALE_FORM_HANDLE`.
* Files. `deleteFile` is "version/conflict-aware" (`files.ts:887`): it erases the object before its
  fenced DELETE of the row, so a finalization in between leaves a ready row without bytes. `finalizeUpload`
  "fences the version" (`files.ts:789`), but its UPDATE names the path alone: two may report
  the same version. ADR 036 says of a revocation "There is no grace window"
  (`docs/architecture/036-managed-files.md:56`): a slot that looked at the policy in time
  can mint between the two deletes, and a PUT that looked in time is accepted with it afterwards.

Code that is exposed to something the models do not reach: an inline provider call that dies
after its mark leaves a Running row (`sync.ts:225`); the flight key names the token URL, the
tenant and the scope, not the Connection (`oauth.ts:506`); a non-rotating vendor that answers without a refresh token
(`oauth-tokens.ts:405`); an instance that vanished after dispatch is never confirmed by an owner cancel (`executions.ts:699`);
the deletion of a Connection relies on the foreign key of its tokens (`connections.ts:440`).

### Fairness

`FairSpec` of `Executions` assumes weak fairness of the run body (the engine keeps
driving a live instance: that is what a durable Workflow is) and of each cancel and
repair once it has begun (the runtime keeps driving an accepted request). No
client has to send a request, no late statement has to land, no fault has to
happen. The liveness run has no crashes: a killed invocation is not resumed by
anything in the code. `LaunchedEnds` names its exceptions: a
rolled-back cancel can lose the outcome (a finding), and an instance that failed
outside its own catch is visible in the engine only.

`FairSpec` of `Schedules` assumes that the clock goes on, that a live tick is driven on, and
that Cron fires infinitely often in each residue of the minute that the rotation uses
(strong fairness per residue: a trigger once a minute does that; one that only fired
in even minutes would starve an Organization). The clock stays at its last minute while its
phase turns on. `DueSettles` names what may keep a due row waiting: a row that is
skipped without accruing, an Organization whose whole share is such rows, and a row that
ends every tick. The code has no remedy for any of the three.

## What is proved

`tlapm` checks the following for every number of requests, Executions, retries,
limits and casts, from the named assumptions on the constants only.

**Executions.** `TypeCorrect` (types). `CancelSafe` proves the strengthening `CancelInv`:
owner cancels or repairs between marker and resolution imply `Cancelling` and are at most
one, and an acknowledged cancel implies `Cancelled`. It is needed because neither
`CancelOwnership` nor `AckedCancelSticks` is inductive alone: that an
acknowledgement is final depends on the marker being held when it was decided.
`OneCancelOwner` and `AckedCancelsStick` follow. `AcceptedInput` uses `SubmitInv` (a
submit past its read carries the input of the row), `OneRun` uses `LaunchInv` (an
instance that vanished was launched once and the window is over), `SuccessBacked` uses
`BackedInv` (the vendor Operation is Succeeded from `v.finish` on, and no late statement
reopens it), `TerminalIsForever` is an action property. `ConfirmedCancelStops` uses `StopInv`:
from the engine's answer that confirms a cancel on, a live instance was launched later and
finds the row marked, so it goes from its first read to the failure checkpoint.
`NativeSuccessRecorded` uses `RecordedInv`, where the row is at each point of a run nobody
cancelled. `RunsEnd` bounds the run: `Effort`, a number, falls with each of its steps, for any
retry limits. That is the safety kernel of `LaunchedEnds`; that the engine takes
the steps is fairness.

Three refinements: `Implementation` (`ExecutionOutcome`, for whoever asks for an outcome),
`RowImplemented` (`ExecutionRow`, for admission) and `ReceiptImplemented` (`SubmitReceipt`, for
the clients of `submit`); `PromisesKept` is the last two together. `RowInv` says that what is
past Pending, or about to be stamped or rolled back to Running, has a launch behind it.
They are what lets the other modules speak of Executions they do not look into:

| Abstract module | Implemented by, in detail | Assumed, and kept, by |
|---|---|---|
| `ExecutionRow` | `Executions` (`RowImplemented`) | each row of `Admission` (`RowsImplemented`) |
| `SubmitReceipt` | `Executions` (`ReceiptImplemented`) | each window of `Schedules` (`WindowsAreReceipts`), each key of `Events` (`KeysAreReceipts`) and of `Forms` (`SubmissionsAreReceipts`) |

So a coarse model of `submit` that did what the fine one never does (a receipt that changes its
content, forgets that it was dispatched or comes back after a cancel) would fail its own
theorem. The other half of the argument is read, not proved: that a coarse module lets a
row do everything the abstract one allows. In `Admission` the four environment actions are those
of `ExecutionRow`; in `Schedules` and `Events` expiry and a confirmed cancel are actions, bounded by their
casts; `Forms` has neither.

**Admission.** `AdmissionBound` proves `LimitInv`: `Holding`, the rows that are admitted
and active, is at most `MaxLimit`. The argument is about order: a row is inserted before
its own gate counts, so at the moment the gate passes every other holder is in the
counted set. `CancelledStays` is the action property of Cancelled rows. `ProviderOnce` uses
`OnceInv`: one request creates the row of a key, only it may mark the row, and until it does
nothing started the work of a key that is sent to the provider route only. `RowsImplemented` needs
`WorkInv` (who stamps, or ends inline, has started the work).

**OAuthTokens.** `FailuresAreCounted` proves `CountInv`: within a generation the count only
grows, so a failure write that finds the count of its load finds the count of its re-read
too, and adds one to the set of refreshers that failed. `HealthyLive` joins three
invariants: tokens are numbered as issued (`TokenInv`), a healthy row counts no failure, so that a
refused refresher never loses its write to it (`CleanInv`), and a token on its way to the row is
live and nobody else's (`FreshInv`). Proving it showed that it does not hold between the two
statements of a deletion; TLC found that state once asked, and the property names it now.
`RevokedTerminal` needs that a refresher at work has loaded a healthy row
(`HealthyLoad`). `OneWinner` proves `WinnerInv`: until a deletion, generations only grow, so
the row is beyond every winner's load. `RevokedConfirmed` ties a revoker's loaded access
token to the row of its generation.

**Schedules.** `NoWindowLost` proves `SkipInv`. A row that a tick holds was due when it was
scanned; either it is the present row, and every window before the held one is settled, or
the present row is younger than the held window (`HeldOK`, `Passed`). It stays so because
receipts stay settled and a creation happens now (`Onward`). Past `Gate` the window of the job
is settled for what the fence re-read (`Done`), which is what the present row would run. So the
unfenced `UPDATE` of a slow tick can move `next_due_at` back, and past an open window only on
a row of another plan, which is then `astray`. `ParksEarned` proves `ParkInv`: no
streak, on a row or read by any tick, exceeds the refusals of the row so far, and a tick
about to accrue has counted its own. `RotationReaches` is the safety kernel of `DueSettles`: a
due Organization is admitted in the minute whose phase is its rank, however many are due. It rests on
`Ranks` and `Rotated` (a rotated rank is a residue, and two Organizations never share
one), from which `AdmittedBound` and `TicksBounded` follow: a tick works for `MaxOrgs`
Organizations and `PerOrg` rows of each, whatever happens to the rows meanwhile (`ShareInv`).
`WindowsAreReceipts` needs that a tick past its INSERT has a receipt (`InsertedInv`).

**Events.** One inductive invariant, `IInv`, holds all three. It says of every call what the
rows guarantee at its place (`CallOK`): the content it dispatches has been in the log of its
source or is squatted (`MayDispatch`), the Execution of its key has its Saga and content
(past `Gate`), it ran (at `Receipt`, `Note` and later). Nothing is assumed of what operators emit.
What a call holds of logs and subscriptions (`CallTrue`) holds until `torn`; `RunsAsLogged` and `VendorRecordsAreTrue` do without it, because Executions and `admitted` are never deleted.
`FanoutsBounded` proves that one call submits for at most `Limit` subscribers, in order and once
each (`FanoutInv`); its arithmetic is `FirstOnesBound`: the first ones of any finite group are
at most `Limit`. `KeysAreReceipts` uses what `IInv` says of calls past their INSERT.

**Tables.** `FeedLosesNothing` proves `FeedInv`: the stamps of rows and of tokens of the live Table are at
most `high`, a stamp that was not overtaken is above it (`Stamps`), and an unbound
token is where its subscriber began (`Positions`). So a write lands beyond every token, or is in
`late`. `OkEarned` proves `EarnInv`: what a preflight found is there at the write, or in `gone`.

**Forms.** `TypeInv` ties each place of a request to what it has read and to its admitted
Execution. `HandleAdmitsOnce` and `AdmittedIsAnswered` follow from `FenceInv`: a reserved row
is never released and never unreserved, so whoever holds a handle has the key of the row, or the
row is gone for good. `AdmissionKeepsDeclaration` proves `BindInv`: a row of an outsider is minted
under what its capability is bound to, or is excused (`Minted`), and so is what a submission
has compared (`Presented`). `SubmissionsAreReceipts` needs of `TypeInv` that whoever marks an Execution
dispatched has admitted it.

**Files.** `RevokedIsRevoked` uses `WithdrawInv`: from the deletion of the capabilities on,
an open token is in `raced` (`Left`). `TokensWorkOnce` uses `TokenInv`: a PUT that was accepted has
used its slot's row, which no action opens again (`Holds`). `ReadyIsBacked` uses `BytesInv`: until
requests cross, at most one is between object and row (`Alone`), and the object is what it
has verified (`Verified`).

Some theorems state definitions that no run lists. `TerminalForever`, `AcceptedRunsMyInput` and
`CancelledNeverMarks` follow from refinements that runs check; `RunNeverCircles`, `TicksAreBounded`, `FanoutsAreBounded` and the `ImplementsReceipts` of `Schedules`,
`Events` and `Forms` stand in the modules beside the others. TLC agrees with each on the instance of its
module's run; one line in the `.cfg` checks it again.

Left to TLC: liveness, `LaunchedEnds`, `CancellingResolves` and `DueSettles`, on the instances above
only, because the fairness arguments need ENABLED. Every safety property of a passing run
is a theorem. `CancellingResolves` also supposes that repairs are the owner's: another
administrator's leaves its marker (above). Inductive facts about recursive data and RECURSIVE
operators cannot be proved with the installed backends; no module with proofs uses one.

An abstraction of `SubmitReceipt` to know: while a row is Cancelling, `submit` answers
`EXECUTION_CANCELLED` as for a Cancelled one (`executions.ts:388`); `SubmitReceipt` counts it as what it was before,
which a roll back restores, and its clients skip it for that turn.

## What is not modelled, and why

* Reads and projections (history, logs, secrets in views, downloads, lists): they change nothing.
* Encryption, token formats, signatures, schemas, parsers of values and topics: pure functions
  whose results the models only tell apart as "the same", "another" or "refused".
* Time, except as the closing of windows, the stamps of Tables and the order of slots.
* Two Connections that share a token URL: the flight key does not name the
  Connection, the model has one Connection per token endpoint.
* More than one row of a kind where rows share nothing: one Table name, one Form name, one
  path of one location, one token row. Their statements all name the row.
* The parts marked `not_modelled` in `PROJECT.json`, each with its reason.

Most of the 77,000 lines of the implementation are not state machines: the SDK contract, the
client, the CLI scripts and code generators, the routes' validation and rendering, and one-call
vendor integrations. The definitions here stand for the statements that decide; they cover a small
share of the lines and most of the places where two requests can meet.

## Plan

1. Done: `Executions`, `ExecutionOutcome`, `Admission`, `OAuthTokens`, `Schedules`, `Events`,
   `Tables`, `Forms`, `Files` and their proofs.
2. `Artifacts`: attachment bindings and retention over two stores, next to `Files`.
3. `Apps` and `Solutions`: deploy jobs, slug swap, fenced bundle pointer, crashes between
   steps.
4. `Children`: fan-out of a cancel over `Executions`, the await of a result.
5. `Orgs` (last owner), `MCP` tokens with their one inline refresh.
6. The cron matcher of `Schedules` as a function against a reference definition (its day of
   month and weekday are a conjunction, unlike other crons).

Each gets a type invariant, one or two properties per hazard listed in `PROJECT.json`, a
run whose casts cover its races, and proofs of type and of the safety property that
relates the most state.
