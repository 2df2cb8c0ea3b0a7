----------------------------- MODULE Executions -----------------------------
(***************************************************************************)
(* One Execution: its D1 row, its vendor Operation row, the native         *)
(* Workflow instance that runs it, and every request that touches it.      *)
(*                                                                         *)
(*   submit requests   src/executions.ts submit: insert the receipt, gate, *)
(*                     createBatch, stamp dispatched                       *)
(*   owner cancels     src/index.ts POST /api/executions/:id/cancel: mark, *)
(*                     terminate, confirm or roll back                     *)
(*   repair cancels    src/index.ts ops repair: mark, best-effort          *)
(*                     terminate, confirm                                  *)
(*   the run           the canonical Saga body (src/sagas/echo.ts) over    *)
(*                     prepareExecution, integrationOperation and the two  *)
(*                     terminal checkpoints                                *)
(*                                                                         *)
(* Requests are Worker invocations: no lock and no transaction spans two   *)
(* awaits, so each D1 statement (or db.batch) and each engine call is an   *)
(* action and everything interleaves between them.  A request can die      *)
(* between two awaits, a step attempt can fail after its statement was     *)
(* issued, and a statement issued by an abandoned attempt can land late.   *)
(***************************************************************************)
EXTENDS Naturals, FiniteSets

CONSTANTS
  Submitters,         \* submit requests that carry this Execution's key
  Cancellers,         \* owner cancel requests
  Repairers,          \* ops repair cancel requests
  Casts,              \* sets of requests: those of one of them arrive together
  ForeignRepairers,   \* those whose admin does not own the Execution
  InputOf,            \* InputOf[s]: the input submit request s carries
  CheckpointRetries,  \* policy.retry.checkpointRetries
  VendorRetries,      \* policy.retry.vendorRetries
  MaxLate,            \* bound on the statements that are late at once
  Crashes,            \* may a request die between two awaits?
  StepFaults          \* may a step attempt or an engine call fail?

ASSUME ConstantsAssumption ==
  /\ ForeignRepairers \subseteq Repairers
  /\ CheckpointRetries \in 0..2
  /\ VendorRetries \in 0..2
  /\ MaxLate \in Nat
  /\ Crashes \in BOOLEAN
  /\ StepFaults \in BOOLEAN

Active    == {"Pending", "Running"}
Terminal  == {"Succeeded", "Failed", "TimedOut", "Cancelled"}
Statuses  == {"None", "Cancelling"} \union Active \union Terminal
OpNames   == {"prepare", "vendor"}
OpStatus  == {"none", "Running", "Succeeded", "Failed"}
Inputs    == {InputOf[s] : s \in Submitters}
NoInput   == "no input"

\* The points of the run, named by the step (p: prepare-input-v1, v: the
\* vendor step; ok, reject and fail: the checkpoints of success, of the
\* expected-failure branch and of the catch) and the statement it is at.
PreparePoints == {"p.read", "p.mark", "p.begin", "p.finish"}
VendorPoints  == {"v.begin", "v.call", "v.finish"}
Checkpoints   == {"ok", "reject", "fail"}
Points        == PreparePoints \union VendorPoints \union Checkpoints

SubmitStates == {"absent", "idle", "read", "gate", "create", "stamp",
                 "accepted", "conflict", "refused", "unconfirmed", "dead"}
CancelStates == {"absent", "idle", "mark", "terminate", "confirm", "rollback",
                 "cancelled", "unconfirmed", "refused", "dead"}
RepairStates == {"absent", "idle", "terminate", "confirm", "cancelled", "refused", "dead"}
Engines      == {"absent", "live", "complete", "errored", "terminated"}

VARIABLES
  status,      \* executions.status, "None" before the row exists
  started,     \* executions.started_at is set
  dispatched,  \* executions.dispatched
  input,       \* executions.input_json
  expired,     \* RECOVERY_WINDOW_MS has passed since created_at
  op,          \* operations.status of the two Operation rows
  engine,      \* the native Workflow instance
  launches,    \* history: how often the engine created the instance
  run,         \* where the instance's run body is
  tries,       \* retries the engine spent on the current step
  failure,     \* the terminal the expected-failure checkpoint will write
  late,        \* points of abandoned attempts that may still execute
  sub, can, rep,  \* where each request is
  prior        \* what an owner cancel read before it wrote its marker

row      == <<status, started, dispatched, input, expired>>
instance == <<engine, launches, run, tries, failure, late>>
requests == <<sub, can, rep, prior>>
vars     == <<row, op, instance, requests>>

(***************************************************************************)
(* D1 statements.  Each is one UPDATE or batch: its WHERE clause is the    *)
(* condition, a row it does not match is left alone.                       *)
(***************************************************************************)
\* Mutants of the statements: what a dropped or misplaced WHERE would do.
MarkRunningSkipped == UNCHANGED <<status, started, op>>
BeginOperationUnfenced(name) ==
  op' = [op EXCEPT ![name] = "Running"] /\ UNCHANGED <<status, started>>
PersistRunSuccessUnfenced == status' = "Succeeded" /\ UNCHANGED <<started, op>>
FailExecutionUnfenced(terminal) ==
  /\ status' = terminal
  /\ op' = [name \in OpNames |-> IF op[name] = "Running" THEN "Failed" ELSE op[name]]
  /\ UNCHANGED started
CancelExecutionActiveOnly ==
  /\ status' = IF status \in Active THEN "Cancelled" ELSE status
  /\ op' = [name \in OpNames |-> IF op[name] = "Running" THEN "Failed" ELSE op[name]]
  /\ UNCHANGED started

\* prepareExecution: Pending -> Running, started_at coalesced
MarkRunning ==
  /\ status' = IF status = "Pending" THEN "Running" ELSE status
  /\ started' = (started \/ status = "Pending")
  /\ UNCHANGED op

\* beginOperation: INSERT, or reset a row that is still Running
BeginOperation(name) ==
  /\ op' = [op EXCEPT ![name] = IF @ \in {"none", "Running"} THEN "Running" ELSE @]
  /\ UNCHANGED <<status, started>>

\* finishOperation: only a Running row succeeds
FinishOperation(name) ==
  /\ op' = [op EXCEPT ![name] = IF @ = "Running" THEN "Succeeded" ELSE @]
  /\ UNCHANGED <<status, started>>

\* the first statement of both batches: every Running Operation fails
OpsFailed == [name \in OpNames |-> IF op[name] = "Running" THEN "Failed" ELSE op[name]]

PersistRunSuccess ==
  /\ status' = IF status = "Running" THEN "Succeeded" ELSE status
  /\ UNCHANGED <<started, op>>

FailExecution(terminal) ==
  /\ status' = IF status \in Active THEN terminal ELSE status
  /\ op' = OpsFailed
  /\ UNCHANGED started

CancelExecution ==
  /\ status' = IF status = "Cancelling" THEN "Cancelled" ELSE status
  /\ op' = OpsFailed
  /\ UNCHANGED started

\* the statement a step executes at point p
D1Statement(p) ==
  \/ p = "p.mark"   /\ MarkRunning
  \/ p = "p.begin"  /\ BeginOperation("prepare")
  \/ p = "p.finish" /\ FinishOperation("prepare")
  \/ p = "v.begin"  /\ BeginOperation("vendor")
  \/ p = "v.finish" /\ FinishOperation("vendor")
  \/ p = "ok"       /\ PersistRunSuccess
  \/ p = "reject"   /\ FailExecution(failure)
  \/ p = "fail"     /\ FailExecution("Failed")

(***************************************************************************)
(* Initial state: no row, no instance, no request yet.  Which requests     *)
(* will be sent is open: the requests of one cast, none of the others.     *)
(***************************************************************************)
Arrives(sent, cast) == [q \in sent |-> IF q \in cast THEN "idle" ELSE "absent"]

Init ==
  /\ status = "None" /\ started = FALSE /\ dispatched = FALSE
  /\ input = NoInput /\ expired = FALSE
  /\ op = [name \in OpNames |-> "none"]
  /\ engine = "absent" /\ launches = 0 /\ run = "p.read" /\ tries = 0
  /\ failure = "Failed" /\ late = {}
  /\ \E cast \in Casts :
       /\ sub = Arrives(Submitters, cast)
       /\ can = Arrives(Cancellers, cast)
       /\ rep = Arrives(Repairers, cast)
  /\ prior = [c \in Cancellers |-> [status |-> "Pending", dispatched |-> FALSE]]

(***************************************************************************)
(* submit                                                                  *)
(***************************************************************************)
\* INSERT ... ON CONFLICT(id) DO NOTHING
SubmitInsert(s) ==
  /\ sub[s] = "idle"
  /\ sub' = [sub EXCEPT ![s] = "read"]
  /\ IF status = "None"
     THEN status' = "Pending" /\ input' = InputOf[s]
     ELSE UNCHANGED <<status, input>>
  /\ UNCHANGED <<started, dispatched, expired, op, instance, can, rep, prior>>

\* Mutants of the submit path: the conflict test or the window left out.
SubmitReadNoConflict(s) ==
  /\ sub[s] = "read"
  /\ sub' = [sub EXCEPT ![s] =
       IF status \in {"Cancelling", "Cancelled"} THEN "refused"
       ELSE IF dispatched THEN "accepted" ELSE "gate"]
  /\ UNCHANGED <<row, op, instance, can, rep, prior>>
SubmitGateNoWindow(s) ==
  /\ sub[s] = "gate"
  /\ sub' = [sub EXCEPT ![s] = "create"]
  /\ UNCHANGED <<row, op, instance, can, rep, prior>>

\* visibleExecution, then the conflict, cancelled and dispatched tests on the row
SubmitRead(s) ==
  /\ sub[s] = "read"
  /\ sub' = [sub EXCEPT ![s] =
       IF input # InputOf[s] THEN "conflict"
       ELSE IF status \in {"Cancelling", "Cancelled"} THEN "refused"
       ELSE IF dispatched THEN "accepted"
       ELSE "gate"]
  /\ UNCHANGED <<row, op, instance, can, rep, prior>>

\* admitExecution (its decision is any: module Admission has it), then the
\* same-revision 15-minute window
SubmitGate(s) ==
  /\ sub[s] = "gate"
  /\ \/ sub' = [sub EXCEPT ![s] = "refused"]
     \/ ~expired /\ sub' = [sub EXCEPT ![s] = "create"]
  /\ UNCHANGED <<row, op, instance, can, rep, prior>>

\* createBatch skips a retained instance ID; the engine starts a new one
Launch ==
  IF engine = "absent"
  THEN /\ engine' = "live" /\ launches' = launches + 1
       /\ run' = "p.read" /\ tries' = 0
       /\ UNCHANGED <<failure, late>>
  ELSE UNCHANGED instance

\* createBatch answers, or fails before or after it took effect (503)
SubmitCreate(s) ==
  /\ sub[s] = "create"
  /\ \/ Launch /\ sub' = [sub EXCEPT ![s] = "stamp"]
     \/ /\ StepFaults
        /\ Launch \/ UNCHANGED instance
        /\ sub' = [sub EXCEPT ![s] = "unconfirmed"]
  /\ UNCHANGED <<row, op, can, rep, prior>>

\* UPDATE executions SET dispatched = 1; a failure here is a 503 as well
SubmitStamp(s) ==
  /\ sub[s] = "stamp"
  /\ \/ dispatched' = TRUE /\ sub' = [sub EXCEPT ![s] = "accepted"]
     \/ StepFaults /\ UNCHANGED dispatched /\ sub' = [sub EXCEPT ![s] = "unconfirmed"]
  /\ UNCHANGED <<status, started, input, expired, op, instance, can, rep, prior>>

(***************************************************************************)
(* The native engine's terminate(), and how the code classifies it.        *)
(***************************************************************************)
\* p stays possible in an abandoned callback, or it dies with its attempt
Abandon(p) ==
  \/ late' = late
  \/ Cardinality(late \union {p}) <= MaxLate /\ late' = late \union {p}

StopInstance ==
  /\ engine = "live"
  /\ engine' = "terminated"
  /\ Abandon(run)
  /\ UNCHANGED <<launches, run, tries, failure>>

\* classifyTerminateError: a failed control call is ambiguous whether or not
\* the engine applied it
Terminate(outcome) ==
  \/ outcome = "stopped" /\ StopInstance
  \/ outcome = "already-settled" /\ engine \in {"complete", "errored", "terminated"}
     /\ UNCHANGED instance
  \/ outcome = "not-found" /\ engine = "absent" /\ UNCHANGED instance
  \/ outcome = "ambiguous" /\ StepFaults /\ (StopInstance \/ UNCHANGED instance)

TerminateOutcomes == {"stopped", "already-settled", "not-found", "ambiguous"}

\* Mutant: any answer of the engine confirms (the contract before RUN-04).
ShouldConfirmCancelAlways(outcome, before) ==
  outcome \in {"stopped", "already-settled", "not-found", "ambiguous"}

ShouldConfirmCancel(outcome, before) ==
  \/ outcome \in {"stopped", "already-settled"}
  \/ outcome = "not-found" /\ before.status = "Pending" /\ ~before.dispatched

(***************************************************************************)
(* Owner cancel                                                            *)
(***************************************************************************)
\* Mutants of the owner cancel: no canTransition test, no fence on the marker,
\* no compensating write.
CancelReadAnyStatus(c) ==
  /\ can[c] = "idle" /\ status # "None"
  /\ can' = [can EXCEPT ![c] = "mark"]
  /\ prior' = [prior EXCEPT ![c] = [status |-> status, dispatched |-> dispatched]]
  /\ UNCHANGED <<row, op, instance, sub, rep>>
CancelMarkUnfenced(c) ==
  /\ can[c] = "mark"
  /\ status' = "Cancelling" /\ can' = [can EXCEPT ![c] = "terminate"]
  /\ UNCHANGED <<started, dispatched, input, expired, op, instance, sub, rep, prior>>
CancelRollbackSkipped(c) ==
  /\ can[c] = "rollback"
  /\ can' = [can EXCEPT ![c] = "unconfirmed"]
  /\ UNCHANGED <<row, op, instance, sub, rep, prior>>

\* visibleExecution and canTransition(row.status, "Cancelling")
CancelRead(c) ==
  /\ can[c] = "idle" /\ status # "None"
  /\ IF status \in Active
     THEN /\ can' = [can EXCEPT ![c] = "mark"]
          /\ prior' = [prior EXCEPT ![c] = [status |-> status, dispatched |-> dispatched]]
     ELSE can' = [can EXCEPT ![c] = "refused"] /\ UNCHANGED prior
  /\ UNCHANGED <<row, op, instance, sub, rep>>

\* UPDATE ... SET status='Cancelling' WHERE status IN ('Pending','Running');
\* the loser answers cancelled:false or 409
CancelMark(c) ==
  /\ can[c] = "mark"
  /\ IF status \in Active
     THEN status' = "Cancelling" /\ can' = [can EXCEPT ![c] = "terminate"]
     ELSE UNCHANGED status /\ can' = [can EXCEPT ![c] = "refused"]
  /\ UNCHANGED <<started, dispatched, input, expired, op, instance, sub, rep, prior>>

CancelTerminate(c) ==
  /\ can[c] = "terminate"
  /\ \E outcome \in TerminateOutcomes :
       /\ Terminate(outcome)
       /\ can' = [can EXCEPT ![c] =
            IF ShouldConfirmCancel(outcome, prior[c]) THEN "confirm" ELSE "rollback"]
  /\ UNCHANGED <<row, op, sub, rep, prior>>

CancelConfirm(c) ==
  /\ can[c] = "confirm"
  /\ CancelExecution
  /\ can' = [can EXCEPT ![c] = "cancelled"]
  /\ UNCHANGED <<dispatched, input, expired, instance, sub, rep, prior>>

\* UPDATE ... SET status=priorStatus WHERE status='Cancelling', then 503
CancelRollback(c) ==
  /\ can[c] = "rollback"
  /\ status' = IF status = "Cancelling" THEN prior[c].status ELSE status
  /\ can' = [can EXCEPT ![c] = "unconfirmed"]
  /\ UNCHANGED <<started, dispatched, input, expired, op, instance, sub, rep, prior>>

(***************************************************************************)
(* Repair cancel.  inspectRepair admits any Execution of the Organization; *)
(* the marker carries the ID alone, and only the re-read after it is       *)
(* scoped to the admin's own rows: for another user's row it throws 404.   *)
(***************************************************************************)
RepairMark(r) ==
  /\ rep[r] = "idle" /\ status # "None"
  /\ IF status \in Active
     THEN /\ status' = "Cancelling"
          /\ rep' = [rep EXCEPT ![r] =
               IF r \in ForeignRepairers THEN "refused" ELSE "terminate"]
     ELSE UNCHANGED status /\ rep' = [rep EXCEPT ![r] = "refused"]
  /\ UNCHANGED <<started, dispatched, input, expired, op, instance, sub, can, prior>>

\* every error of terminate() is swallowed
RepairTerminate(r) ==
  /\ rep[r] = "terminate"
  /\ \E outcome \in TerminateOutcomes : Terminate(outcome)
  /\ rep' = [rep EXCEPT ![r] = "confirm"]
  /\ UNCHANGED <<row, op, sub, can, prior>>

RepairConfirm(r) ==
  /\ rep[r] = "confirm"
  /\ CancelExecution
  /\ rep' = [rep EXCEPT ![r] = "cancelled"]
  /\ UNCHANGED <<dispatched, input, expired, instance, sub, can, prior>>

(***************************************************************************)
(* The run.  A step is a sequence of points; the engine memoizes a step    *)
(* when its last point is done, and retries it from its first point when   *)
(* an attempt fails, up to the step's limit.                               *)
(***************************************************************************)
StepOf(p) == IF p \in PreparePoints THEN "prepare-input-v1"
             ELSE IF p \in VendorPoints THEN "vendor" ELSE p

FirstPoint(p) == IF p \in PreparePoints THEN "p.read"
                 ELSE IF p \in VendorPoints THEN "v.begin" ELSE p

\* retryLimitForStep: only the D1 checkpoints retry by default
RetryLimitForStep(p) == IF p \in VendorPoints THEN VendorRetries ELSE CheckpointRetries

\* the point after a statement of the run, up to the success checkpoint
NextPoint ==
  [p \in {"p.mark", "p.begin", "p.finish", "v.begin", "v.finish"} |->
     CASE p = "p.mark"   -> "p.begin"
       [] p = "p.begin"  -> "p.finish"
       [] p = "p.finish" -> "v.begin"
       [] p = "v.begin"  -> "v.call"
       [] p = "v.finish" -> "ok"]

\* run moves to point p; entering another step starts its attempts afresh
GoTo(p) ==
  /\ run' = p
  /\ tries' = IF StepOf(p) = StepOf(run) THEN tries ELSE 0
  /\ UNCHANGED <<engine, launches, late>>

\* Mutant: the run body does not test the row it reads.
RunReadNoTest ==
  /\ engine = "live" /\ run = "p.read"
  /\ GoTo("p.mark")
  /\ UNCHANGED <<failure, row, op, requests>>

\* prepareExecution reads the row: a cancelled one throws NonRetryableError
RunRead ==
  /\ engine = "live" /\ run = "p.read"
  /\ IF status \in {"Cancelling", "Cancelled"}
     THEN GoTo("fail")
     ELSE GoTo("p.mark")
  /\ UNCHANGED <<failure, row, op, requests>>

\* a D1 statement of the prepare or the vendor step
RunStatement ==
  /\ engine = "live" /\ run \in DOMAIN NextPoint
  /\ D1Statement(run)
  /\ GoTo(NextPoint[run]) /\ UNCHANGED failure
  /\ UNCHANGED <<dispatched, input, expired, requests>>

\* the vendor answers; or it fails or exceeds its deadline (*_VENDOR_TIMEOUT),
\* which the step returns as a result: the expected-failure branch
RunVendorCall ==
  /\ engine = "live" /\ run = "v.call"
  /\ \/ GoTo("v.finish") /\ UNCHANGED failure
     \/ GoTo("reject") /\ failure' \in {"Failed", "TimedOut"}
  /\ UNCHANGED <<row, op, requests>>

\* persist-success-v1 or a persist-failure-v1; the run body then returns or throws
RunCheckpoint ==
  /\ engine = "live" /\ run \in Checkpoints
  /\ D1Statement(run)
  /\ engine' = IF run = "ok" THEN "complete" ELSE "errored"
  /\ UNCHANGED <<launches, run, tries, failure, late>>
  /\ UNCHANGED <<dispatched, input, expired, requests>>

\* an attempt throws or times out, its statement issued or not: retry the
\* step, else throw into the run's catch; a failed catch ends the run
RunAttemptFails ==
  /\ StepFaults /\ engine = "live"
  /\ Abandon(run)
  /\ IF tries < RetryLimitForStep(run)
     THEN /\ run' = FirstPoint(run) /\ tries' = tries + 1
          /\ UNCHANGED <<engine, failure>>
     ELSE IF run = "fail"
     THEN engine' = "errored" /\ UNCHANGED <<run, tries, failure>>
     ELSE run' = "fail" /\ tries' = 0 /\ UNCHANGED <<engine, failure>>
  /\ UNCHANGED <<launches, row, op, requests>>

\* executeSaga reads secrets and the policy snapshot before the run body's
\* try: a throw there settles the instance with no checkpoint
RunStartFails ==
  /\ StepFaults /\ engine = "live" /\ run = "p.read" /\ tries = 0
  /\ engine' = "errored"
  /\ UNCHANGED <<launches, run, tries, failure, late, row, op, requests>>

\* an abandoned callback executes one more point of its step
LatePoint(p) ==
  /\ p \in late
  /\ IF p \in {"p.read", "v.call"}
     THEN UNCHANGED <<status, started, op>>
     ELSE D1Statement(p)
  /\ LET next == CASE p = "p.read" ->
                        IF status \in {"Cancelling", "Cancelled"} THEN {} ELSE {"p.mark"}
                   [] p = "v.call" -> {"v.finish"}
                   [] p \in DOMAIN NextPoint ->
                        {NextPoint[p]} \intersect (PreparePoints \union {"v.call"})
                   [] OTHER -> {}
     IN  late' = (late \ {p}) \union next
  /\ UNCHANGED <<dispatched, input, expired, engine, launches, run, tries, failure, requests>>

(***************************************************************************)
(* The environment                                                         *)
(***************************************************************************)
\* fifteen minutes pass since created_at
WindowCloses ==
  /\ status # "None" /\ ~expired
  /\ expired' = TRUE
  /\ UNCHANGED <<status, started, dispatched, input, op, instance, requests>>

\* the engine retains an instance ID throughout the window, and a request is
\* shorter than the retention: only later does a settled instance vanish, and
\* never in the request that saw the window open or the instance live
EnginePurge ==
  /\ expired /\ engine \in {"complete", "errored", "terminated"}
  /\ \A s \in Submitters : sub[s] # "create"
  /\ \A c \in Cancellers : can[c] \notin {"mark", "terminate"}
  /\ \A r \in Repairers : rep[r] # "terminate"
  /\ engine' = "absent"
  /\ UNCHANGED <<launches, run, tries, failure, late, row, op, requests>>

\* a Worker invocation ends between two awaits (limits, eviction, D1 error)
RequestDies ==
  /\ Crashes
  /\ \/ \E s \in Submitters : /\ sub[s] \in {"read", "gate", "create", "stamp"}
                               /\ sub' = [sub EXCEPT ![s] = "dead"]
                               /\ UNCHANGED <<can, rep>>
     \/ \E c \in Cancellers : /\ can[c] \in {"mark", "terminate", "confirm", "rollback"}
                              /\ can' = [can EXCEPT ![c] = "dead"]
                              /\ UNCHANGED <<sub, rep>>
     \/ \E r \in Repairers : /\ rep[r] \in {"terminate", "confirm"}
                             /\ rep' = [rep EXCEPT ![r] = "dead"]
                             /\ UNCHANGED <<sub, can>>
  /\ UNCHANGED <<row, op, instance, prior>>

SubmitNext(s) == SubmitInsert(s) \/ SubmitRead(s) \/ SubmitGate(s)
                 \/ SubmitCreate(s) \/ SubmitStamp(s)
CancelNext(c) == CancelRead(c) \/ CancelMark(c) \/ CancelTerminate(c)
                 \/ CancelConfirm(c) \/ CancelRollback(c)
RepairNext(r) == RepairMark(r) \/ RepairTerminate(r) \/ RepairConfirm(r)
RunNext       == RunRead \/ RunStatement \/ RunVendorCall \/ RunCheckpoint

Next ==
  \/ \E s \in Submitters : SubmitNext(s)
  \/ \E c \in Cancellers : CancelNext(c)
  \/ \E r \in Repairers : RepairNext(r)
  \/ RunNext
  \/ RunAttemptFails \/ RunStartFails
  \/ \E p \in Points : LatePoint(p)
  \/ WindowCloses \/ EnginePurge \/ RequestDies

Spec == Init /\ [][Next]_vars

\* The engine keeps driving a live instance and the runtime keeps driving a
\* request it has accepted; nothing makes a client send one, time pass, a
\* late statement land or a fault happen.
Fairness ==
  /\ WF_vars(RunNext)
  /\ \A c \in Cancellers : WF_vars(can[c] # "idle" /\ CancelNext(c))
  /\ \A r \in Repairers : WF_vars(rep[r] # "idle" /\ RepairNext(r))

FairSpec == Spec /\ Fairness

(***************************************************************************)
(* Properties                                                              *)
(***************************************************************************)
\* Every variable keeps its type: in particular an owner cancel only ever
\* remembers an active status to roll back to.
TypeOK ==
  /\ status \in Statuses /\ started \in BOOLEAN /\ dispatched \in BOOLEAN
  /\ input \in Inputs \union {NoInput} /\ expired \in BOOLEAN
  /\ op \in [OpNames -> OpStatus]
  /\ engine \in Engines /\ launches \in Nat /\ run \in Points /\ tries \in 0..2
  /\ failure \in {"Failed", "TimedOut"} /\ late \subseteq Points
  /\ sub \in [Submitters -> SubmitStates]
  /\ can \in [Cancellers -> CancelStates]
  /\ rep \in [Repairers -> RepairStates]
  /\ prior \in [Cancellers -> [status : Active, dispatched : BOOLEAN]]

\* the requests that wrote the marker and have not yet resolved it
OwnerHolders  == {c \in Cancellers : can[c] \in {"terminate", "confirm", "rollback"}}
RepairHolders == {r \in Repairers : rep[r] \in {"terminate", "confirm"}}
CancelAcked   == \/ \E c \in Cancellers : can[c] = "cancelled"
                 \/ \E r \in Repairers : rep[r] = "cancelled"

\* The fenced marker UPDATE elects one request: while any owner cancel or
\* repair is between its marker and its confirm or roll back, the row is
\* Cancelling and no other request is there as well.
CancelOwnership ==
  /\ \A c \in OwnerHolders : status = "Cancelling" /\ RepairHolders = {}
  /\ \A c, d \in OwnerHolders : c = d
  /\ \A r \in RepairHolders : status = "Cancelling" /\ OwnerHolders = {}
  /\ \A q, r \in RepairHolders : q = r

\* A caller that was told cancelled:true (route or repair) is never
\* contradicted by the row, whatever checkpoint, retry or late statement lands.
AckedCancelSticks == CancelAcked => status = "Cancelled"

\* The conditional checkpoints make the first terminal status final: no
\* checkpoint, cancel, roll back, replayed submit or late statement changes it.
TerminalForever == [][(status \in Terminal) => status' = status]_status

\* A Succeeded Execution has a Succeeded vendor Operation behind it, even
\* when an abandoned attempt of the vendor step executes afterwards
\* (finishOperation and beginOperation are fenced on Running).
SuccessIsBacked == status = "Succeeded" => op["vendor"] = "Succeeded"

\* Retries of a lost submit never start the work twice: the retained-ID
\* dedup of createBatch and the 15-minute window cover for each other.
AtMostOneRun == launches <= 1

\* A submit is accepted only if the Execution runs that submit's input: a
\* second use of the key with other input conflicts, also when both race.
AcceptedRunsMyInput ==
  \A s \in Submitters : sub[s] = "accepted" => input = InputOf[s]

\* Once an owner cancel is confirmed the run never begins another vendor step.
NoStepAfterConfirmedCancel ==
  [][(\E c \in Cancellers : can[c] = "cancelled")
       => ~(run # "v.begin" /\ run' = "v.begin")]_vars

\* no owner cancel and no repair has written its marker: one that is refused
\* lost the marker, except another admin's repair, which is refused after it
Unmarked ==
  /\ \A c \in Cancellers : can[c] \in {"absent", "idle", "mark", "refused"}
  /\ \A r \in Repairers :
       rep[r] \in {"absent", "idle"} \/ (rep[r] = "refused" /\ r \notin ForeignRepairers)

\* If nobody ever marked a cancel, the native instance's own success and the
\* D1 row agree: persist-success-v1 found the Running row prepare wrote.
NativeSuccessIsRecorded == engine = "complete" /\ Unmarked => status = "Succeeded"

\* what a run may still do: 16 for a step ahead, 4 for an attempt, 1 for a point
StepsAhead(p) == IF p \in PreparePoints THEN 3 ELSE IF p \in VendorPoints THEN 2
                 ELSE IF p = "fail" THEN 0 ELSE 1
PointsAhead(p) == CASE p = "p.read" -> 3 [] p \in {"p.mark", "v.begin"} -> 2
                    [] p \in {"p.begin", "v.call"} -> 1 [] OTHER -> 0
Effort == 16 * StepsAhead(run) + 4 * (2 - tries) + PointsAhead(run)

\* However its attempts fail, time out and are repeated, a live run never comes
\* back to where it was: every move uses up some of its effort, so it ends.
RunNeverCircles ==
  [][engine = "live" /\ engine' = "live"
       => UNCHANGED <<run, tries>> \/ Effort' < Effort]_vars

\* A live instance brings its Execution to an end, whatever its steps'
\* attempts and the repairs do, unless an owner cancel was rolled back or the
\* run ended in an error no checkpoint could record.
LaunchedEnds ==
  engine = "live" ~>
    \/ status \in Terminal \/ engine = "errored"
    \/ \E c \in Cancellers : can[c] \in {"rollback", "unconfirmed"}

\* Without crashes every Cancelling marker is confirmed or rolled back.
CancellingResolves == status = "Cancelling" ~> status # "Cancelling"

\* Seen from the callers, all of the above is ExecutionOutcome.
Outcome == INSTANCE ExecutionOutcome WITH
  Submits  <- Submitters,
  Cancels  <- Cancellers \union Repairers,
  outcome  <- IF status = "None" THEN "none"
              ELSE IF status \in Terminal THEN status ELSE "active",
  accepted <- {s \in Submitters : sub[s] = "accepted"},
  acked    <- {c \in Cancellers : can[c] = "cancelled"}
              \union {r \in Repairers : rep[r] = "cancelled"}

\* Every step of the code is one step of the write-once outcome or none of it:
\* in particular a request answers cancelled:true only in the step that decided
\* the outcome, so at most one ever does.
ImplementsOutcome == Outcome!Spec

\* Seen from the requests of other routes and other Executions, it is the row
\* that module Admission counts.
Row == INSTANCE ExecutionRow WITH
  status     <- IF status = "None" THEN "none"
                ELSE IF status \in {"Succeeded", "Failed", "TimedOut"} THEN "Done" ELSE status,
  launched   <- launches > 0,
  dispatched <- dispatched

\* Every step of a submit, a cancel, a repair, the run or a late attempt is a
\* step that admission reckons with: a run, however it is retried, moves the row
\* only when it is active, a roll back gives Running back only to a row whose
\* work was started, and dispatched is never true of work that was not.
ImplementsRow == Row!Spec

\* Seen from the schedules, events and Forms that submit its key, it is a receipt.
Receipt == INSTANCE SubmitReceipt WITH
  state   <- IF status = "None" THEN "none" ELSE IF status = "Cancelled" THEN "cancelled"
             ELSE IF dispatched THEN "dispatched" ELSE IF expired THEN "expired" ELSE "pending",
  content <- input

\* Racing submits, lost answers, roll backs and late statements never give a
\* receipt another content, and never take back that it was dispatched.
ImplementsReceipt == Receipt!Spec

\* Both together: what Admission, Schedules, Events and Forms assume of an
\* Execution they do not look into.
KeepsItsPromises == ImplementsRow /\ ImplementsReceipt

(***************************************************************************)
(* What the sources say and the code does not do (one run each).           *)
(***************************************************************************)
\* index.ts on the roll back: "so the caller can retry the same cancel and
\* the true terminal outcome can still land".  A run that is over leaves no
\* Running row behind.
TrueOutcomeLands == engine = "complete" => status # "Running"

=============================================================================
