------------------------------ MODULE Schedules ------------------------------
(***************************************************************************)
(* Schedules and the Cron tick that promotes them (src/schedules.ts).      *)
(*                                                                         *)
(* Every minute the Cron trigger starts a tick.  A tick scans the due rows *)
(* of a bounded, rotating set of Organizations and then works through what *)
(* it read: fence, authority, submit under the key of the due window,      *)
(* bookkeeping.  Nothing keeps a slow tick from overlapping the next one,  *)
(* and operators edit the rows meanwhile, so what a tick holds is stale.   *)
(*                                                                         *)
(* A schedule's id is the hash of its Organization and name: a row deleted *)
(* and created again has the same id, hence the same window keys.  The     *)
(* cron, kind, owner and input of the new row may be others, and a tick    *)
(* may still hold the old row.  The races inside submit are modules        *)
(* Executions and Admission.                                               *)
(***************************************************************************)
EXTENDS Naturals, FiniteSets

CONSTANTS
  Ids,              \* schedules, by the hash of Organization and name
  OrgOf,            \* OrgOf[s]: the Organization, a number: scans go ORDER BY org_id
  Owners,           \* the users that create schedules, hence run them
  Inputs,           \* what a schedule may run: Saga and input_json
  Plans,            \* what createSchedule may be asked for
  Year,             \* how far nextCronDue looks for a matching minute
  Ticks,            \* tick invocations that may be alive at once
  MaxOrgs,          \* SCHEDULE_TICK_MAX_ORGS
  PerOrg,           \* SCHEDULE_TICK_PER_ORG_LIMIT
  QuarantineAfter,  \* SCHEDULE_SKIP_QUARANTINE_AFTER
  Horizon,          \* bound: the last minute of the clock, where it stays
  Cycle,            \* bound: minutes modulo Cycle drive the rotation, also then
  Casts             \* [rows, plan, ticks, events]: the schedules and ticks, what may happen once

Minutes == 0..(Horizon + Year)
Windows == Owners \X Minutes  \* who runs it, and the due minute, or 0 for the "once" of a one-off
Blocks  == {"no", "paused", "denied", "limited"}
Codes   == {"SCHEDULE_GONE", "SCHEDULE_DISABLED", "GRANT_REQUIRED", "IDEMPOTENCY_CONFLICT",
            "EXECUTION_CANCELLED", "SAGA_PAUSED", "ADMISSION_LIMITED", "RECOVERY_EXPIRED"}
Events  == [what : Blocks \union {"disable", "enable", "delete", "create", "cancel",
                                 "expire", "dropped", "outage", "crash"}, id : Ids]

\* kind; the minutes the cron matches, or the run-at; run_as_user_id; Saga and input
PlanType == [recurring : BOOLEAN, minutes : SUBSET (Minutes \ {0}), owner : Owners, input : Inputs]

ASSUME ScheduleAssumption ==
  /\ IsFiniteSet(Ids)
  /\ OrgOf \in [Ids -> Nat]
  /\ Horizon \in Nat /\ Year \in Nat
  /\ QuarantineAfter \in Nat \ {0}
  /\ MaxOrgs \in Nat /\ PerOrg \in Nat /\ Cycle \in Nat \ {0}
  /\ Plans # {} /\ Plans \subseteq PlanType
  /\ Casts \subseteq [rows : SUBSET Ids, plan : [Ids -> Plans],
                   ticks : SUBSET Ticks, events : SUBSET Events]

Receipts == {"none", "pending", "expired", "dispatched", "cancelled"}
Places == {"absent", "idle", "next", "fence", "authority", "insert", "gate", "create",
           "record", "mark", "clear", "advance", "accrue"}

VARIABLES
  now,        \* the clock, in minutes
  phase,      \* the minute modulo Cycle
  fired,      \* has the Cron trigger fired in this minute?
  exists,     \* is there a schedules row?
  enabled,    \* schedules.enabled
  due,        \* schedules.next_due_at in minutes, 0 for NULL
  mark,       \* schedules.last_window: the skip streak, QuarantineAfter for "quarantined", else 0
  plan,       \* the columns that only createSchedule writes
  delivered,  \* schedule_deliveries: the minutes of the windows, per schedule
  receipt,    \* the executions row of a (schedule, owner, window), and the
  ranOn,      \* Saga and input_json in it
  block,      \* what refuses its submits: Saga policy, authority, limit
  catalog,    \* what the deployed Sagas can run
  at,         \* where a tick is
  batch,      \* the rows its scan read and it has not begun
  job,        \* the one it works on
  fresh,      \* what its fence re-read
  events,     \* what may still happen
  born,       \* history: the minute a row was created
  refusals,   \* history: skips by a persistent fence
  astray      \* history: has a tick moved next_due_at by another row's plan?

clock == <<now, phase, fired>>
row   == <<exists, enabled, due, mark, plan, delivered>>
runs  == <<receipt, ranOn>>
tick  == <<at, batch, job, fresh>>
world == <<block, catalog, events, born>>
past  == <<refusals, astray>>
vars  == <<clock, row, runs, tick, world, past>>

(***************************************************************************)
(* nextCronDue: the first matching minute after m; none within a year is   *)
(* a Fault, here the empty set.                                            *)
(***************************************************************************)
Later(p, m) == {c \in p.minutes : m < c /\ c <= m + Year}

\* Mutant: an exhausted search answers where it stopped.
NextDuesPast(p, m) == {c \in Later(p, m) \union {m + Year + 1} : \A d \in Later(p, m) : c <= d}

NextDues(p, m) == {c \in Later(p, m) : \A d \in Later(p, m) : c <= d}

\* createSchedule: the next match, or the run-at whatever the time
FirstDues(p, m) == IF p.recurring THEN NextDues(p, m) ELSE p.minutes

\* the columns of a row that a tick uses
Jobs == [id : Ids, due : Minutes, mark : 0..QuarantineAfter, plan : Plans]
NoJob == [due |-> 0, mark |-> 0]     \* no row
NoPlan == CHOOSE p \in Plans : TRUE  \* nothing re-read

Init == \E cast \in Casts :
  /\ now = 0 /\ phase = 0 /\ fired = FALSE
  /\ exists = [s \in Ids |-> s \in cast.rows]
  /\ enabled = [s \in Ids |-> s \in cast.rows]
  /\ plan = cast.plan
  /\ due \in [Ids -> Minutes]
  /\ \A s \in Ids : IF s \in cast.rows THEN due[s] \in FirstDues(plan[s], 0) ELSE due[s] = 0
  /\ mark = [s \in Ids |-> 0]
  /\ delivered = [s \in Ids |-> {}]
  /\ receipt = [s \in Ids |-> [w \in Windows |-> "none"]]
  /\ ranOn = [s \in Ids |-> [w \in Windows |-> plan[s].input]]
  /\ block = [s \in Ids |-> "no"] /\ catalog = Inputs
  /\ at = [t \in Ticks |-> IF t \in cast.ticks THEN "idle" ELSE "absent"]
  /\ batch = [t \in Ticks |-> {}]
  /\ job = [t \in Ticks |-> NoJob] /\ fresh = [t \in Ticks |-> NoPlan]
  /\ events = cast.events
  /\ born = [s \in Ids |-> 0] /\ refusals = [s \in Ids |-> 0]
  /\ astray = [s \in Ids |-> FALSE]

(***************************************************************************)
(* The clock.  A minute may pass without a tick (downtime), and before one *)
(* has ended, as long as Ticks has an invocation left for the next.        *)
(***************************************************************************)
Minute ==
  /\ \E t \in Ticks : at[t] = "idle"
  /\ now' = IF now < Horizon THEN now + 1 ELSE now
  /\ phase' = (phase + 1) % Cycle
  /\ fired' = FALSE
  /\ UNCHANGED <<row, runs, tick, world, past>>

(***************************************************************************)
(* The scan of a tick, taken as one read.                                  *)
(***************************************************************************)
DueRow(s) == exists[s] /\ enabled[s] /\ due[s] # 0 /\ due[s] <= now
DueOrgs   == {OrgOf[s] : s \in {r \in Ids : DueRow(r)}}
Rank(o)   == Cardinality({p \in DueOrgs : p < o})

\* Mutant: admission always starts with the first Organization.
AdmittedFirst(o) == Rank(o) < MaxOrgs

\* MaxOrgs due Organizations from the rotation offset on, wrapping around
Admitted(o) ==
  LET n == Cardinality(DueOrgs)
  IN  (Rank(o) + n - (phase % n)) % n < MaxOrgs

\* the selections ORDER BY next_due_at LIMIT PerOrg may answer for one Organization
Oldest(o) ==
  LET rows == {s \in Ids : DueRow(s) /\ OrgOf[s] = o}
      size == IF Cardinality(rows) < PerOrg THEN Cardinality(rows) ELSE PerOrg
  IN  {pick \in SUBSET rows :
         /\ Cardinality(pick) = size
         /\ \A s \in pick, r \in rows \ pick : due[s] <= due[r]}

Read(s) == [id |-> s, due |-> due[s], mark |-> mark[s], plan |-> plan[s]]

\* The loop passes over a Saga outside the catalog, which a live invocation
\* keeps as it was deployed: here its rows are not even taken.
Scan(t) ==
  /\ ~fired /\ fired' = TRUE
  /\ at[t] = "idle"
  /\ \E chosen \in SUBSET {s \in Ids : DueRow(s)} :
       /\ \A o \in DueOrgs : IF Admitted(o)
            THEN {s \in chosen : OrgOf[s] = o} \in Oldest(o)
            ELSE {s \in chosen : OrgOf[s] = o} = {}
       /\ LET read == {s \in chosen : plan[s].input \in catalog}
          IN  /\ batch' = [batch EXCEPT ![t] = {Read(s) : s \in read}]
              /\ at' = [at EXCEPT ![t] = IF read = {} THEN "idle" ELSE "next"]
  /\ UNCHANGED <<now, phase, row, runs, job, fresh, world, past>>

(***************************************************************************)
(* The loop of a tick.                                                     *)
(***************************************************************************)
Goto(t, place) == at' = [at EXCEPT ![t] = place] /\ UNCHANGED <<batch, job, fresh>>

\* the loop goes on, or the tick is over
EndJob(t, rest) ==
  /\ at' = [at EXCEPT ![t] = IF rest = {} THEN "idle" ELSE "next"]
  /\ batch' = [batch EXCEPT ![t] = rest]
  /\ job' = [job EXCEPT ![t] = NoJob] /\ fresh' = [fresh EXCEPT ![t] = NoPlan]

\* a Fault outside TICK_SKIP_CODES, or the end of the invocation
Abort(t) == EndJob(t, {})

Id(t) == job[t].id
Slot(t) == IF job[t].plan.recurring THEN job[t].due ELSE 0

\* The kind and the due time are the scanned ones, the owner is not.
Window(t) == <<fresh[t].owner, Slot(t)>>

\* GRANT_REQUIRED stands for the codes of a lost Organization, user or membership
TickSkipCodes == Codes \ {"IDEMPOTENCY_CONFLICT", "RECOVERY_EXPIRED"}

\* Mutant: every skip accrues.
QuarantineEverySkip == TickSkipCodes

QuarantineSkipCodes == {"SAGA_PAUSED", "SCHEDULE_DISABLED", "GRANT_REQUIRED"}

\* what the history counts
PersistentFences == {"SAGA_PAUSED", "SCHEDULE_DISABLED", "GRANT_REQUIRED"}

\* promoteWindow or the submit in it throws
Refuse(t, code) ==
  /\ IF code \notin TickSkipCodes THEN Abort(t)
     ELSE IF code \in QuarantineSkipCodes THEN Goto(t, "accrue")
     ELSE EndJob(t, batch[t])
  /\ refusals' = [refusals EXCEPT ![Id(t)] =
       IF code \in PersistentFences /\ @ < QuarantineAfter THEN @ + 1 ELSE @]

\* the rows come in an order that means nothing
Take(t) ==
  /\ at[t] = "next" /\ at' = [at EXCEPT ![t] = "fence"]
  /\ \E j \in batch[t] :
       /\ job' = [job EXCEPT ![t] = j]
       /\ batch' = [batch EXCEPT ![t] = @ \ {j}]
  /\ UNCHANGED fresh
  /\ UNCHANGED <<clock, row, runs, world, past>>

\* promoteWindow never trusts the row of the scan: it reads it again
Fence(t) ==
  /\ at[t] = "fence"
  /\ IF exists[Id(t)] /\ enabled[Id(t)]
     THEN /\ at' = [at EXCEPT ![t] = "authority"]
          /\ fresh' = [fresh EXCEPT ![t] = plan[Id(t)]]
          /\ UNCHANGED <<batch, job, refusals>>
     ELSE Refuse(t, IF exists[Id(t)] THEN "SCHEDULE_DISABLED" ELSE "SCHEDULE_GONE")
  /\ UNCHANGED <<clock, row, runs, world, astray>>

\* resolveCurrentAuthority: Organization, user, membership and grant
Authority(t) ==
  /\ at[t] = "authority"
  /\ IF block[Id(t)] = "denied" THEN Refuse(t, "GRANT_REQUIRED")
     ELSE Goto(t, "insert") /\ UNCHANGED refusals
  /\ UNCHANGED <<clock, row, runs, world, astray>>

\* submit, INSERT ... ON CONFLICT(id) DO NOTHING: before any admission
Insert(t) ==
  /\ at[t] = "insert" /\ Goto(t, "gate")
  /\ IF receipt[Id(t)][Window(t)] = "none"
     THEN /\ receipt' = [receipt EXCEPT ![Id(t)][Window(t)] = "pending"]
          /\ ranOn' = [ranOn EXCEPT ![Id(t)][Window(t)] = fresh[t].input]
     ELSE UNCHANGED runs
  /\ UNCHANGED <<clock, row, world, past>>

\* submit, the rest of its tests
Gate(t) ==
  /\ at[t] = "gate"
  /\ LET held == receipt[Id(t)][Window(t)] IN
     IF ranOn[Id(t)][Window(t)] # fresh[t].input THEN Refuse(t, "IDEMPOTENCY_CONFLICT")
     ELSE IF held = "cancelled" THEN Refuse(t, "EXECUTION_CANCELLED")
     ELSE IF held = "dispatched" THEN Goto(t, "record") /\ UNCHANGED refusals
     ELSE IF block[Id(t)] = "paused" THEN Refuse(t, "SAGA_PAUSED")
     ELSE IF block[Id(t)] = "limited" THEN Refuse(t, "ADMISSION_LIMITED")
     ELSE IF held = "expired" THEN Refuse(t, "RECOVERY_EXPIRED")
     ELSE Goto(t, "create") /\ UNCHANGED refusals
  /\ UNCHANGED <<clock, row, runs, world, astray>>

\* createBatch and the dispatched stamp
Create(t) ==
  /\ at[t] = "create" /\ Goto(t, "record")
  /\ receipt' = [receipt EXCEPT ![Id(t)][Window(t)] = IF @ = "cancelled" THEN @ ELSE "dispatched"]
  /\ UNCHANGED <<clock, row, ranOn, world, past>>

\* the delivery row (its foreign key wants the schedule), best effort
Record(t) ==
  /\ at[t] = "record" /\ Goto(t, "mark")
  /\ delivered' = [delivered EXCEPT ![Id(t)] = IF exists[Id(t)] THEN @ \union {Slot(t)} ELSE @]
  /\ UNCHANGED <<clock, exists, enabled, due, mark, plan, runs, world, past>>

ClearMark(s) ==
  /\ mark' = [mark EXCEPT ![s] = 0]
  /\ UNCHANGED <<exists, enabled, due, plan, delivered>>

\* `quarantined` is no streak: a row that was enabled again starts anew
SkipStreak(m) == IF m = QuarantineAfter THEN 0 ELSE m

\* last_window = window
Mark(t) ==
  /\ at[t] = "mark" /\ ClearMark(Id(t))
  /\ Goto(t, IF SkipStreak(job[t].mark) > 0 THEN "clear" ELSE "advance")
  /\ UNCHANGED <<clock, runs, world, past>>

\* clearSkipStreak: the row the tick scanned had a streak
Clear(t) ==
  /\ at[t] = "clear" /\ ClearMark(Id(t))
  /\ Goto(t, "advance")
  /\ UNCHANGED <<clock, runs, world, past>>

\* Mutant: the cadence goes on from the clock.
DueAfterNow(t) == NextDues(job[t].plan, now)

\* from the window that was promoted, so that a late tick does not skip any,
\* by the cron of the scan
DueAfter(t) == NextDues(job[t].plan, job[t].due)

\* The row has another kind or cron than the tick goes by, or is a one-off
\* that the tick ends without having run it.
Strange(t) ==
  LET p == plan[Id(t)]
  IN  \/ p.recurring # job[t].plan.recurring
      \/ p.recurring /\ p.minutes # job[t].plan.minutes
      \/ ~p.recurring /\ <<p.owner, p.input>> # <<fresh[t].owner, fresh[t].input>>

\* WHERE id = ? only; the Fault of an exhausted search ends the tick
Advance(t) ==
  /\ at[t] = "advance"
  /\ IF ~job[t].plan.recurring
     THEN /\ EndJob(t, batch[t])
          /\ enabled' = [enabled EXCEPT ![Id(t)] = FALSE]
          /\ due' = [due EXCEPT ![Id(t)] = 0]
     ELSE /\ UNCHANGED enabled
          /\ \/ DueAfter(t) = {} /\ Abort(t) /\ UNCHANGED due
             \/ EndJob(t, batch[t]) /\ \E next \in DueAfter(t) :
                  due' = [due EXCEPT ![Id(t)] = IF exists[Id(t)] THEN next ELSE @]
  /\ astray' = [astray EXCEPT ![Id(t)] = @ \/ (exists[Id(t)] /\ Strange(t))]
  /\ UNCHANGED <<clock, exists, mark, plan, delivered, runs, world, refusals>>

\* accrueSkipStreak: the streak is the scanned one; the bump is fenced on
\* enabled = 1, the park is not
Accrue(t) ==
  /\ at[t] = "accrue" /\ EndJob(t, batch[t])
  /\ LET s == Id(t)
         streak == SkipStreak(job[t].mark) + 1
     IN  /\ IF streak >= QuarantineAfter
            THEN /\ enabled' = [enabled EXCEPT ![s] = FALSE]
                 /\ mark' = [mark EXCEPT ![s] = IF exists[s] THEN QuarantineAfter ELSE @]
            ELSE /\ UNCHANGED enabled
                 /\ mark' = [mark EXCEPT ![s] = IF exists[s] /\ enabled[s] THEN streak ELSE @]
  /\ UNCHANGED <<clock, exists, due, plan, delivered, runs, world, past>>

TickStep(t) ==
  \/ Take(t) \/ Fence(t) \/ Authority(t) \/ Insert(t) \/ Gate(t) \/ Create(t)
  \/ Record(t) \/ Mark(t) \/ Clear(t) \/ Advance(t) \/ Accrue(t)

(***************************************************************************)
(* What else happens, each event of the scenario at most once.             *)
(***************************************************************************)
Happens(what, s) ==
  /\ [what |-> what, id |-> s] \in events
  /\ events' = events \ {[what |-> what, id |-> s]}

\* the policy, the run-as authority or the limit changes
Blocked(s) == \E what \in Blocks :
  /\ Happens(what, s) /\ what # block[s]
  /\ block' = [block EXCEPT ![s] = what]
  /\ UNCHANGED <<clock, row, runs, tick, catalog, born, past>>

\* setScheduleEnabled: the row it loads tells it only the id; nothing else moves
SetEnabled(s) == \E what \in {"disable", "enable"} :
  /\ exists[s] /\ Happens(what, s)
  /\ enabled' = [enabled EXCEPT ![s] = what = "enable"]
  /\ UNCHANGED <<clock, exists, due, mark, plan, delivered, runs, tick, block, catalog, born, past>>

\* deleteSchedule: one batch
Delete(s) ==
  /\ exists[s] /\ Happens("delete", s)
  /\ exists' = [exists EXCEPT ![s] = FALSE]
  /\ enabled' = [enabled EXCEPT ![s] = FALSE]
  /\ due' = [due EXCEPT ![s] = 0]
  /\ mark' = [mark EXCEPT ![s] = 0]
  /\ delivered' = [delivered EXCEPT ![s] = {}]
  /\ UNCHANGED <<clock, plan, runs, tick, block, catalog, born, past>>

\* createSchedule under a free name, by anyone, of any kind and cron
CreateSchedule(s) ==
  /\ ~exists[s] /\ Happens("create", s)
  /\ exists' = [exists EXCEPT ![s] = TRUE]
  /\ \E on \in BOOLEAN : enabled' = [enabled EXCEPT ![s] = on]
  /\ \E p \in Plans :
       /\ p.input \in catalog
       /\ plan' = [plan EXCEPT ![s] = p]
       /\ \E first \in FirstDues(p, now) : due' = [due EXCEPT ![s] = first]
  /\ born' = [born EXCEPT ![s] = now]
  /\ astray' = [astray EXCEPT ![s] = FALSE]
  /\ UNCHANGED <<clock, mark, delivered, runs, tick, block, catalog, refusals>>

\* a deploy without the Saga that s runs
Drop(s) ==
  /\ Happens("dropped", s)
  /\ catalog' = catalog \ {plan[s].input}
  /\ UNCHANGED <<clock, row, runs, tick, block, born, past>>

\* the owner's cancel of one of its Executions is confirmed
Cancelled(s) == \E w \in Windows :
  /\ receipt[s][w] \in {"pending", "expired", "dispatched"}
  /\ Happens("cancel", s)
  /\ receipt' = [receipt EXCEPT ![s][w] = "cancelled"]
  /\ UNCHANGED <<clock, row, ranOn, tick, block, catalog, born, past>>

\* RECOVERY_WINDOW_MS after its INSERT, or a deploy with another revision
Expire(s) == \E w \in Windows :
  /\ receipt[s][w] = "pending" /\ Happens("expire", s)
  /\ receipt' = [receipt EXCEPT ![s][w] = "expired"]
  /\ UNCHANGED <<clock, row, ranOn, tick, block, catalog, born, past>>

\* createBatch fails: DISPATCH_UNCONFIRMED, which is no skip code
Outage(t) ==
  /\ at[t] = "create" /\ Happens("outage", Id(t)) /\ Abort(t)
  /\ UNCHANGED <<clock, row, runs, block, catalog, born, past>>

\* the invocation dies, or D1 fails it
Crash(t) ==
  /\ at[t] \notin {"absent", "idle"} /\ \E s \in Ids : Happens("crash", s)
  /\ Abort(t)
  /\ UNCHANGED <<clock, row, runs, block, catalog, born, past>>

Event(s) ==
  \/ Blocked(s) \/ SetEnabled(s) \/ Delete(s) \/ CreateSchedule(s)
  \/ Drop(s) \/ Cancelled(s) \/ Expire(s)

Next ==
  \/ Minute
  \/ \E t \in Ticks : Scan(t) \/ TickStep(t) \/ Outage(t) \/ Crash(t)
  \/ \E s \in Ids : Event(s)

Spec == Init /\ [][Next]_vars

\* Cron fires again and again in every residue of the minute, and a live
\* invocation is driven on.
Fairness ==
  /\ WF_vars(Minute)
  /\ \A p \in 0..(Cycle - 1) : SF_vars(phase = p /\ \E t \in Ticks : Scan(t))
  /\ \A t \in Ticks : WF_vars(TickStep(t))

FairSpec == Spec /\ Fairness

(***************************************************************************)
(* Properties                                                              *)
(***************************************************************************)
TickTypeOK ==
  /\ at \in [Ticks -> Places] /\ batch \in [Ticks -> SUBSET Jobs]
  /\ \A t \in Ticks : at[t] \in {"absent", "idle", "next"} \/ job[t] \in Jobs
  /\ DOMAIN job = Ticks /\ fresh \in [Ticks -> Plans]

\* Every variable keeps its type.
TypeOK ==
  /\ now \in 0..Horizon /\ phase \in 0..(Cycle - 1) /\ fired \in BOOLEAN
  /\ exists \in [Ids -> BOOLEAN] /\ enabled \in [Ids -> BOOLEAN]
  /\ due \in [Ids -> Minutes] /\ mark \in [Ids -> 0..QuarantineAfter]
  /\ plan \in [Ids -> Plans] /\ delivered \in [Ids -> SUBSET Minutes]
  /\ receipt \in [Ids -> [Windows -> Receipts]]
  /\ ranOn \in [Ids -> [Windows -> Inputs]]
  /\ block \in [Ids -> Blocks] /\ catalog \subseteq Inputs
  /\ TickTypeOK
  /\ events \subseteq Events
  /\ born \in [Ids -> 0..Horizon] /\ refusals \in [Ids -> 0..QuarantineAfter]
  /\ astray \in [Ids -> BOOLEAN]

\* the window of minute m has an Execution of this row's owner, Saga and input
\* that was dispatched or that its owner cancelled
Settled(s, m) ==
  LET w == <<plan[s].owner, m>>
  IN  receipt[s][w] \in {"dispatched", "cancelled"} /\ ranOn[s][w] = plan[s].input

\* Downtime, skips, parks, crashes, slow ticks and deletions in between lose
\* no window: next_due_at of a recurring schedule has only moved past windows
\* that were settled for this very row, not for one of the same name before
\* it, and a one-off schedule has come to an end only with its Execution.
\* Except where a slow tick has moved next_due_at of a row created since, with
\* another cron, kind, owner or input, by what it had read of the row before.
NoWindowSkipped ==
  \A s \in Ids : exists[s] /\ ~astray[s] =>
    IF plan[s].recurring
    THEN \A m \in plan[s].minutes : born[s] < m /\ m < due[s] => Settled(s, m)
    ELSE due[s] = 0 => Settled(s, 0)

\* "A momentary limit or cancel must not park a schedule": whatever the
\* overlap of ticks, a row is quarantined only after QuarantineAfter refusals
\* by a pause, a lost authority or a disable.
ParksAreEarned ==
  \A s \in Ids : mark[s] = QuarantineAfter => refusals[s] = QuarantineAfter

\* what a tick read and has not ended
Held(t) == batch[t] \union IF at[t] \in {"absent", "idle", "next"} THEN {} ELSE {job[t]}

\* However many Organizations have due rows, and however many rows, the work
\* of one tick stays within its share: rows of MaxOrgs Organizations at most
\* (the rotated ranks of two are never the same), PerOrg of each.
TicksAreBounded ==
  \A t \in Ticks :
    /\ Cardinality({OrgOf[j.id] : j \in Held(t)}) <= MaxOrgs
    /\ \A s \in Ids : Cardinality({j \in Held(t) : OrgOf[j.id] = OrgOf[s]}) <= PerOrg

DueMinutes    == UNION {p.minutes : p \in Plans}
Waiting(s, m) == DueRow(s) /\ due[s] = m
WindowOf(s)   == <<plan[s].owner, IF plan[s].recurring THEN due[s] ELSE 0>>

\* a due row that each tick skips without accruing
Stuck(s) == /\ DueRow(s)
            /\ \/ block[s] = "limited" \/ plan[s].input \notin catalog
               \/ receipt[s][WindowOf(s)] = "cancelled"

\* a due row that ends every tick that comes to it
Poison(s) == /\ DueRow(s)
             /\ \/ receipt[s][WindowOf(s)] = "expired"
                \/ receipt[s][WindowOf(s)] # "none" /\ ranOn[s][WindowOf(s)] # plan[s].input
                \/ plan[s].recurring /\ NextDues(plan[s], due[s]) = {}

Crowded(o) == Cardinality({s \in Ids : OrgOf[s] = o /\ Stuck(s)}) >= PerOrg

\* No due row waits for ever because of other Organizations: it is promoted or
\* parked, unless it is stuck itself, the rows its own Organization may have in
\* a tick are all stuck, or some row ends the ticks.
DueSettles ==
  \A s \in Ids : \A m \in DueMinutes :
    Waiting(s, m) ~> \/ ~Waiting(s, m) \/ Stuck(s) \/ Crowded(OrgOf[s])
                     \/ \E p \in Ids : Poison(p)

\* What Schedules assumes of submit is what module Executions does: each window
\* has one receipt, whichever ticks, retries and cancels come to it.
WindowReceipt(s, w) == INSTANCE SubmitReceipt WITH
  state <- receipt[s][w], content <- ranOn[s][w]

ImplementsReceipts ==
  /\ \A s \in Ids, w \in Windows : WindowReceipt(s, w)!Init
  /\ [][\A s \in Ids, w \in Windows :
          [WindowReceipt(s, w)!Next]_(WindowReceipt(s, w)!vars)]_vars

(***************************************************************************)
(* What the sources say and the code does not do.                          *)
(***************************************************************************)
\* schedules.ts, promoteDueSchedules: "Overdue rows promote (never silently
\* skipped)", and of a parked row "The operator re-enables to resume": an
\* enabled due row whose submits nothing refuses any more is promoted.
OverduePromotes ==
  \A s \in Ids : \A m \in DueMinutes :
    Waiting(s, m) ~> (~Waiting(s, m) \/ block[s] # "no")

=============================================================================
