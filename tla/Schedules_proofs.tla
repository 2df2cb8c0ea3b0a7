------------------------- MODULE Schedules_proofs -------------------------
(***************************************************************************)
(* Proofs about Schedules, for any number of schedules, Organizations,     *)
(* overlapping ticks and windows, and any events.                          *)
(***************************************************************************)
EXTENDS Schedules, FiniteSetTheorems, TLAPS

\* what the proofs need of the constants nearly everywhere
LEMMA Bounds ==
  /\ Horizon \in Nat /\ Year \in Nat
  /\ QuarantineAfter \in Nat /\ QuarantineAfter > 0
  /\ 0 \in Minutes /\ Minutes \subseteq Nat /\ 0 \in 0..QuarantineAfter
BY ScheduleAssumption DEF Minutes

USE Bounds
USE DEF Blocks, Codes, Receipts, Places

\* times are numbers
LEMMA Times == (\A m \in Minutes : m \in Nat) /\ (\A m \in 0..Horizon : m \in Nat)
BY Bounds

\* a plan and its columns
LEMMA PlanColumns ==
  /\ NoPlan \in Plans
  /\ \A p \in Plans : /\ p.recurring \in BOOLEAN /\ p.owner \in Owners /\ p.input \in Inputs
                     /\ \A m \in p.minutes : m \in Minutes /\ m \in Nat /\ m > 0
BY ScheduleAssumption DEF NoPlan, PlanType, Minutes

\* where a tick holds a row
Busy == Places \ {"absent", "idle", "next"}

(***************************************************************************)
(* Type correctness                                                        *)
(***************************************************************************)
\* going on to another place keeps the types of the ticks
LEMMA GotoType ==
  ASSUME TypeOK, NEW t \in Ticks, NEW place \in Busy, job[t] \in Jobs, Goto(t, place)
  PROVE  TickTypeOK'
BY DEF TypeOK, TickTypeOK, Goto, Busy

\* and so does ending a row
LEMMA EndJobType ==
  ASSUME TypeOK, NEW t \in Ticks, NEW rest \in SUBSET Jobs, EndJob(t, rest)
  PROVE  TickTypeOK'
BY PlanColumns DEF TypeOK, TickTypeOK, EndJob

\* a tick at work has a row
LEMMA BusyJob ==
  ASSUME TypeOK, NEW t \in Ticks, at[t] \in Busy
  PROVE  /\ job[t] \in Jobs /\ Id(t) \in Ids /\ Slot(t) \in Minutes
         /\ fresh[t] \in Plans /\ Window(t) \in Windows
         /\ batch[t] \in SUBSET Jobs
<1>1. job[t] \in Jobs /\ batch[t] \in SUBSET Jobs /\ fresh[t] \in Plans
  BY DEF TypeOK, TickTypeOK, Busy
<1>2. job[t].id \in Ids /\ job[t].due \in Minutes
  BY <1>1 DEF Jobs
<1>3. Slot(t) \in Minutes /\ fresh[t].owner \in Owners
  BY <1>1, <1>2, PlanColumns DEF Slot
<1> QED
  BY <1>1, <1>2, <1>3 DEF Id, Window, Windows

\* a refusal keeps the types and the other variables
LEMMA RefuseType ==
  ASSUME TypeOK, NEW t \in Ticks, at[t] \in Busy, NEW code, Refuse(t, code)
  PROVE  TickTypeOK' /\ refusals' \in [Ids -> 0..QuarantineAfter]
<1>1. TickTypeOK'
  <2>1. CASE code \notin TickSkipCodes
    BY <2>1, EndJobType DEF Refuse, Abort
  <2>2. CASE code \in TickSkipCodes /\ code \in QuarantineSkipCodes
    BY <2>2, GotoType, BusyJob DEF Refuse, Busy
  <2>3. CASE code \in TickSkipCodes /\ code \notin QuarantineSkipCodes
    BY <2>3, EndJobType, BusyJob DEF Refuse
  <2> QED
    BY <2>1, <2>2, <2>3
<1>2. refusals' \in [Ids -> 0..QuarantineAfter]
  BY BusyJob DEF Refuse, TypeOK
<1> QED
  BY <1>1, <1>2

\* the first match is a minute
LEMMA DuesType ==
  ASSUME NEW p \in Plans, NEW m \in Nat
  PROVE  NextDues(p, m) \subseteq Minutes /\ FirstDues(p, m) \subseteq Minutes
BY PlanColumns DEF NextDues, FirstDues, Later

\* the initial state is of the types
LEMMA TypeInit == Init => TypeOK
<1> SUFFICES ASSUME Init PROVE TypeOK
  OBVIOUS
<1> PICK cast \in Casts : Init!(cast)
  BY DEF Init
<1>0. cast.plan \in [Ids -> Plans] /\ cast.rows \in SUBSET Ids /\ cast.events \in SUBSET Events
  BY ScheduleAssumption
<1>1. TickTypeOK
  BY PlanColumns DEF TickTypeOK
<1>2. receipt \in [Ids -> [Windows -> Receipts]] /\ ranOn \in [Ids -> [Windows -> Inputs]]
  <2>1. \A s \in Ids : plan[s].input \in Inputs
    BY <1>0, PlanColumns
  <2> QED
    BY <2>1
<1>3. /\ exists \in [Ids -> BOOLEAN] /\ enabled \in [Ids -> BOOLEAN]
      /\ due \in [Ids -> Minutes] /\ mark \in [Ids -> 0..QuarantineAfter]
      /\ plan \in [Ids -> Plans] /\ delivered \in [Ids -> SUBSET Minutes]
  <2>1. exists \in [Ids -> BOOLEAN] /\ enabled \in [Ids -> BOOLEAN]
    BY <1>0
  <2>2. due \in [Ids -> Minutes] /\ mark \in [Ids -> 0..QuarantineAfter]
    OBVIOUS
  <2>3. plan \in [Ids -> Plans] /\ delivered \in [Ids -> SUBSET Minutes]
    BY <1>0
  <2> QED
    BY <2>1, <2>2, <2>3
<1>4. /\ block \in [Ids -> Blocks] /\ events \subseteq Events
      /\ catalog \subseteq Inputs /\ astray \in [Ids -> BOOLEAN]
      /\ born \in [Ids -> 0..Horizon] /\ refusals \in [Ids -> 0..QuarantineAfter]
      /\ now \in 0..Horizon /\ phase \in 0..(Cycle - 1) /\ fired \in BOOLEAN
  <2>1. /\ block \in [Ids -> Blocks] /\ events \subseteq Events
        /\ catalog \subseteq Inputs /\ astray \in [Ids -> BOOLEAN]
    BY <1>0
  <2>2. born \in [Ids -> 0..Horizon] /\ refusals \in [Ids -> 0..QuarantineAfter]
    OBVIOUS
  <2>3. now \in 0..Horizon /\ phase \in 0..(Cycle - 1)
    BY ScheduleAssumption
  <2>4. fired \in BOOLEAN
    OBVIOUS
  <2> QED
    BY <2>1, <2>2, <2>3, <2>4
<1> QED
  BY <1>1, <1>2, <1>3, <1>4 DEF TypeOK

\* the steps of a tick keep the types
LEMMA TypeTickStep ==
  ASSUME TypeOK, NEW t \in Ticks, TickStep(t)
  PROVE  TypeOK'
<1> USE DEF clock, row, runs, world, past
<1>1. CASE Take(t)
  <2>1. TickTypeOK'
    <3> PICK j \in batch[t] :
          /\ job' = [job EXCEPT ![t] = j]
          /\ batch' = [batch EXCEPT ![t] = @ \ {j}]
      BY <1>1 DEF Take
    <3>1. batch[t] \in SUBSET Jobs /\ j \in Jobs
      BY DEF TypeOK, TickTypeOK
    <3>2. at' \in [Ticks -> Places] /\ DOMAIN job' = Ticks /\ fresh' \in [Ticks -> Plans]
      BY <1>1 DEF Take, TypeOK, TickTypeOK
    <3>3. batch' \in [Ticks -> SUBSET Jobs]
      <4>1. batch' = [batch EXCEPT ![t] = batch[t] \ {j}] /\ batch \in [Ticks -> SUBSET Jobs]
        BY DEF TypeOK, TickTypeOK
      <4>2. batch[t] \ {j} \in SUBSET Jobs
        BY <3>1
      <4> QED
        BY <4>1, <4>2
    <3>4. ASSUME NEW u \in Ticks
          PROVE  at'[u] \in {"absent", "idle", "next"} \/ job'[u] \in Jobs
      <4>1. CASE u = t
        BY <3>1, <4>1 DEF TypeOK, TickTypeOK
      <4>2. CASE u # t
        BY <1>1, <4>2 DEF Take, TypeOK, TickTypeOK
      <4> QED
        BY <4>1, <4>2
    <3> QED
      BY <3>2, <3>3, <3>4 DEF TickTypeOK
  <2> QED
    BY <1>1, <2>1 DEF Take, TypeOK
<1>2. CASE Fence(t)
  <2>0. at[t] \in Busy
    BY <1>2 DEF Fence, Busy
  <2>1. CASE exists[Id(t)] /\ enabled[Id(t)]
    <3>1. TickTypeOK'
      BY <1>2, <2>0, <2>1, BusyJob DEF Fence, TypeOK, TickTypeOK
    <3> QED
      BY <1>2, <2>1, <3>1 DEF Fence, TypeOK
  <2>2. CASE ~(exists[Id(t)] /\ enabled[Id(t)])
    <3>1. TickTypeOK' /\ refusals' \in [Ids -> 0..QuarantineAfter]
      BY <1>2, <2>0, <2>2, RefuseType DEF Fence
    <3> QED
      BY <1>2, <3>1 DEF Fence, TypeOK
  <2> QED
    BY <2>1, <2>2
<1>3. CASE Authority(t)
  <2>0. at[t] \in Busy
    BY <1>3 DEF Authority, Busy
  <2>1. TickTypeOK' /\ refusals' \in [Ids -> 0..QuarantineAfter]
    <3>1. CASE block[Id(t)] = "denied"
      BY <1>3, <2>0, <3>1, RefuseType DEF Authority
    <3>2. CASE block[Id(t)] # "denied"
      BY <1>3, <2>0, <3>2, GotoType, BusyJob DEF Authority, Busy, TypeOK
    <3> QED
      BY <3>1, <3>2
  <2> QED
    BY <1>3, <2>1 DEF Authority, TypeOK
<1>4. CASE Insert(t)
  <2>0. at[t] \in Busy
    BY <1>4 DEF Insert, Busy
  <2>1. TickTypeOK'
    BY <1>4, <2>0, GotoType, BusyJob DEF Insert, Busy
  <2>2. receipt' \in [Ids -> [Windows -> Receipts]]
    <3>1. CASE receipt[Id(t)][Window(t)] = "none"
      <4>1. receipt' = [receipt EXCEPT ![Id(t)][Window(t)] = "pending"]
        BY <1>4, <3>1 DEF Insert
      <4> QED
        BY <2>0, <4>1, BusyJob DEF TypeOK
    <3>2. CASE receipt[Id(t)][Window(t)] # "none"
      BY <1>4, <3>2 DEF Insert, TypeOK
    <3> QED
      BY <3>1, <3>2
  <2>3. ranOn' \in [Ids -> [Windows -> Inputs]]
    <3>0. fresh[t].input \in Inputs
      BY <2>0, BusyJob, PlanColumns
    <3>1. CASE receipt[Id(t)][Window(t)] = "none"
      <4>1. ranOn' = [ranOn EXCEPT ![Id(t)][Window(t)] = fresh[t].input]
        BY <1>4, <3>1 DEF Insert
      <4> QED
        BY <2>0, <3>0, <4>1, BusyJob DEF TypeOK
    <3>2. CASE receipt[Id(t)][Window(t)] # "none"
      BY <1>4, <3>2 DEF Insert, TypeOK
    <3> QED
      BY <3>1, <3>2
  <2> QED
    BY <1>4, <2>1, <2>2, <2>3 DEF Insert, TypeOK
<1>5. CASE Gate(t)
  <2>0. at[t] \in Busy
    BY <1>5 DEF Gate, Busy
  <2>1. CASE \E code \in Codes : Refuse(t, code)
    <3>1. TickTypeOK' /\ refusals' \in [Ids -> 0..QuarantineAfter]
      BY <2>0, <2>1, RefuseType
    <3> QED
      BY <1>5, <3>1 DEF Gate, TypeOK
  <2>2. CASE \E place \in {"record", "create"} : Goto(t, place) /\ UNCHANGED refusals
    <3>1. TickTypeOK' /\ refusals' \in [Ids -> 0..QuarantineAfter]
      BY <2>0, <2>2, GotoType, BusyJob DEF Busy, TypeOK
    <3> QED
      BY <1>5, <3>1 DEF Gate, TypeOK
  <2> QED
    BY <1>5, <2>1, <2>2 DEF Gate
<1>6. CASE Create(t)
  <2>0. at[t] \in Busy
    BY <1>6 DEF Create, Busy
  <2>1. TickTypeOK'
    BY <1>6, <2>0, GotoType, BusyJob DEF Create, Busy
  <2>2. receipt' \in [Ids -> [Windows -> Receipts]]
    BY <1>6, <2>0, BusyJob DEF Create, TypeOK
  <2> QED
    BY <1>6, <2>1, <2>2 DEF Create, TypeOK
<1>7. CASE Record(t)
  <2>0. at[t] \in Busy
    BY <1>7 DEF Record, Busy
  <2>1. TickTypeOK'
    BY <1>7, <2>0, GotoType, BusyJob DEF Record, Busy
  <2>2. delivered' \in [Ids -> SUBSET Minutes]
    BY <1>7, <2>0, BusyJob DEF Record, TypeOK
  <2> QED
    BY <1>7, <2>1, <2>2 DEF Record, TypeOK
<1>8. CASE Mark(t) \/ Clear(t)
  <2>0. at[t] \in Busy
    BY <1>8 DEF Mark, Clear, Busy
  <2>1. TickTypeOK'
    BY <1>8, <2>0, GotoType, BusyJob DEF Mark, Clear, Busy
  <2>2. mark' \in [Ids -> 0..QuarantineAfter]
    <3>1. mark' = [mark EXCEPT ![Id(t)] = 0] /\ mark \in [Ids -> 0..QuarantineAfter]
      BY <1>8 DEF Mark, Clear, ClearMark, TypeOK
    <3>2. 0 \in 0..QuarantineAfter
      OBVIOUS
    <3> QED
      BY <3>1, <3>2
  <2> QED
    BY <1>8, <2>1, <2>2 DEF Mark, Clear, ClearMark, TypeOK
<1>9. CASE Advance(t)
  <2>0. at[t] \in Busy
    BY <1>9 DEF Advance, Busy
  <2>1. TickTypeOK'
    BY <1>9, <2>0, EndJobType, BusyJob DEF Advance, Abort
  <2>2. enabled' \in [Ids -> BOOLEAN]
    BY <1>9 DEF Advance, TypeOK
  <2>3. due' \in [Ids -> Minutes]
    <3>1. DueAfter(t) \subseteq Minutes
      BY <2>0, BusyJob, DuesType DEF DueAfter, Jobs
    <3>2. CASE ~job[t].plan.recurring
      <4>1. due' = [due EXCEPT ![Id(t)] = 0] /\ 0 \in Minutes
        BY <1>9, <3>2 DEF Advance
      <4> QED
        BY <4>1 DEF TypeOK
    <3>3. CASE job[t].plan.recurring
      BY <1>9, <3>1, <3>3 DEF Advance, TypeOK
    <3> QED
      BY <3>2, <3>3
  <2>4. astray' \in [Ids -> BOOLEAN]
    BY <1>9 DEF Advance, TypeOK
  <2> QED
    BY <1>9, <2>1, <2>2, <2>3, <2>4 DEF Advance, TypeOK
<1>10. CASE Accrue(t)
  <2>0. at[t] \in Busy
    BY <1>10 DEF Accrue, Busy
  <2>1. TickTypeOK'
    BY <1>10, <2>0, EndJobType, BusyJob DEF Accrue
  <2>2. SkipStreak(job[t].mark) + 1 \in Nat
    BY <2>0, BusyJob DEF SkipStreak, Jobs
  <2>3. enabled' \in [Ids -> BOOLEAN]
    BY <1>10 DEF Accrue, TypeOK
  <2>4. mark' \in [Ids -> 0..QuarantineAfter]
    <3>1. CASE SkipStreak(job[t].mark) + 1 >= QuarantineAfter
      <4>1. mark' = [mark EXCEPT ![Id(t)] = IF exists[Id(t)] THEN QuarantineAfter ELSE @]
        BY <1>10, <3>1 DEF Accrue
      <4>2. mark' = mark \/ mark' = [mark EXCEPT ![Id(t)] = QuarantineAfter]
        BY <4>1 DEF TypeOK
      <4> QED
        BY <4>2 DEF TypeOK
    <3>2. CASE SkipStreak(job[t].mark) + 1 < QuarantineAfter
      <4>1. SkipStreak(job[t].mark) + 1 \in 0..QuarantineAfter
        BY <2>2, <3>2
      <4> QED
        BY <1>10, <2>2, <3>2, <4>1 DEF Accrue, TypeOK
    <3> QED
      BY <2>2, <3>1, <3>2
  <2> QED
    BY <1>10, <2>1, <2>3, <2>4 DEF Accrue, TypeOK
<1> QED
  BY <1>1, <1>2, <1>3, <1>4, <1>5, <1>6, <1>7, <1>8, <1>9, <1>10 DEF TickStep

\* so do the events
LEMMA TypeEvent ==
  ASSUME TypeOK, NEW s \in Ids, Event(s)
  PROVE  TypeOK'
<1> USE DEF clock, row, runs, tick, world, past, Happens
<1>0. \A what : Happens(what, s) => events' \subseteq Events
  BY DEF TypeOK
<1>1. UNCHANGED tick => TickTypeOK'
  BY DEF TypeOK, TickTypeOK
<1>2. CASE Blocked(s)
  BY <1>0, <1>1, <1>2 DEF Blocked, TypeOK
<1>3. CASE SetEnabled(s)
  BY <1>0, <1>1, <1>3 DEF SetEnabled, TypeOK
<1>4. CASE Delete(s)
  BY <1>0, <1>1, <1>4 DEF Delete, TypeOK
<1>5. CASE CreateSchedule(s)
  <2>1. \A p \in Plans : FirstDues(p, now) \subseteq Minutes
    BY DuesType DEF TypeOK
  <2>2. due' \in [Ids -> Minutes] /\ plan' \in [Ids -> Plans] /\ astray' \in [Ids -> BOOLEAN]
    BY <1>5, <2>1 DEF CreateSchedule, TypeOK
  <2>3. exists' \in [Ids -> BOOLEAN] /\ enabled' \in [Ids -> BOOLEAN] /\ born' \in [Ids -> 0..Horizon]
    BY <1>5 DEF CreateSchedule, TypeOK
  <2> QED
    BY <1>0, <1>1, <1>5, <2>2, <2>3 DEF CreateSchedule, TypeOK
<1>6. CASE Cancelled(s)
  <2>1. receipt' \in [Ids -> [Windows -> Receipts]]
    BY <1>6 DEF Cancelled, TypeOK
  <2> QED
    BY <1>0, <1>1, <1>6, <2>1 DEF Cancelled, TypeOK
<1>7. CASE Expire(s)
  <2>1. receipt' \in [Ids -> [Windows -> Receipts]]
    BY <1>7 DEF Expire, TypeOK
  <2> QED
    BY <1>0, <1>1, <1>7, <2>1 DEF Expire, TypeOK
<1>8. CASE Drop(s)
  BY <1>0, <1>1, <1>8 DEF Drop, TypeOK
<1> QED
  BY <1>2, <1>3, <1>4, <1>5, <1>6, <1>7, <1>8 DEF Event

\* a scan reads rows
LEMMA ScanBatch ==
  ASSUME TypeOK, NEW t \in Ticks, Scan(t)
  PROVE  \E read \in SUBSET {s \in Ids : DueRow(s)} :
           /\ batch' = [batch EXCEPT ![t] = {Read(s) : s \in read}]
           /\ at' = [at EXCEPT ![t] = IF read = {} THEN "idle" ELSE "next"]
           /\ UNCHANGED <<job, fresh>>
<1> PICK chosen \in SUBSET {s \in Ids : DueRow(s)} :
      LET read == {s \in chosen : plan[s].input \in catalog}
      IN  /\ batch' = [batch EXCEPT ![t] = {Read(s) : s \in read}]
          /\ at' = [at EXCEPT ![t] = IF read = {} THEN "idle" ELSE "next"]
  BY DEF Scan
<1> WITNESS {s \in chosen : plan[s].input \in catalog} \in SUBSET {s \in Ids : DueRow(s)}
<1> QED
  BY DEF Scan

\* every step keeps the types
LEMMA TypeStep == TypeOK /\ [Next]_vars => TypeOK'
<1> SUFFICES ASSUME TypeOK, [Next]_vars PROVE TypeOK'
  OBVIOUS
<1> USE DEF clock, row, runs, tick, world, past
<1>1. CASE Minute
  <2>0. fired' \in BOOLEAN
    BY <1>1 DEF Minute
  <2>1. now' \in 0..Horizon
    <3>1. now \in 0..Horizon
      BY DEF TypeOK
    <3>2. now' = IF now < Horizon THEN now + 1 ELSE now
      BY <1>1 DEF Minute
    <3> QED
      BY <3>1, <3>2
  <2>3. phase' \in 0..(Cycle - 1)
    <3>1. phase + 1 \in Nat /\ Cycle \in Nat \ {0} /\ phase' = (phase + 1) % Cycle
      BY <1>1, ScheduleAssumption DEF Minute, TypeOK
    <3> QED
      BY <3>1
  <2>2. TickTypeOK'
    BY <1>1 DEF Minute, TypeOK, TickTypeOK
  <2> QED
    BY <1>1, <2>0, <2>1, <2>2, <2>3 DEF Minute, TypeOK
<1>2. ASSUME NEW t \in Ticks, Scan(t) PROVE TypeOK'
  <2> PICK read \in SUBSET {s \in Ids : DueRow(s)} :
           /\ batch' = [batch EXCEPT ![t] = {Read(s) : s \in read}]
           /\ at' = [at EXCEPT ![t] = IF read = {} THEN "idle" ELSE "next"]
           /\ UNCHANGED <<job, fresh>>
    BY <1>2, ScanBatch
  <2>1. {Read(s) : s \in read} \subseteq Jobs
    BY DEF TypeOK, Jobs, Read
  <2>2. TickTypeOK'
    BY <1>2, <2>1 DEF Scan, TypeOK, TickTypeOK
  <2> QED
    BY <1>2, <2>2 DEF Scan, TypeOK
<1>3. ASSUME NEW t \in Ticks, TickStep(t) PROVE TypeOK'
  BY <1>3, TypeTickStep
<1>4. ASSUME NEW t \in Ticks, Outage(t) \/ Crash(t) PROVE TypeOK'
  <2>1. TickTypeOK'
    BY <1>4, EndJobType DEF Outage, Crash, Abort
  <2>2. events' \subseteq Events
    BY <1>4 DEF Outage, Crash, Happens, TypeOK
  <2> QED
    BY <1>4, <2>1, <2>2 DEF Outage, Crash, TypeOK
<1>5. ASSUME NEW s \in Ids, Event(s) PROVE TypeOK'
  BY <1>5, TypeEvent
<1>6. CASE UNCHANGED vars
  BY <1>6 DEF vars, TypeOK, TickTypeOK
<1> QED
  BY <1>1, <1>2, <1>3, <1>4, <1>5, <1>6 DEF Next

\* Every variable keeps its type, whatever overlaps.
THEOREM TypeCorrect == Spec => []TypeOK
<1>1. Init => TypeOK
  BY TypeInit
<1>2. TypeOK /\ [Next]_vars => TypeOK'
  BY TypeStep
<1> QED
  BY <1>1, <1>2, PTL DEF Spec

(***************************************************************************)
(* What a tick holds                                                       *)
(***************************************************************************)
\* Every tick works on rows of its scan: it goes on with the row it has or
\* takes one from its batch, and a batch only shrinks.
JobsPass ==
  \A u \in Ticks :
    /\ batch'[u] \subseteq batch[u]
    /\ at'[u] \in Busy => \/ at[u] \in Busy /\ job'[u] = job[u]
                          \/ at[u] = "next" /\ at'[u] = "fence" /\ job'[u] \in batch[u]

\* going on keeps the row
LEMMA GotoPasses ==
  ASSUME TypeOK, NEW t \in Ticks, at[t] \in Busy, NEW place, Goto(t, place)
  PROVE  JobsPass
BY DEF TypeOK, TickTypeOK, Goto, JobsPass

\* ending a row holds none
LEMMA EndJobPasses ==
  ASSUME TypeOK, NEW t \in Ticks, NEW rest \in SUBSET batch[t], EndJob(t, rest)
  PROVE  JobsPass
BY DEF TypeOK, TickTypeOK, EndJob, JobsPass, Busy

\* a refusal keeps the row or ends it
LEMMA RefusePasses ==
  ASSUME TypeOK, NEW t \in Ticks, at[t] \in Busy, NEW code, Refuse(t, code)
  PROVE  JobsPass
BY GotoPasses, EndJobPasses DEF Refuse, Abort

\* so do all steps of a tick
LEMMA StepPasses ==
  ASSUME TypeOK, NEW t \in Ticks, TickStep(t) \/ Outage(t) \/ Crash(t)
  PROVE  JobsPass
<1>1. CASE Take(t)
  BY <1>1 DEF Take, TypeOK, TickTypeOK, JobsPass, Busy
<1>2. CASE Fence(t)
  <2>1. at[t] \in Busy
    BY <1>2 DEF Fence, Busy
  <2>2. CASE exists[Id(t)] /\ enabled[Id(t)]
    BY <1>2, <2>1, <2>2 DEF Fence, TypeOK, TickTypeOK, JobsPass
  <2>3. CASE ~(exists[Id(t)] /\ enabled[Id(t)])
    BY <1>2, <2>1, <2>3, RefusePasses DEF Fence
  <2> QED
    BY <2>2, <2>3
<1>3. CASE Authority(t)
  <2>1. at[t] \in Busy
    BY <1>3 DEF Authority, Busy
  <2> QED
    BY <1>3, <2>1, GotoPasses, RefusePasses DEF Authority
<1>4. CASE Gate(t)
  <2>1. at[t] \in Busy
    BY <1>4 DEF Gate, Busy
  <2> QED
    BY <1>4, <2>1, GotoPasses, RefusePasses DEF Gate
<1>5. CASE Insert(t) \/ Create(t) \/ Record(t) \/ Mark(t) \/ Clear(t)
  <2>1. at[t] \in Busy
    BY <1>5 DEF Insert, Create, Record, Mark, Clear, Busy
  <2> QED
    BY <1>5, <2>1, GotoPasses DEF Insert, Create, Record, Mark, Clear
<1>6. CASE Advance(t) \/ Accrue(t) \/ Outage(t) \/ Crash(t)
  BY <1>6, EndJobPasses DEF Advance, Accrue, Outage, Crash, Abort
<1> QED
  BY <1>1, <1>2, <1>3, <1>4, <1>5, <1>6 DEF TickStep

\* past its fence, a tick keeps what the fence read
Late   == {"record", "mark", "clear", "advance"}
Fenced == {"authority", "insert", "gate", "create"} \union Late

FreshPass ==
  \A u \in Ticks : at'[u] \in Fenced =>
    /\ at[u] \in Busy /\ job'[u] = job[u]
    /\ \/ at[u] \in Fenced /\ fresh'[u] = fresh[u]
       \/ at[u] = "fence" /\ at'[u] = "authority" /\ fresh'[u] = plan[Id(u)]

\* going on keeps it
LEMMA GotoFresh ==
  ASSUME TypeOK, NEW t \in Ticks, NEW place, Goto(t, place), at[t] \in Fenced \/ place \notin Fenced
  PROVE  FreshPass
BY DEF TypeOK, TickTypeOK, Goto, FreshPass, Fenced, Late, Busy

\* ending a row holds none
LEMMA EndJobFresh ==
  ASSUME TypeOK, NEW t \in Ticks, NEW rest, EndJob(t, rest)
  PROVE  FreshPass
BY DEF TypeOK, TickTypeOK, EndJob, FreshPass, Fenced, Late, Busy

\* a refusal ends it, or goes on to `accrue`
LEMMA RefuseFresh ==
  ASSUME TypeOK, NEW t \in Ticks, NEW code, Refuse(t, code)
  PROVE  FreshPass
BY GotoFresh, EndJobFresh DEF Refuse, Abort, Fenced, Late

\* every step of the system passes it on
LEMMA FreshStep ==
  ASSUME TypeOK, [Next]_vars
  PROVE  FreshPass
<1>1. ASSUME NEW t \in Ticks, TickStep(t) \/ Outage(t) \/ Crash(t) PROVE FreshPass
  <2>1. CASE Take(t)
    BY <2>1 DEF Take, TypeOK, TickTypeOK, FreshPass, Fenced, Late, Busy
  <2>2. CASE Fence(t)
    <3>1. CASE exists[Id(t)] /\ enabled[Id(t)]
      BY <2>2, <3>1 DEF Fence, TypeOK, TickTypeOK, FreshPass, Fenced, Late, Busy
    <3>2. CASE ~(exists[Id(t)] /\ enabled[Id(t)])
      BY <2>2, <3>2, RefuseFresh DEF Fence
    <3> QED
      BY <3>1, <3>2
  <2>3. CASE Authority(t)
    BY <2>3, GotoFresh, RefuseFresh DEF Authority, Fenced
  <2>4. CASE Gate(t)
    BY <2>4, GotoFresh, RefuseFresh DEF Gate, Fenced
  <2>5. CASE Insert(t) \/ Create(t) \/ Record(t) \/ Mark(t) \/ Clear(t)
    BY <2>5, GotoFresh DEF Insert, Create, Record, Mark, Clear, Fenced, Late
  <2>6. CASE Advance(t) \/ Accrue(t) \/ Outage(t) \/ Crash(t)
    BY <2>6, EndJobFresh DEF Advance, Accrue, Outage, Crash, Abort
  <2> QED
    BY <1>1, <2>1, <2>2, <2>3, <2>4, <2>5, <2>6 DEF TickStep
<1>2. ASSUME NEW t \in Ticks, Scan(t) PROVE FreshPass
  <2>1. \A u \in Ticks : at'[u] \in Fenced => at'[u] = at[u]
    BY <1>2, ScanBatch DEF TypeOK, TickTypeOK, Fenced, Late
  <2> QED
    BY <1>2, <2>1, ScanBatch DEF FreshPass, Fenced, Late, Busy
<1>3. CASE UNCHANGED tick
  BY <1>3 DEF tick, FreshPass, Fenced, Late, Busy
<1> QED
  BY <1>1, <1>2, <1>3 DEF Next, Minute, Event, Blocked, SetEnabled, Delete,
     CreateSchedule, Drop, Cancelled, Expire, vars

(***************************************************************************)
(* Receipts                                                                *)
(***************************************************************************)
\* strengthened: a tick past its INSERT has a receipt
InsertedInv ==
  \A t \in Ticks : at[t] \in {"gate", "create"} => receipt[Id(t)][Window(t)] # "none"

\* a receipt never goes, and only the INSERT of its window makes one
LEMMA ReceiptsStay ==
  ASSUME TypeOK, [Next]_vars
  PROVE  /\ \A s \in Ids, w \in Windows : receipt[s][w] # "none" => receipt'[s][w] # "none"
         /\ \A t \in Ticks : at'[t] \in {"gate", "create"} =>
              /\ at[t] \in Busy /\ job'[t] = job[t] /\ fresh'[t] = fresh[t]
              /\ at[t] \in {"gate", "create"} \/ receipt'[Id(t)][Window(t)] # "none"
<1> USE DEF clock, row, runs, tick, world, past
<1> DEFINE Stay == \A s \in Ids, w \in Windows : receipt[s][w] # "none" => receipt'[s][w] # "none"
           Past == \A t \in Ticks : at'[t] \in {"gate", "create"} =>
                     /\ at[t] \in Busy /\ job'[t] = job[t] /\ fresh'[t] = fresh[t]
                     /\ at[t] \in {"gate", "create"} \/ receipt'[Id(t)][Window(t)] # "none"
<1>r. receipt \in [Ids -> [Windows -> Receipts]]
  BY DEF TypeOK
<1>1. ASSUME NEW t \in Ticks, TickStep(t) \/ Outage(t) \/ Crash(t) PROVE Stay /\ Past
  <2>0. JobsPass /\ FreshPass
    BY <1>1, StepPasses, FreshStep
  <2>1. CASE Insert(t)
    <3>1. at[t] \in Busy /\ Id(t) \in Ids /\ Window(t) \in Windows
      BY <2>1, BusyJob DEF Insert, Busy
    <3>2. Stay /\ receipt'[Id(t)][Window(t)] # "none"
      BY <1>r, <2>1, <3>1 DEF Insert
    <3>3. \A u \in Ticks \ {t} : at'[u] = at[u]
      BY <2>1 DEF Insert, Goto, TypeOK, TickTypeOK
    <3>4. Past
      BY <2>0, <3>1, <3>2, <3>3 DEF FreshPass, Fenced, Busy
    <3> QED
      BY <3>2, <3>4
  <2>2. CASE ~Insert(t)
    <3>1. Stay
      <4>1. CASE Create(t)
        <5>1. Id(t) \in Ids /\ Window(t) \in Windows
          BY <4>1, BusyJob DEF Create, Busy
        <5> QED
          BY <1>r, <4>1, <5>1 DEF Create
      <4>2. CASE UNCHANGED receipt
        BY <4>2
      <4> QED
        BY <1>1, <2>2, <4>1, <4>2 DEF TickStep, Take, Fence, Authority, Gate, Record, Mark, Clear,
           Advance, Accrue, Outage, Crash, ClearMark
    <3>2. \A u \in Ticks : at'[u] \in {"gate", "create"} => at[u] \in {"gate", "create"}
      BY <1>1, <2>2 DEF TickStep, Take, Fence, Authority, Gate, Create, Record, Mark, Clear,
         Advance, Accrue, Outage, Crash, Refuse, Abort, Goto, EndJob, TypeOK, TickTypeOK
    <3>3. Past
      BY <2>0, <3>2 DEF FreshPass, Fenced, Busy
    <3> QED
      BY <3>1, <3>3
  <2> QED
    BY <2>1, <2>2
<1>2. ASSUME NEW t \in Ticks, Scan(t) PROVE Stay /\ Past
  <2>1. receipt' = receipt /\ job' = job /\ fresh' = fresh
    BY <1>2 DEF Scan
  <2>2. \A u \in Ticks : at'[u] \in {"gate", "create"} => at'[u] = at[u]
    BY <1>2, ScanBatch DEF TypeOK, TickTypeOK
  <2> QED
    BY <2>1, <2>2 DEF Busy
<1>3. ASSUME NEW s \in Ids, Event(s) PROVE Stay /\ Past
  <2>1. UNCHANGED <<at, job, fresh>>
    BY <1>3 DEF Event, Blocked, SetEnabled, Delete, CreateSchedule, Drop, Cancelled, Expire
  <2>2. Stay
    BY <1>r, <1>3 DEF Event, Blocked, SetEnabled, Delete, CreateSchedule, Drop, Cancelled, Expire
  <2> QED
    BY <2>1, <2>2 DEF Busy
<1>4. CASE Minute \/ UNCHANGED vars
  BY <1>4 DEF Minute, vars, Busy
<1> QED
  BY <1>1, <1>2, <1>3, <1>4 DEF Next

LEMMA InsertedInit == Init => InsertedInv
BY DEF Init, InsertedInv

LEMMA InsertedStep == TypeOK /\ InsertedInv /\ [Next]_vars => InsertedInv'
<1> SUFFICES ASSUME TypeOK, InsertedInv, [Next]_vars, NEW t \in Ticks, at'[t] \in {"gate", "create"}
    PROVE  (receipt[Id(t)][Window(t)])' # "none"
  BY DEF InsertedInv
<1>1. /\ at[t] \in Busy /\ job'[t] = job[t] /\ fresh'[t] = fresh[t]
      /\ at[t] \in {"gate", "create"} \/ receipt'[Id(t)][Window(t)] # "none"
  BY ReceiptsStay
<1>2. Id(t) \in Ids /\ Window(t) \in Windows
  BY <1>1, BusyJob
<1>3. Id(t)' = Id(t) /\ Window(t)' = Window(t)
  BY <1>1 DEF Id, Window, Slot
<1>4. receipt'[Id(t)][Window(t)] # "none"
  BY <1>1, <1>2, ReceiptsStay DEF InsertedInv
<1> QED
  BY <1>3, <1>4

(***************************************************************************)
(* No window is lost                                                       *)
(***************************************************************************)
\* the Execution of window w of s ran `in` and was dispatched or cancelled
Done(s, w, in) == receipt[s][w] \in {"dispatched", "cancelled"} /\ ranOn[s][w] = in

\* all windows of the row of s between its creation and d are settled
Passed(s, d) == plan[s].recurring /\ ~astray[s] =>
  \A m \in plan[s].minutes : born[s] < m /\ m < d => Settled(s, m)

\* A row that a tick read, however long ago, was due then: it is the present
\* row, or the present one was created later than its due time.
HeldOK(j) ==
  /\ j.due <= now
  /\ born[j.id] < j.due => j.plan = plan[j.id] /\ Passed(j.id, j.due)

SkipInv ==
  /\ NoWindowSkipped
  /\ \A t \in Ticks : \A j \in batch[t] : HeldOK(j)
  /\ \A t \in Ticks : at[t] \in Busy => HeldOK(job[t])
  /\ \A t \in Ticks : at[t] \in Fenced /\ born[job[t].id] < job[t].due => fresh[t] = plan[job[t].id]
  /\ \A t \in Ticks : at[t] = "create" => ranOn[Id(t)][Window(t)] = fresh[t].input
  /\ \A t \in Ticks : at[t] \in Late => Done(Id(t), Window(t), fresh[t].input)

\* What every step keeps: receipts stay settled and keep their input, time
\* does not run backwards, a creation happens now.
Onward ==
  /\ \A s \in Ids, w \in Windows : receipt[s][w] # "none" => ranOn'[s][w] = ranOn[s][w]
  /\ \A s \in Ids, w \in Windows : receipt[s][w] \in {"dispatched", "cancelled"}
                                     => receipt'[s][w] \in {"dispatched", "cancelled"}
  /\ now <= now'
  /\ \A s \in Ids : \/ born'[s] = now
                    \/ born'[s] = born[s] /\ plan'[s] = plan[s] /\ (astray[s] => astray'[s])

\* Every step goes onward.
LEMMA OnwardStep == TypeOK /\ [Next]_vars => Onward
<1> SUFFICES ASSUME TypeOK, [Next]_vars PROVE Onward
  OBVIOUS
<1> USE DEF clock, row, runs, world, past
<1>0. now \in 0..Horizon /\ born \in [Ids -> 0..Horizon]
      /\ receipt \in [Ids -> [Windows -> Receipts]] /\ ranOn \in [Ids -> [Windows -> Inputs]]
      /\ plan \in [Ids -> Plans] /\ astray \in [Ids -> BOOLEAN]
  BY DEF TypeOK
<1>1. now <= now'
  <2>1. CASE Minute
    BY <1>0, <2>1 DEF Minute
  <2>2. CASE ~Minute
    <3>1. now' = now
      BY <2>2 DEF Next, Scan, TickStep, Take, Fence, Authority, Insert, Gate, Create,
           Record, Mark, Clear, Advance, Accrue, Outage, Crash, Event, Blocked,
           SetEnabled, Delete, CreateSchedule, Drop, Cancelled, Expire, vars
    <3> QED
      BY <1>0, <3>1
  <2> QED
    BY <2>1, <2>2
<1>2. \A s \in Ids : \/ born'[s] = now
                     \/ born'[s] = born[s] /\ plan'[s] = plan[s] /\ (astray[s] => astray'[s])
  <2>1. ASSUME NEW c \in Ids, CreateSchedule(c), NEW s \in Ids
        PROVE  \/ born'[s] = now
               \/ born'[s] = born[s] /\ plan'[s] = plan[s] /\ (astray[s] => astray'[s])
    BY <1>0, <2>1 DEF CreateSchedule
  <2>2. ASSUME NEW t \in Ticks, Advance(t), NEW s \in Ids
        PROVE  born'[s] = born[s] /\ plan'[s] = plan[s] /\ (astray[s] => astray'[s])
    BY <1>0, <2>2 DEF Advance
  <2>3. CASE UNCHANGED <<born, plan, astray>>
    BY <2>3
  <2> QED
    BY <2>1, <2>2, <2>3 DEF Next, Minute, Scan, TickStep, Take, Fence, Authority, Insert, Gate, Create,
         Record, Mark, Clear, ClearMark, Accrue, Outage, Crash, Event, Blocked,
         SetEnabled, Delete, Drop, Cancelled, Expire, vars
<1>3. /\ \A s \in Ids, w \in Windows : receipt[s][w] # "none" => ranOn'[s][w] = ranOn[s][w]
      /\ \A s \in Ids, w \in Windows : receipt[s][w] \in {"dispatched", "cancelled"}
                                         => receipt'[s][w] \in {"dispatched", "cancelled"}
  <2>1. ASSUME NEW t \in Ticks, Insert(t) \/ Create(t)
        PROVE  /\ \A s \in Ids, w \in Windows : receipt[s][w] # "none" => ranOn'[s][w] = ranOn[s][w]
               /\ \A s \in Ids, w \in Windows : receipt[s][w] \in {"dispatched", "cancelled"}
                                                  => receipt'[s][w] \in {"dispatched", "cancelled"}
    <3>1. Id(t) \in Ids /\ Window(t) \in Windows
      BY <2>1, BusyJob DEF Insert, Create, Busy
    <3>2. CASE Insert(t)
      <4>1. CASE receipt[Id(t)][Window(t)] = "none"
        <5>1. /\ receipt' = [receipt EXCEPT ![Id(t)][Window(t)] = "pending"]
              /\ ranOn' = [ranOn EXCEPT ![Id(t)][Window(t)] = fresh[t].input]
          BY <3>2, <4>1 DEF Insert
        <5>2. ASSUME NEW s \in Ids, NEW w \in Windows, receipt[s][w] # "none"
              PROVE  receipt'[s][w] = receipt[s][w] /\ ranOn'[s][w] = ranOn[s][w]
          BY <1>0, <3>1, <4>1, <5>1, <5>2
        <5> QED
          BY <5>2
      <4>2. CASE receipt[Id(t)][Window(t)] # "none"
        BY <3>2, <4>2 DEF Insert
      <4> QED
        BY <4>1, <4>2
    <3>3. CASE Create(t)
      BY <1>0, <3>1, <3>3 DEF Create
    <3> QED
      BY <2>1, <3>2, <3>3
  <2>2. ASSUME NEW c \in Ids, Cancelled(c) \/ Expire(c)
        PROVE  /\ UNCHANGED ranOn
               /\ \A s \in Ids, w \in Windows : receipt[s][w] \in {"dispatched", "cancelled"}
                                                  => receipt'[s][w] \in {"dispatched", "cancelled"}
    BY <1>0, <2>2 DEF Cancelled, Expire
  <2>3. CASE UNCHANGED runs
    BY <2>3
  <2> QED
    BY <2>1, <2>2, <2>3 DEF Next, Minute, Scan, TickStep, Take, Fence, Authority, Gate,
         Record, Mark, Clear, ClearMark, Advance, Accrue, Outage, Crash, Event, Blocked,
         SetEnabled, Delete, CreateSchedule, Drop, vars
<1> QED
  BY <1>1, <1>2, <1>3 DEF Onward

\* the numbers the arguments compare
LEMMA Numbers ==
  ASSUME TypeOK, NEW j \in Jobs
  PROVE  /\ now \in Nat /\ j.due \in Nat /\ j.id \in Ids /\ j.plan \in Plans
         /\ born[j.id] \in Nat /\ plan[j.id] \in Plans
<1>1. now \in 0..Horizon /\ born \in [Ids -> 0..Horizon] /\ plan \in [Ids -> Plans]
  BY DEF TypeOK
<1>2. j.due \in Minutes /\ j.id \in Ids /\ j.plan \in Plans
  BY DEF Jobs
<1>3. born[j.id] \in 0..Horizon
  BY <1>1, <1>2
<1> QED
  BY <1>1, <1>2, <1>3, Times

\* a settled window stays settled for the row
LEMMA SettledStays ==
  ASSUME TypeOK, Onward, NEW s \in Ids, NEW m \in Minutes, Settled(s, m), plan'[s] = plan[s]
  PROVE  Settled(s, m)'
<1>1. <<plan[s].owner, m>> \in Windows
  BY PlanColumns DEF TypeOK, Windows
<1> QED
  BY <1>1 DEF Settled, Onward

\* what has passed of a row stays passed
LEMMA PassedStays ==
  ASSUME TypeOK, Onward, NEW s \in Ids, NEW d, Passed(s, d),
         born'[s] = born[s], plan'[s] = plan[s], astray[s] => astray'[s]
  PROVE  Passed(s, d)'
<1> SUFFICES ASSUME plan'[s].recurring, ~astray'[s], NEW m \in plan'[s].minutes,
                    born'[s] < m, m < d
             PROVE  Settled(s, m)'
  BY DEF Passed
<1>1. m \in Minutes
  BY PlanColumns DEF TypeOK
<1>2. Settled(s, m)
  BY DEF Passed
<1> QED
  BY <1>1, <1>2, SettledStays

\* so what a tick holds stays right, however stale it gets: a row that is
\* created meanwhile is younger than it
LEMMA HeldStays ==
  ASSUME TypeOK, TypeOK', Onward, NEW j \in Jobs, HeldOK(j)
  PROVE  HeldOK(j)'
<1>1. now \in Nat /\ now' \in Nat /\ j.due \in Nat /\ j.id \in Ids
      /\ born[j.id] \in Nat /\ born'[j.id] \in Nat
  <2>1. now' \in 0..Horizon /\ born' \in [Ids -> 0..Horizon] /\ j.id \in Ids
    BY DEF TypeOK, Jobs
  <2>2. born'[j.id] \in 0..Horizon
    BY <2>1
  <2> QED
    BY <2>1, <2>2, Times, Numbers
<1>2. j.due <= now'
  BY <1>1 DEF HeldOK, Onward
<1>3. ASSUME born'[j.id] < j.due PROVE j.plan = plan'[j.id] /\ Passed(j.id, j.due)'
  <2>1. /\ born'[j.id] = born[j.id] /\ plan'[j.id] = plan[j.id]
        /\ astray[j.id] => astray'[j.id]
    BY <1>1, <1>3 DEF HeldOK, Onward
  <2>2. j.plan = plan[j.id] /\ Passed(j.id, j.due)
    BY <1>3, <2>1 DEF HeldOK
  <2> QED
    BY <1>1, <2>1, <2>2, PassedStays
<1> QED
  BY <1>2, <1>3 DEF HeldOK

\* there is no window between a minute and the next due one
LEMMA NextIsNext ==
  ASSUME NEW p \in Plans, NEW m \in Nat, NEW d \in NextDues(p, m),
         NEW w \in p.minutes, m < w
  PROVE  d <= w
<1>1. w \in Nat /\ d \in Nat /\ d <= m + Year
  BY PlanColumns DEF NextDues, Later
<1>2. CASE w \in Later(p, m)
  BY <1>2 DEF NextDues
<1>3. CASE w \notin Later(p, m)
  BY <1>1, <1>3 DEF Later
<1> QED
  BY <1>2, <1>3

\* A new row has lost nothing: its due minute is the first match.
LEMMA FirstIsFirst ==
  ASSUME NEW p \in Plans, NEW m \in Nat, NEW d \in FirstDues(p, m)
  PROVE  /\ d # 0
         /\ p.recurring => \A w \in p.minutes : ~(m < w /\ w < d)
<1>1. d \in p.minutes
  BY DEF FirstDues, NextDues, Later
<1>2. ASSUME p.recurring, NEW w \in p.minutes, m < w, w < d PROVE FALSE
  <2>1. d <= w
    BY <1>2, NextIsNext DEF FirstDues
  <2>2. w \in Nat /\ d \in Nat
    BY <1>1, PlanColumns
  <2> QED
    BY <1>2, <2>1, <2>2
<1> QED
  BY <1>1, <1>2, PlanColumns

\* SkipInv holds at first
LEMMA SkipInit == Init => SkipInv
<1> SUFFICES ASSUME Init PROVE SkipInv
  OBVIOUS
<1> PICK cast \in Casts : Init!(cast)
  BY DEF Init
<1>1. NoWindowSkipped
  <2> SUFFICES ASSUME NEW s \in Ids, exists[s]
               PROVE  /\ due[s] # 0
                      /\ plan[s].recurring => \A m \in plan[s].minutes : ~(born[s] < m /\ m < due[s])
    BY DEF NoWindowSkipped
  <2>1. due[s] \in FirstDues(plan[s], 0) /\ born[s] = 0 /\ plan[s] \in Plans
    BY ScheduleAssumption
  <2> QED
    BY <2>1, FirstIsFirst
<1>2. \A t \in Ticks : batch[t] = {} /\ at[t] \in {"absent", "idle"}
  OBVIOUS
<1> QED
  BY <1>1, <1>2 DEF SkipInv, Busy, Late, Fenced

\* what NoWindowSkipped says of one row
RowOK(s) == /\ Passed(s, due[s])
            /\ ~plan[s].recurring /\ ~astray[s] /\ due[s] = 0 => Settled(s, 0)

LEMMA RowsOK == TypeOK => (NoWindowSkipped <=> \A s \in Ids : exists[s] => RowOK(s))
<1> SUFFICES ASSUME TypeOK, NEW s \in Ids
             PROVE  (exists[s] /\ ~astray[s] =>
                       IF plan[s].recurring
                       THEN \A m \in plan[s].minutes : born[s] < m /\ m < due[s] => Settled(s, m)
                       ELSE due[s] = 0 => Settled(s, 0))
                    <=> (exists[s] => RowOK(s))
  BY DEF NoWindowSkipped
<1>1. plan[s].recurring \in BOOLEAN /\ exists[s] \in BOOLEAN /\ astray[s] \in BOOLEAN
  BY PlanColumns DEF TypeOK
<1> QED
  BY <1>1 DEF RowOK, Passed

\* a row that no step moves
LEMMA RowStays ==
  ASSUME TypeOK, Onward, NEW s \in Ids, RowOK(s), due'[s] = due[s],
         born'[s] = born[s], plan'[s] = plan[s], astray[s] => astray'[s]
  PROVE  RowOK(s)'
<1>1. ASSUME NEW m \in Minutes, Settled(s, m) PROVE Settled(s, m)'
  BY <1>1, SettledStays
<1>2. 0 \in Minutes /\ \A m \in plan[s].minutes : m \in Minutes
  BY PlanColumns DEF TypeOK
<1> QED
  BY <1>1, <1>2 DEF RowOK, Passed

\* A tick that does not go by another plan moves the row past settled windows.
LEMMA AdvanceRow ==
  ASSUME TypeOK, TypeOK', Onward, SkipInv, NEW t \in Ticks, Advance(t),
         NEW s \in Ids, s = Id(t), exists[s], RowOK(s)
  PROVE  RowOK(s)'
<1>0. at[t] \in Busy /\ at[t] \in Late /\ at[t] \in Fenced
  BY DEF Advance, Busy, Late, Fenced
<1>1. /\ job[t] \in Jobs /\ s \in Ids /\ s = job[t].id /\ plan[s] \in Plans /\ job[t].plan \in Plans
      /\ job[t].due \in Nat /\ born[s] \in Nat /\ fresh[t] \in Plans
  BY <1>0, BusyJob, Numbers DEF Id
<1>2. born'[s] = born[s] /\ plan' = plan /\ exists' = exists
  BY DEF Advance, world
<1>3. Done(s, Window(t), fresh[t].input)
  BY <1>0 DEF SkipInv
<1>4. CASE astray'[s]
  BY <1>4 DEF RowOK, Passed
<1>5. CASE ~astray'[s]
  <2>1. ~astray[s] /\ ~Strange(t)
    BY <1>1, <1>5 DEF Advance, TypeOK
  <2>2. plan[s].recurring = job[t].plan.recurring
    BY <2>1 DEF Strange
  <2>3. CASE ~plan[s].recurring
    <3>1. plan[s].owner = fresh[t].owner /\ plan[s].input = fresh[t].input
      BY <2>1, <2>3 DEF Strange
    <3>2. Settled(s, 0)
      BY <1>3, <2>2, <2>3, <3>1 DEF Settled, Done, Window, Slot
    <3>3. Settled(s, 0)'
      BY <1>1, <1>2, <3>2, SettledStays
    <3> QED
      BY <1>2, <2>3, <3>3 DEF RowOK, Passed
  <2>4. CASE plan[s].recurring
    <3>1. plan[s].minutes = job[t].plan.minutes
      BY <2>1, <2>4 DEF Strange
    <3>2. CASE due'[s] = due[s]
      BY <1>2, <2>1, <3>2, RowStays
    <3>3. CASE due'[s] # due[s]
      <4>1. due'[s] \in NextDues(job[t].plan, job[t].due)
        BY <1>1, <2>2, <2>4, <3>3 DEF Advance, DueAfter, TypeOK
      <4>2. ASSUME NEW m \in plan[s].minutes, born[s] < m, m < due'[s]
            PROVE  Settled(s, m)'
        <5>1. m \in Nat /\ m \in Minutes /\ due'[s] \in Nat
          BY <1>1, PlanColumns, Times DEF TypeOK
        <5>2. ~(job[t].due < m)
          <6>1. job[t].due < m => due'[s] <= m
            BY <1>1, <3>1, <4>1, NextIsNext
          <6> QED
            BY <4>2, <5>1, <6>1
        <5>3. born[s] < job[t].due
          BY <1>1, <4>2, <5>1, <5>2
        <5>4. fresh[t] = plan[s] /\ Passed(s, job[t].due)
          BY <1>0, <1>1, <5>3 DEF SkipInv, HeldOK
        <5>5. Settled(s, m)
          <6>1. CASE m = job[t].due
            BY <1>3, <2>2, <2>4, <5>4, <6>1 DEF Settled, Done, Window, Slot
          <6>2. CASE m < job[t].due
            BY <2>1, <2>4, <4>2, <5>4, <6>2 DEF Passed
          <6> QED
            BY <1>1, <5>1, <5>2, <6>1, <6>2
        <5> QED
          BY <1>1, <1>2, <5>1, <5>5, SettledStays
      <4> QED
        BY <1>2, <2>4, <4>2 DEF RowOK, Passed
    <3> QED
      BY <3>2, <3>3
  <2> QED
    BY <1>1, <2>3, <2>4, PlanColumns
<1> QED
  BY <1>1, <1>4, <1>5 DEF TypeOK

\* the scheduled rows: a step that moves next_due_at moves it past settled windows
LEMMA SkipRows ==
  ASSUME TypeOK, TypeOK', Onward, SkipInv, [Next]_vars
  PROVE  NoWindowSkipped'
<1> USE DEF clock, row, runs, world, past
<1> SUFFICES ASSUME NEW s \in Ids, exists'[s] PROVE RowOK(s)'
  <2>1. \A s \in Ids : plan'[s].recurring \in BOOLEAN
    BY PlanColumns DEF TypeOK
  <2> QED
    BY <2>1 DEF NoWindowSkipped, RowOK, Passed
<1>0. /\ due \in [Ids -> Minutes] /\ born \in [Ids -> 0..Horizon] /\ plan \in [Ids -> Plans]
      /\ exists \in [Ids -> BOOLEAN] /\ astray \in [Ids -> BOOLEAN] /\ now \in Nat
  BY Times DEF TypeOK
<1>1. ASSUME exists'[s] = exists[s], due'[s] = due[s], born'[s] = born[s],
             plan'[s] = plan[s], astray'[s] = astray[s]
      PROVE  RowOK(s)'
  <2>1. RowOK(s)
    BY <1>1, RowsOK DEF SkipInv
  <2> QED
    BY <1>1, <2>1, RowStays
<1>2. ASSUME NEW t \in Ticks, Advance(t) PROVE RowOK(s)'
  <2>0. at[t] \in Busy /\ exists' = exists /\ born' = born /\ plan' = plan /\ Id(t) \in Ids
    BY <1>2, BusyJob DEF Advance, Busy
  <2>1. CASE s # Id(t)
    <3>1. due'[s] = due[s] /\ astray'[s] = astray[s]
      BY <1>0, <1>2, <2>1 DEF Advance
    <3> QED
      BY <1>1, <2>0, <3>1
  <2>2. CASE s = Id(t)
    <3>1. exists[s] /\ RowOK(s)
      BY <2>0, <2>2, RowsOK DEF SkipInv
    <3> QED
      BY <1>2, <2>2, <3>1, AdvanceRow
  <2> QED
    BY <2>1, <2>2
<1>3. ASSUME NEW c \in Ids, CreateSchedule(c) PROVE RowOK(s)'
  <2>1. CASE s # c
    BY <1>0, <1>1, <1>3, <2>1 DEF CreateSchedule
  <2>2. CASE s = c
    <3>1. plan'[s] \in Plans /\ due'[s] \in FirstDues(plan'[s], now) /\ born'[s] = now
      BY <1>0, <1>3, <2>2 DEF CreateSchedule
    <3>2. /\ due'[s] # 0
          /\ plan'[s].recurring => \A w \in plan'[s].minutes : ~(now < w /\ w < due'[s])
      BY <1>0, <3>1, FirstIsFirst
    <3> QED
      BY <3>1, <3>2 DEF RowOK, Passed
  <2> QED
    BY <2>1, <2>2
<1>4. ASSUME NEW c \in Ids, Delete(c) PROVE RowOK(s)'
  <2>1. s # c
    BY <1>0, <1>4 DEF Delete
  <2> QED
    BY <1>0, <1>1, <1>4, <2>1 DEF Delete
<1>5. CASE UNCHANGED <<exists, due, born, plan, astray>>
  BY <1>1, <1>5
<1> QED
  BY <1>2, <1>3, <1>4, <1>5 DEF Next, Minute, Scan, TickStep, Take, Fence, Authority,
       Insert, Gate, Create, Record, Mark, ClearMark, Clear, Accrue, Outage, Crash, Event,
       Blocked, SetEnabled, Drop, Cancelled, Expire, vars

\* the rows the ticks hold
LEMMA SkipJobs ==
  ASSUME TypeOK, TypeOK', Onward, SkipInv, [Next]_vars
  PROVE  /\ \A t \in Ticks : \A j \in batch'[t] : HeldOK(j)'
         /\ \A t \in Ticks : at'[t] \in Busy => HeldOK(job[t])'
<1> USE DEF clock, row, runs, world, past
<1>0. \A t \in Ticks : batch[t] \subseteq Jobs /\ batch'[t] \subseteq Jobs
  BY DEF TypeOK, TickTypeOK
<1>1. \A t \in Ticks : at[t] \in Busy => job[t] \in Jobs
  BY BusyJob
<1>2. CASE JobsPass
  <2>1. ASSUME NEW t \in Ticks, NEW j \in batch'[t] PROVE HeldOK(j)'
    <3>1. j \in batch[t] /\ j \in Jobs
      BY <1>0, <1>2, <2>1 DEF JobsPass
    <3>2. HeldOK(j)
      BY <3>1 DEF SkipInv
    <3> QED
      BY <3>1, <3>2, HeldStays
  <2>2. ASSUME NEW t \in Ticks, at'[t] \in Busy PROVE HeldOK(job[t])'
    <3>1. PICK j \in Jobs : j = job'[t] /\ HeldOK(j)
      BY <1>0, <1>1, <1>2, <2>2 DEF JobsPass, SkipInv
    <3>2. HeldOK(j)'
      BY <3>1, HeldStays
    <3> QED
      BY <3>1, <3>2 DEF HeldOK, Passed, Settled
  <2> QED
    BY <2>1, <2>2
<1>3. ASSUME NEW t \in Ticks, Scan(t) PROVE \A u \in Ticks :
         /\ \A j \in batch'[u] : HeldOK(j)'
         /\ at'[u] \in Busy => HeldOK(job[u])'
  <2> PICK read \in SUBSET {s \in Ids : DueRow(s)} :
           /\ batch' = [batch EXCEPT ![t] = {Read(s) : s \in read}]
           /\ at' = [at EXCEPT ![t] = IF read = {} THEN "idle" ELSE "next"]
           /\ UNCHANGED <<job, fresh>>
    BY <1>3, ScanBatch
  <2>1. ASSUME NEW u \in Ticks, NEW j \in batch'[u] PROVE HeldOK(j)'
    <3>1. CASE j \in batch[u]
      <4>1. HeldOK(j) /\ j \in Jobs
        BY <1>0, <3>1 DEF SkipInv
      <4> QED
        BY <4>1, HeldStays
    <3>2. CASE j \notin batch[u]
      <4>1. PICK s \in read : j = Read(s)
        BY <2>1, <3>2 DEF TypeOK, TickTypeOK
      <4>2. s \in Ids /\ exists[s] /\ due[s] <= now
        BY DEF DueRow
      <4>3. Passed(s, due[s])
        BY <4>2, RowsOK DEF SkipInv, RowOK
      <4>4. j.id = s /\ j.due = due[s] /\ j.plan = plan[s] /\ j \in Jobs
        BY <1>0, <2>1, <4>1 DEF Read
      <4>5. HeldOK(j)
        BY <4>2, <4>3, <4>4 DEF HeldOK
      <4> QED
        BY <4>4, <4>5, HeldStays
    <3> QED
      BY <3>1, <3>2
  <2>2. ASSUME NEW u \in Ticks, at'[u] \in Busy PROVE HeldOK(job[u])'
    <3>1. at[u] \in Busy /\ job'[u] = job[u]
      BY <2>2 DEF TypeOK, TickTypeOK, Busy
    <3>2. PICK j \in Jobs : j = job'[u] /\ HeldOK(j)
      BY <1>1, <3>1 DEF SkipInv
    <3>3. HeldOK(j)'
      BY <3>2, HeldStays
    <3> QED
      BY <3>2, <3>3 DEF HeldOK, Passed, Settled
  <2> QED
    BY <2>1, <2>2
<1>4. CASE UNCHANGED tick
  BY <1>2, <1>4 DEF tick, JobsPass
<1> QED
  BY <1>2, <1>3, <1>4, StepPasses DEF Next, Minute, Event,
       Blocked, SetEnabled, Delete, CreateSchedule, Drop, Cancelled, Expire, vars

\* what a fence re-read is the row that the tick scanned, unless a younger one
\* has come
LEMMA SkipFresh ==
  ASSUME TypeOK, TypeOK', Onward, SkipInv, [Next]_vars, FreshPass
  PROVE  \A t \in Ticks : at'[t] \in Fenced /\ born'[job'[t].id] < job'[t].due
           => fresh'[t] = plan'[job'[t].id]
<1> SUFFICES ASSUME NEW t \in Ticks, at'[t] \in Fenced, born'[job'[t].id] < job'[t].due
             PROVE  fresh'[t] = plan'[job'[t].id]
  OBVIOUS
<1>1. /\ at[t] \in Busy /\ job'[t] = job[t] /\ job[t] \in Jobs
      /\ \/ at[t] \in Fenced /\ fresh'[t] = fresh[t]
         \/ at[t] = "fence" /\ at'[t] = "authority" /\ fresh'[t] = plan[Id(t)]
  BY BusyJob DEF FreshPass
<1>2. /\ job[t].due <= now /\ now \in Nat /\ job[t].due \in Nat /\ job[t].id \in Ids
  BY <1>1, Numbers DEF SkipInv, HeldOK
<1>3. born'[job[t].id] = born[job[t].id] /\ plan'[job[t].id] = plan[job[t].id]
  BY <1>1, <1>2 DEF Onward
<1>4. CASE at[t] \in Fenced /\ fresh'[t] = fresh[t]
  BY <1>1, <1>3, <1>4 DEF SkipInv
<1>5. CASE fresh'[t] = plan[Id(t)]
  BY <1>1, <1>3, <1>5 DEF Id
<1> QED
  BY <1>1, <1>4, <1>5

\* A tick comes to `create`, and past it, only with a receipt of what it runs.
Entered(u) == at[u] = "gate" /\ ranOn[Id(u)][Window(u)] = fresh[u].input

Ended(u) == at[u] = "create" /\ receipt'[Id(u)][Window(u)] \in {"dispatched", "cancelled"}

Lands == \A u \in Ticks :
  /\ at'[u] = "create" => (at[u] = "create" \/ Entered(u))
  /\ at'[u] \in Late =>
       (at[u] \in Late \/ Done(Id(u), Window(u), fresh[u].input) \/ Ended(u))

\* most steps bring no tick there
LEMMA StillLands ==
  ASSUME \A u \in Ticks : at'[u] \in Late \union {"create"} => at'[u] = at[u]
  PROVE  Lands
BY DEF Lands, Late

\* who ends a row does not come there
LEMMA EndJobLands ==
  ASSUME TypeOK, NEW t \in Ticks, NEW rest, EndJob(t, rest)
  PROVE  Lands
<1>1. \A u \in Ticks : at'[u] \in Late \union {"create"} => at'[u] = at[u]
  BY DEF TypeOK, TickTypeOK, EndJob, Late
<1> QED
  BY <1>1, StillLands

\* who goes on comes there with a settled window
LEMMA GotoLands ==
  ASSUME TypeOK, NEW t \in Ticks, NEW place, Goto(t, place),
         place = "create" => Entered(t),
         place \in Late => (at[t] \in Late \/ Done(Id(t), Window(t), fresh[t].input) \/ Ended(t))
  PROVE  Lands
<1>1. \A u \in Ticks : at'[u] = IF u = t THEN place ELSE at[u]
  BY DEF TypeOK, TickTypeOK, Goto
<1> QED
  BY <1>1 DEF Lands

\* a refusal does not come there
LEMMA RefuseLands ==
  ASSUME TypeOK, NEW t \in Ticks, NEW code, Refuse(t, code)
  PROVE  Lands
BY EndJobLands, GotoLands DEF Refuse, Abort, Late

\* every step of a tick comes there by way of its receipt
LEMMA StepLands ==
  ASSUME TypeOK, NEW t \in Ticks, TickStep(t) \/ Outage(t) \/ Crash(t)
  PROVE  Lands
<1>1. CASE Take(t)
  <2>1. \A u \in Ticks : at'[u] \in Late \union {"create"} => at'[u] = at[u]
    BY <1>1 DEF Take, TypeOK, TickTypeOK, Late
  <2> QED
    BY <2>1, StillLands
<1>2. CASE Fence(t)
  <2>1. CASE exists[Id(t)] /\ enabled[Id(t)]
    <3>1. \A u \in Ticks : at'[u] \in Late \union {"create"} => at'[u] = at[u]
      BY <1>2, <2>1 DEF Fence, TypeOK, TickTypeOK, Late
    <3> QED
      BY <3>1, StillLands
  <2>2. CASE ~(exists[Id(t)] /\ enabled[Id(t)])
    BY <1>2, <2>2, RefuseLands DEF Fence
  <2> QED
    BY <2>1, <2>2
<1>3. CASE Authority(t)
  BY <1>3, GotoLands, RefuseLands DEF Authority, Late
<1>4. CASE Gate(t)
  <2> DEFINE held == receipt[Id(t)][Window(t)]
  <2>1. \/ \E code : Refuse(t, code)
        \/ /\ ranOn[Id(t)][Window(t)] = fresh[t].input
           /\ Goto(t, "create") \/ (held = "dispatched" /\ Goto(t, "record"))
    BY <1>4 DEF Gate
  <2>2. CASE /\ ranOn[Id(t)][Window(t)] = fresh[t].input
             /\ Goto(t, "create") \/ (held = "dispatched" /\ Goto(t, "record"))
    BY <1>4, <2>2, GotoLands DEF Gate, Late, Done, Entered
  <2> QED
    BY <2>1, <2>2, RefuseLands
<1>5. CASE Insert(t)
  BY <1>5, GotoLands DEF Insert, Late
<1>6. CASE Create(t)
  <2>1. at[t] = "create" /\ Id(t) \in Ids /\ Window(t) \in Windows
    BY <1>6, BusyJob DEF Create, Busy
  <2>2. receipt'[Id(t)][Window(t)] \in {"dispatched", "cancelled"}
    BY <1>6, <2>1 DEF Create, TypeOK
  <2> QED
    BY <1>6, <2>1, <2>2, GotoLands DEF Create, Ended
<1>7. CASE Record(t) \/ Mark(t) \/ Clear(t)
  BY <1>7, GotoLands DEF Record, Mark, Clear, Late
<1>8. CASE Advance(t) \/ Accrue(t) \/ Outage(t) \/ Crash(t)
  BY <1>8, EndJobLands DEF Advance, Accrue, Outage, Crash, Abort
<1> QED
  BY <1>1, <1>2, <1>3, <1>4, <1>5, <1>6, <1>7, <1>8 DEF TickStep

\* whatever happens in between, the window of a tick stays settled
LEMMA SkipSettled ==
  ASSUME TypeOK, Onward, SkipInv, InsertedInv, [Next]_vars, FreshPass
  PROVE  /\ \A t \in Ticks : at'[t] = "create" => (ranOn[Id(t)][Window(t)] = fresh[t].input)'
         /\ \A t \in Ticks : at'[t] \in Late => Done(Id(t), Window(t), fresh[t].input)'
<1>1. Lands
  <2>1. ASSUME NEW t \in Ticks, Scan(t) PROVE Lands
    <3>1. \A u \in Ticks : at'[u] \in Late \union {"create"} => at'[u] = at[u]
      BY <2>1, ScanBatch DEF TypeOK, TickTypeOK, Late
    <3> QED
      BY <3>1, StillLands
  <2>2. CASE UNCHANGED tick
    BY <2>2, StillLands DEF tick
  <2> QED
    BY <2>1, <2>2, StepLands DEF Next, Minute, Event, Blocked, SetEnabled, Delete,
         CreateSchedule, Drop, Cancelled, Expire, vars
<1> SUFFICES ASSUME NEW t \in Ticks, at'[t] \in Late \union {"create"}
             PROVE  /\ ranOn'[Id(t)'][Window(t)'] = fresh'[t].input
                    /\ at'[t] \in Late => receipt'[Id(t)'][Window(t)'] \in {"dispatched", "cancelled"}
  BY DEF Done
<1>2. /\ at[t] \in Fenced /\ job'[t] = job[t] /\ fresh'[t] = fresh[t]
      /\ Id(t)' = Id(t) /\ Window(t)' = Window(t)
  BY DEF FreshPass, Fenced, Late, Id, Window, Slot
<1>3. Id(t) \in Ids /\ Window(t) \in Windows
  BY <1>2, BusyJob DEF Fenced, Late, Busy
<1>4. CASE at[t] \in Late \/ Done(Id(t), Window(t), fresh[t].input)
  BY <1>2, <1>3, <1>4 DEF SkipInv, Done, Onward
<1>5. CASE ~(at[t] \in Late \/ Done(Id(t), Window(t), fresh[t].input))
  <2>1. /\ at[t] \in {"gate", "create"} /\ ranOn[Id(t)][Window(t)] = fresh[t].input
        /\ at'[t] \in Late => receipt'[Id(t)][Window(t)] \in {"dispatched", "cancelled"}
    BY <1>1, <1>5 DEF Lands, SkipInv, Late, Entered, Ended
  <2>2. ranOn'[Id(t)][Window(t)] = fresh[t].input
    BY <1>3, <2>1 DEF Onward, InsertedInv
  <2> QED
    BY <1>2, <2>1, <2>2
<1> QED
  BY <1>4, <1>5

\* SkipInv is inductive on top of the types and the receipts.
LEMMA SkipStep == TypeOK /\ InsertedInv /\ SkipInv /\ [Next]_vars => SkipInv'
<1> SUFFICES ASSUME TypeOK, InsertedInv, SkipInv, [Next]_vars PROVE SkipInv'
  OBVIOUS
<1>1. TypeOK' /\ Onward /\ FreshPass
  BY TypeStep, OnwardStep, FreshStep
<1> QED
  BY <1>1, SkipRows, SkipJobs, SkipFresh, SkipSettled DEF SkipInv

\* Nothing that ticks, operators, outages and crashes do in any order moves
\* next_due_at past a window of the row that was not promoted for it or
\* cancelled, unless a tick goes by the plan of an earlier row of the name.
THEOREM NoWindowLost == Spec => []NoWindowSkipped
<1>1. Init => TypeOK /\ InsertedInv /\ SkipInv
  BY TypeInit, InsertedInit, SkipInit
<1>2. TypeOK /\ InsertedInv /\ SkipInv /\ [Next]_vars => (TypeOK /\ InsertedInv /\ SkipInv)'
  BY TypeStep, InsertedStep, SkipStep
<1>3. SkipInv => NoWindowSkipped
  BY DEF SkipInv
<1> QED
  BY <1>1, <1>2, <1>3, PTL DEF Spec

(***************************************************************************)
(* A row is parked only after QuarantineAfter refusals                     *)
(***************************************************************************)
\* No streak, on a row or read by a tick, is longer than the refusals of the
\* row so far, and a tick about to accrue has counted its own.
ParkInv ==
  /\ \A s \in Ids : mark[s] <= refusals[s]
  /\ \A t \in Ticks : \A j \in batch[t] : j.mark <= refusals[j.id]
  /\ \A t \in Ticks : at[t] \in Busy => job[t].mark <= refusals[job[t].id]
  /\ \A t \in Ticks : at[t] = "accrue" => SkipStreak(job[t].mark) + 1 <= refusals[job[t].id]

\* refusals are never forgotten
Counts == \A s \in Ids : refusals[s] <= refusals'[s]

\* streaks and counts are numbers
LEMMA Streaks ==
  ASSUME TypeOK
  PROVE  /\ \A s \in Ids : mark[s] \in 0..QuarantineAfter /\ refusals[s] \in 0..QuarantineAfter
         /\ \A t \in Ticks : at[t] \in Busy => job[t].mark \in 0..QuarantineAfter /\ job[t].id \in Ids
         /\ \A t \in Ticks : \A j \in batch[t] : j.mark \in 0..QuarantineAfter /\ j.id \in Ids
<1>1. \A s \in Ids : mark[s] \in 0..QuarantineAfter /\ refusals[s] \in 0..QuarantineAfter
  BY DEF TypeOK
<1>2. \A j \in Jobs : j.mark \in 0..QuarantineAfter /\ j.id \in Ids
  BY DEF Jobs
<1>3. \A t \in Ticks : batch[t] \subseteq Jobs
  BY DEF TypeOK, TickTypeOK
<1> QED
  BY <1>1, <1>2, <1>3, BusyJob

\* a refusal counts at most one
LEMMA RefuseCounts ==
  ASSUME TypeOK, NEW t \in Ticks, at[t] \in Busy, NEW code, Refuse(t, code)
  PROVE  Counts
<1>1. refusals \in [Ids -> 0..QuarantineAfter]
  BY DEF TypeOK
<1>2. \A s \in Ids : refusals[s] \in Nat
  BY <1>1
<1>3. refusals' = [refusals EXCEPT ![Id(t)] =
       IF code \in PersistentFences /\ @ < QuarantineAfter THEN @ + 1 ELSE @]
  BY DEF Refuse
<1> QED
  BY <1>1, <1>2, <1>3 DEF Counts

\* only refusals change the count
LEMMA CountsStep ==
  ASSUME TypeOK, [Next]_vars
  PROVE  Counts
<1> USE DEF clock, row, runs, tick, world, past
<1>1. CASE UNCHANGED refusals
  <2>1. \A s \in Ids : refusals[s] \in 0..QuarantineAfter
    BY DEF TypeOK
  <2> QED
    BY <1>1, <2>1 DEF Counts
<1>2. ASSUME NEW t \in Ticks, Fence(t) PROVE Counts
  BY <1>1, <1>2, RefuseCounts DEF Fence, Busy
<1>3. ASSUME NEW t \in Ticks, Authority(t) PROVE Counts
  BY <1>1, <1>3, RefuseCounts DEF Authority, Busy
<1>4. ASSUME NEW t \in Ticks, Gate(t) PROVE Counts
  BY <1>1, <1>4, RefuseCounts DEF Gate, Busy
<1> QED
  BY <1>1, <1>2, <1>3, <1>4 DEF Next, Minute, Scan, TickStep, Take, Insert, Create, Record,
       Mark, Clear, Advance, Accrue, Outage, Crash, Event, Blocked, SetEnabled, Delete,
       CreateSchedule, Drop, Cancelled, Expire, vars

\* the streak a tick accrues stays within the count of its row
LEMMA AccrueWithin ==
  ASSUME TypeOK, ParkInv, NEW t \in Ticks, at[t] = "accrue"
  PROVE  SkipStreak(job[t].mark) + 1 \in 0..QuarantineAfter
         /\ SkipStreak(job[t].mark) + 1 <= refusals[Id(t)]
<1>1. /\ Id(t) = job[t].id /\ Id(t) \in Ids
      /\ job[t].mark \in 0..QuarantineAfter /\ refusals[Id(t)] \in 0..QuarantineAfter
  BY Streaks, BusyJob DEF Id, Busy
<1>2. SkipStreak(job[t].mark) \in 0..QuarantineAfter
  BY <1>1 DEF SkipStreak
<1>3. SkipStreak(job[t].mark) + 1 <= refusals[Id(t)]
  BY <1>1 DEF ParkInv
<1> QED
  BY <1>1, <1>2, <1>3

\* the rows: only accruing makes a streak longer
LEMMA ParkRows ==
  ASSUME TypeOK, TypeOK', Counts, ParkInv, [Next]_vars
  PROVE  \A s \in Ids : mark'[s] <= refusals'[s]
<1> USE DEF clock, row, runs, tick, world, past
<1> SUFFICES ASSUME NEW s \in Ids PROVE mark'[s] <= refusals'[s]
  OBVIOUS
<1>0. /\ mark[s] \in 0..QuarantineAfter /\ refusals[s] \in 0..QuarantineAfter
      /\ refusals'[s] \in 0..QuarantineAfter /\ mark \in [Ids -> 0..QuarantineAfter]
  BY DEF TypeOK
<1>1. CASE mark'[s] = mark[s]
  BY <1>0, <1>1 DEF Counts, ParkInv
<1>2. CASE mark'[s] = 0
  BY <1>0, <1>2
<1>3. ASSUME NEW r, ClearMark(r) PROVE mark'[s] = mark[s] \/ mark'[s] = 0
  BY <1>0, <1>3 DEF ClearMark
<1>4. ASSUME NEW t \in Ticks, Accrue(t) PROVE mark'[s] <= refusals'[s]
  <2> DEFINE streak == SkipStreak(job[t].mark) + 1
  <2>1. /\ streak \in 0..QuarantineAfter /\ streak <= refusals[Id(t)] /\ UNCHANGED refusals
        /\ Id(t) \in Ids
    BY <1>4, AccrueWithin, BusyJob DEF Accrue, Busy
  <2>2. /\ streak >= QuarantineAfter => streak = QuarantineAfter
        /\ \/ mark'[s] = mark[s]
           \/ s = Id(t) /\ streak >= QuarantineAfter /\ mark'[s] = QuarantineAfter
           \/ s = Id(t) /\ mark'[s] = streak
    <3>1. streak >= QuarantineAfter => streak = QuarantineAfter
      BY <2>1
    <3> HIDE DEF streak
    <3>2. mark' = IF streak >= QuarantineAfter
                  THEN [mark EXCEPT ![Id(t)] = IF exists[Id(t)] THEN QuarantineAfter ELSE @]
                  ELSE [mark EXCEPT ![Id(t)] = IF exists[Id(t)] /\ enabled[Id(t)] THEN streak ELSE @]
      BY <1>4 DEF Accrue, streak
    <3> QED
      BY <1>0, <2>1, <3>1, <3>2
  <2> HIDE DEF streak
  <2> QED
    BY <1>0, <1>1, <2>1, <2>2
<1>5. ASSUME NEW c \in Ids, Delete(c) PROVE mark'[s] = mark[s] \/ mark'[s] = 0
  BY <1>0, <1>5 DEF Delete
<1> QED
  BY <1>1, <1>2, <1>3, <1>4, <1>5 DEF Next, Minute, Scan, TickStep, Take, Fence, Authority,
       Insert, Gate, Create, Record, Mark, Clear, Advance, Outage, Crash, Event, Blocked,
       SetEnabled, CreateSchedule, Drop, Cancelled, Expire, vars

\* the ticks: what a scan read was within the count
LEMMA ParkJobs ==
  ASSUME TypeOK, Counts, ParkInv, TypeOK', [Next]_vars
  PROVE  /\ \A t \in Ticks : \A j \in batch'[t] : j.mark <= refusals'[j.id]
         /\ \A t \in Ticks : at'[t] \in Busy => job'[t].mark <= refusals'[job'[t].id]
<1> USE DEF clock, row, runs, world, past
<1>0. \A t \in Ticks : batch[t] \subseteq Jobs /\ batch'[t] \subseteq Jobs
  BY DEF TypeOK, TickTypeOK
<1>1. ASSUME NEW j \in Jobs, j.mark <= refusals[j.id] PROVE j.mark <= refusals'[j.id]
  <2>1. /\ j.mark \in 0..QuarantineAfter /\ j.id \in Ids
    BY DEF Jobs
  <2>2. refusals[j.id] \in 0..QuarantineAfter /\ refusals'[j.id] \in 0..QuarantineAfter
    BY <2>1 DEF TypeOK
  <2>3. refusals[j.id] <= refusals'[j.id]
    BY <2>1 DEF Counts
  <2> QED
    BY <1>1, <2>1, <2>2, <2>3
<1>2. CASE JobsPass
  <2>1. ASSUME NEW t \in Ticks, NEW j \in batch'[t] PROVE j.mark <= refusals'[j.id]
    <3>1. j \in Jobs /\ j.mark <= refusals[j.id]
      BY <1>0, <1>2, <2>1 DEF JobsPass, ParkInv
    <3> QED
      BY <1>1, <3>1
  <2>2. ASSUME NEW t \in Ticks, at'[t] \in Busy PROVE job'[t].mark <= refusals'[job'[t].id]
    <3>1. job'[t] \in Jobs /\ job'[t].mark <= refusals[job'[t].id]
      BY <1>0, <1>2, <2>2, BusyJob DEF JobsPass, ParkInv
    <3> QED
      BY <1>1, <3>1
  <2> QED
    BY <2>1, <2>2
<1>3. ASSUME NEW t \in Ticks, Scan(t) PROVE \A u \in Ticks :
         /\ \A j \in batch'[u] : j.mark <= refusals'[j.id]
         /\ at'[u] \in Busy => job'[u].mark <= refusals'[job'[u].id]
  <2> PICK read \in SUBSET {s \in Ids : DueRow(s)} :
           /\ batch' = [batch EXCEPT ![t] = {Read(s) : s \in read}]
           /\ at' = [at EXCEPT ![t] = IF read = {} THEN "idle" ELSE "next"]
           /\ UNCHANGED <<job, fresh>>
    BY <1>3, ScanBatch
  <2>1. ASSUME NEW u \in Ticks, NEW j \in batch'[u] PROVE j.mark <= refusals'[j.id]
    <3>1. \/ j \in batch[u]
          \/ \E s \in Ids : j = Read(s)
      BY <2>1 DEF TypeOK, TickTypeOK
    <3>2. j \in Jobs /\ j.mark <= refusals[j.id]
      BY <1>0, <2>1, <3>1 DEF ParkInv, Read
    <3> QED
      BY <1>1, <3>2
  <2>2. ASSUME NEW u \in Ticks, at'[u] \in Busy PROVE job'[u].mark <= refusals'[job'[u].id]
    <3>1. at[u] \in Busy /\ job'[u] = job[u]
      BY <2>2 DEF TypeOK, TickTypeOK, Busy
    <3>2. job'[u] \in Jobs /\ job'[u].mark <= refusals[job'[u].id]
      BY <3>1, BusyJob DEF ParkInv
    <3> QED
      BY <1>1, <3>2
  <2> QED
    BY <2>1, <2>2
<1>4. CASE UNCHANGED tick
  BY <1>2, <1>4 DEF tick, JobsPass
<1> QED
  BY <1>2, <1>3, <1>4, StepPasses DEF Next, Minute, Event,
       Blocked, SetEnabled, Delete, CreateSchedule, Drop, Cancelled, Expire, vars

\* A tick comes to `accrue` by a refusal that counts.
Accrues == \A u \in Ticks : at'[u] = "accrue" =>
  /\ job'[u] = job[u] /\ at[u] \in Busy
  /\ \/ at[u] = "accrue"
     \/ refusals'[Id(u)] = IF refusals[Id(u)] < QuarantineAfter
                           THEN refusals[Id(u)] + 1 ELSE refusals[Id(u)]

\* a refusal that accrues counts
LEMMA RefuseAccrues ==
  ASSUME TypeOK, NEW t \in Ticks, at[t] \in Busy, NEW code, Refuse(t, code)
  PROVE  Accrues
<1>1. refusals \in [Ids -> 0..QuarantineAfter] /\ Id(t) \in Ids
  BY BusyJob DEF TypeOK
<1>2. CASE code \in TickSkipCodes /\ code \in QuarantineSkipCodes
  <2>1. refusals'[Id(t)] = IF refusals[Id(t)] < QuarantineAfter
                           THEN refusals[Id(t)] + 1 ELSE refusals[Id(t)]
    BY <1>1, <1>2 DEF Refuse, QuarantineSkipCodes, PersistentFences
  <2>2. Goto(t, "accrue")
    BY <1>2 DEF Refuse
  <2>3. \A u \in Ticks : job'[u] = job[u] /\ (u # t => at'[u] = at[u])
    BY <2>2 DEF Goto, TypeOK, TickTypeOK
  <2> QED
    BY <2>1, <2>3 DEF Accrues, Busy
<1>3. CASE ~(code \in TickSkipCodes /\ code \in QuarantineSkipCodes)
  <2>1. \E rest : EndJob(t, rest)
    BY <1>3 DEF Refuse, Abort
  <2>2. \A u \in Ticks : at'[u] = "accrue" => u # t /\ job'[u] = job[u] /\ at'[u] = at[u]
    BY <2>1 DEF EndJob, TypeOK, TickTypeOK
  <2> QED
    BY <2>2 DEF Accrues, Busy
<1> QED
  BY <1>2, <1>3

\* no other step comes there
LEMMA OthersAccrue ==
  ASSUME TypeOK, [Next]_vars
  PROVE  Accrues
<1> USE DEF clock, row, runs, world, past
<1>1. ASSUME NEW t \in Ticks, NEW rest, EndJob(t, rest) PROVE Accrues
  <2>1. \A u \in Ticks : at'[u] = "accrue" => u # t /\ job'[u] = job[u] /\ at'[u] = at[u]
    BY <1>1 DEF EndJob, TypeOK, TickTypeOK
  <2> QED
    BY <2>1 DEF Accrues, Busy
<1>2. ASSUME NEW t \in Ticks, NEW place, place # "accrue", Goto(t, place) PROVE Accrues
  <2>1. \A u \in Ticks : at'[u] = "accrue" => u # t /\ job'[u] = job[u] /\ at'[u] = at[u]
    BY <1>2 DEF Goto, TypeOK, TickTypeOK
  <2> QED
    BY <2>1 DEF Accrues, Busy
<1>3. ASSUME NEW t \in Ticks, Take(t) PROVE Accrues
  <2>1. \A u \in Ticks : at'[u] = "accrue" => u # t /\ job'[u] = job[u] /\ at'[u] = at[u]
    BY <1>3 DEF Take, TypeOK, TickTypeOK
  <2> QED
    BY <2>1 DEF Accrues, Busy
<1>4. ASSUME NEW t \in Ticks, Scan(t) PROVE Accrues
  <2>1. \A u \in Ticks : at'[u] = "accrue" => job'[u] = job[u] /\ at'[u] = at[u]
    BY <1>4, ScanBatch DEF TypeOK, TickTypeOK
  <2> QED
    BY <2>1 DEF Accrues, Busy
<1>5. ASSUME NEW t \in Ticks, Fence(t) PROVE Accrues
  <2>1. CASE exists[Id(t)] /\ enabled[Id(t)]
    <3>1. \A u \in Ticks : at'[u] = "accrue" => job'[u] = job[u] /\ at'[u] = at[u]
      BY <1>5, <2>1 DEF Fence, TypeOK, TickTypeOK
    <3> QED
      BY <3>1 DEF Accrues, Busy
  <2>2. CASE ~(exists[Id(t)] /\ enabled[Id(t)])
    BY <1>5, <2>2, RefuseAccrues DEF Fence, Busy
  <2> QED
    BY <2>1, <2>2
<1>6. ASSUME NEW t \in Ticks, Authority(t) PROVE Accrues
  BY <1>2, <1>6, RefuseAccrues DEF Authority, Busy
<1>7. ASSUME NEW t \in Ticks, Gate(t) PROVE Accrues
  BY <1>2, <1>7, RefuseAccrues DEF Gate, Busy
<1>8. ASSUME NEW t \in Ticks, Insert(t) \/ Create(t) \/ Record(t) \/ Mark(t) \/ Clear(t)
      PROVE  Accrues
  BY <1>2, <1>8 DEF Insert, Create, Record, Mark, Clear
<1>9. ASSUME NEW t \in Ticks, Advance(t) \/ Accrue(t) \/ Outage(t) \/ Crash(t)
      PROVE  Accrues
  BY <1>1, <1>9 DEF Advance, Accrue, Outage, Crash, Abort
<1>10. CASE UNCHANGED tick
  BY <1>10 DEF tick, Accrues, Busy
<1> QED
  BY <1>3, <1>4, <1>5, <1>6, <1>7, <1>8, <1>9, <1>10 DEF Next, TickStep, Minute, Event,
       Blocked, SetEnabled, Delete, CreateSchedule, Drop, Cancelled, Expire, vars

\* a tick about to accrue has counted its own refusal
LEMMA ParkAccrues ==
  ASSUME TypeOK, TypeOK', Counts, ParkInv, Accrues
  PROVE  \A t \in Ticks : at'[t] = "accrue" =>
           SkipStreak(job'[t].mark) + 1 <= refusals'[job'[t].id]
<1> SUFFICES ASSUME NEW t \in Ticks, at'[t] = "accrue"
             PROVE  SkipStreak(job'[t].mark) + 1 <= refusals'[job'[t].id]
  OBVIOUS
<1> DEFINE m == job[t].mark
           s == job[t].id
<1>1. job'[t] = job[t] /\ at[t] \in Busy
  BY DEF Accrues
<1>2. /\ m \in 0..QuarantineAfter /\ s \in Ids /\ m <= refusals[s]
  BY <1>1, Streaks DEF ParkInv
<1>3. refusals[s] \in 0..QuarantineAfter /\ refusals'[s] \in 0..QuarantineAfter
      /\ refusals[s] <= refusals'[s]
  BY <1>2 DEF TypeOK, Counts
<1>4. SkipStreak(m) \in Nat /\ SkipStreak(m) <= m /\ SkipStreak(m) + 1 <= QuarantineAfter
  BY <1>2 DEF SkipStreak
<1>5. CASE at[t] = "accrue"
  <2>1. SkipStreak(m) + 1 <= refusals[s]
    BY <1>5 DEF ParkInv
  <2> QED
    BY <1>1, <1>3, <1>4, <2>1
<1>6. CASE at[t] # "accrue"
  <2>1. refusals'[s] = IF refusals[s] < QuarantineAfter THEN refusals[s] + 1 ELSE refusals[s]
    BY <1>6 DEF Accrues, Id
  <2> HIDE DEF m, s
  <2>2. SkipStreak(m) + 1 <= refusals'[s]
    BY <1>2, <1>3, <1>4, <2>1
  <2> USE DEF m, s
  <2> QED
    BY <1>1, <2>2
<1> QED
  BY <1>5, <1>6

\* ParkInv is inductive on top of the types.
LEMMA ParkStep == TypeOK /\ ParkInv /\ [Next]_vars => ParkInv'
<1> SUFFICES ASSUME TypeOK, ParkInv, [Next]_vars PROVE ParkInv'
  OBVIOUS
<1>1. TypeOK' /\ Counts /\ Accrues
  BY TypeStep, CountsStep, OthersAccrue
<1> QED
  BY <1>1, ParkRows, ParkJobs, ParkAccrues DEF ParkInv, SkipStreak

\* However ticks overlap and rows come and go, a row is quarantined only after
\* QuarantineAfter refusals by a pause, a lost authority or a disable.
THEOREM ParksEarned == Spec => []ParksAreEarned
<1>1. Init => TypeOK /\ ParkInv
  <2> SUFFICES ASSUME Init PROVE ParkInv
    BY TypeInit
  <2> PICK cast \in Casts : Init!(cast)
    BY DEF Init
  <2>1. \A s \in Ids : mark[s] = 0 /\ refusals[s] = 0
    OBVIOUS
  <2>2. \A t \in Ticks : batch[t] = {} /\ at[t] \in {"absent", "idle"}
    OBVIOUS
  <2> QED
    BY <2>1, <2>2 DEF ParkInv, Busy
<1>2. TypeOK /\ ParkInv /\ [Next]_vars => (TypeOK /\ ParkInv)'
  BY TypeStep, ParkStep
<1>3. TypeOK /\ ParkInv => ParksAreEarned
  <2> SUFFICES ASSUME TypeOK, ParkInv, NEW s \in Ids, mark[s] = QuarantineAfter
               PROVE  refusals[s] = QuarantineAfter
    BY DEF ParksAreEarned
  <2>1. refusals[s] \in 0..QuarantineAfter /\ mark[s] <= refusals[s]
    BY DEF TypeOK, ParkInv
  <2> QED
    BY <2>1
<1> QED
  BY <1>1, <1>2, <1>3, PTL DEF Spec

(***************************************************************************)
(* The share of a tick                                                     *)
(***************************************************************************)
\* the due Organizations are finitely many numbers
LEMMA DueOrgsFinite ==
  ASSUME TypeOK
  PROVE  IsFiniteSet(DueOrgs) /\ Cardinality(DueOrgs) \in Nat /\ DueOrgs \subseteq Nat
<1> DEFINE R == {s \in Ids : DueRow(s)}
           f == [s \in R |-> OrgOf[s]]
<1>1. IsFiniteSet(R)
  BY FS_Subset, ScheduleAssumption
<1>2. f \in Surjection(R, DueOrgs)
  BY DEF DueOrgs, Surjection
<1>3. IsFiniteSet(DueOrgs)
  BY <1>1, <1>2, FS_Surjection
<1>4. DueOrgs \subseteq Nat
  BY ScheduleAssumption DEF DueOrgs
<1> QED
  BY <1>3, <1>4, FS_CardinalityType

\* A rank is a place among the due Organizations, and two have two ranks.
LEMMA Ranks ==
  ASSUME TypeOK
  PROVE  /\ \A o \in DueOrgs : Rank(o) \in Nat /\ Rank(o) < Cardinality(DueOrgs)
         /\ \A o, p \in DueOrgs : o < p => Rank(o) < Rank(p)
<1> DEFINE Below(o) == {p \in DueOrgs : p < o}
<1>1. ASSUME NEW o \in DueOrgs
      PROVE  /\ IsFiniteSet(Below(o)) /\ Cardinality(Below(o)) \in Nat
             /\ Cardinality(Below(o)) < Cardinality(DueOrgs)
  <2>1. Below(o) \in SUBSET DueOrgs /\ o \notin Below(o)
    BY DueOrgsFinite
  <2>2. Below(o) # DueOrgs
    BY <2>1
  <2>3. IsFiniteSet(Below(o)) /\ Cardinality(Below(o)) <= Cardinality(DueOrgs)
        /\ Cardinality(DueOrgs) # Cardinality(Below(o))
    BY <2>1, <2>2, DueOrgsFinite, FS_Subset
  <2>4. Cardinality(Below(o)) \in Nat
    BY <2>3, FS_CardinalityType
  <2> HIDE DEF Below
  <2> QED
    BY <2>3, <2>4, DueOrgsFinite
<1>2. ASSUME NEW o \in DueOrgs, NEW p \in DueOrgs, o < p
      PROVE  Cardinality(Below(o)) < Cardinality(Below(p))
  <2>1. Below(o) \in SUBSET Below(p) /\ o \in Below(p) /\ o \notin Below(o)
    BY <1>2, DueOrgsFinite
  <2>2. Below(o) # Below(p)
    BY <2>1
  <2>3. Cardinality(Below(o)) <= Cardinality(Below(p))
        /\ Cardinality(Below(p)) # Cardinality(Below(o))
    BY <1>1, <2>1, <2>2, FS_Subset
  <2>4. Cardinality(Below(o)) \in Nat /\ Cardinality(Below(p)) \in Nat
    BY <1>1
  <2> HIDE DEF Below
  <2> QED
    BY <2>3, <2>4
<1> QED
  BY <1>1, <1>2 DEF Rank

\* what % does to a sum of two residues
LEMMA Wraps ==
  ASSUME NEW n \in Nat, NEW x \in Nat, x < n + n, n > 0
  PROVE  x % n = IF x < n THEN x ELSE x - n
OBVIOUS

\* The rotated rank of a due Organization is a residue, and two have two.
LEMMA Rotated ==
  ASSUME TypeOK
  PROVE  \A o, p \in DueOrgs :
           LET n == Cardinality(DueOrgs)
               turn(q) == (Rank(q) + n - (phase % n)) % n
           IN  /\ turn(o) \in 0..(n - 1)
               /\ turn(o) = turn(p) => o = p
<1> SUFFICES ASSUME NEW o \in DueOrgs, NEW p \in DueOrgs
    PROVE  LET n == Cardinality(DueOrgs)
               turn(q) == (Rank(q) + n - (phase % n)) % n
           IN  /\ turn(o) \in 0..(n - 1)
               /\ turn(o) = turn(p) => o = p
  OBVIOUS
<1> DEFINE n == Cardinality(DueOrgs)
           k == phase % n
           a == Rank(o)
           b == Rank(p)
<1>1. n \in Nat /\ o \in Nat /\ p \in Nat
  BY DueOrgsFinite
<1>2. a \in 0..(n - 1) /\ b \in 0..(n - 1)
  BY Ranks, <1>1
<1>3. a = b => o = p
  BY Ranks, <1>1, <1>2
<1>4. n > 0
  BY <1>1, <1>2
<1>5. k \in 0..(n - 1)
  <2>1. phase \in Nat
    BY Bounds, ScheduleAssumption DEF TypeOK
  <2> HIDE DEF n
  <2> QED
    BY <1>1, <1>4, <2>1
<1> HIDE DEF n, k, a, b
<1>6. (a + n - k) % n = IF a + n - k < n THEN a + n - k ELSE a - k
  BY <1>1, <1>2, <1>4, <1>5, Wraps
<1>7. (b + n - k) % n = IF b + n - k < n THEN b + n - k ELSE b - k
  BY <1>1, <1>2, <1>4, <1>5, Wraps
<1>8. (a + n - k) % n \in 0..(n - 1)
  BY <1>1, <1>2, <1>4, <1>5, <1>6
<1>9. (a + n - k) % n = (b + n - k) % n => a = b
  BY <1>1, <1>2, <1>4, <1>5, <1>6, <1>7
<1> QED
  BY <1>3, <1>8, <1>9 DEF n, k, a, b

\* No scan admits more than MaxOrgs Organizations.
LEMMA AdmittedBound ==
  ASSUME TypeOK, NEW orgs \in SUBSET {o \in DueOrgs : Admitted(o)}
  PROVE  IsFiniteSet(orgs) /\ Cardinality(orgs) <= MaxOrgs
<1> DEFINE n == Cardinality(DueOrgs)
           turn(q) == (Rank(q) + n - (phase % n)) % n
           f == [o \in orgs |-> turn(o)]
<1>1. \A o \in orgs : turn(o) \in 0..(MaxOrgs - 1)
  <2>1. MaxOrgs \in Nat /\ n \in Nat
    BY ScheduleAssumption, DueOrgsFinite
  <2>2. \A o \in orgs : turn(o) \in 0..(n - 1) /\ turn(o) < MaxOrgs
    BY Rotated DEF Admitted
  <2> HIDE DEF n, turn
  <2> QED
    BY <2>1, <2>2
<1>2. \A o, p \in orgs : turn(o) = turn(p) => o = p
  BY Rotated
<1>3. f \in Injection(orgs, 0..(MaxOrgs - 1))
  <2> HIDE DEF turn
  <2> QED
    BY <1>1, <1>2 DEF Injection, IsInjective
<1>4. IsFiniteSet(0..(MaxOrgs - 1)) /\ Cardinality(0..(MaxOrgs - 1)) = MaxOrgs
  <2>1. MaxOrgs \in Nat
    BY ScheduleAssumption
  <2> QED
    BY <2>1, FS_Interval
<1> HIDE DEF f
<1> QED
  BY <1>3, <1>4, FS_Injection

\* The rotation reaches everybody: in the minute whose residue is its rank a
\* due Organization is admitted, whoever else is due.
THEOREM RotationReaches ==
  ASSUME TypeOK, MaxOrgs > 0, NEW o \in DueOrgs, phase = Rank(o)
  PROVE  Admitted(o)
<1> DEFINE n == Cardinality(DueOrgs)
<1>1. n \in Nat /\ Rank(o) \in Nat /\ Rank(o) < n /\ n > 0 /\ MaxOrgs \in Nat
  BY DueOrgsFinite, Ranks, ScheduleAssumption
<1>2. Rank(o) % n = Rank(o) /\ (Rank(o) + n - Rank(o)) % n = 0
  <2>1. ASSUME NEW r \in Nat, NEW m \in Nat, r < m
        PROVE  r % m = r /\ (r + m - r) % m = 0
    <3>1. r % m = r /\ m % m = 0
      BY <2>1, Wraps
    <3>2. r + m - r = m
      OBVIOUS
    <3> QED
      BY <3>1, <3>2
  <2> HIDE DEF n
  <2> QED
    BY <1>1, <2>1
<1> QED
  BY <1>1, <1>2 DEF Admitted

\* A set of held rows with at most what TicksAreBounded allows; every part of
\* it has no more.
Bounded(held) ==
  /\ IsFiniteSet({OrgOf[j.id] : j \in held})
  /\ Cardinality({OrgOf[j.id] : j \in held}) <= MaxOrgs
  /\ \A s \in Ids : LET own == {j \in held : OrgOf[j.id] = OrgOf[s]}
                    IN  IsFiniteSet(own) /\ Cardinality(own) <= PerOrg

LEMMA BoundedPart ==
  ASSUME NEW held, Bounded(held), NEW part \in SUBSET held
  PROVE  Bounded(part)
<1>1. IsFiniteSet({OrgOf[j.id] : j \in part})
      /\ Cardinality({OrgOf[j.id] : j \in part}) <= MaxOrgs
  <2> DEFINE orgs == {OrgOf[j.id] : j \in held}
             some == {OrgOf[j.id] : j \in part}
  <2>1. IsFiniteSet(orgs) /\ Cardinality(orgs) <= MaxOrgs
    BY DEF Bounded
  <2>2. some \in SUBSET orgs
    OBVIOUS
  <2> HIDE DEF orgs, some
  <2>3. IsFiniteSet(some) /\ Cardinality(some) <= Cardinality(orgs)
    BY <2>1, <2>2, FS_Subset
  <2>4. Cardinality(some) \in Nat /\ Cardinality(orgs) \in Nat /\ MaxOrgs \in Nat
    BY <2>1, <2>3, FS_CardinalityType, ScheduleAssumption
  <2>5. Cardinality(some) <= MaxOrgs
    BY <2>1, <2>3, <2>4
  <2> QED
    BY <2>3, <2>5 DEF some
<1>2. ASSUME NEW s \in Ids
      PROVE  LET own == {j \in part : OrgOf[j.id] = OrgOf[s]}
             IN  IsFiniteSet(own) /\ Cardinality(own) <= PerOrg
  <2> DEFINE all == {j \in held : OrgOf[j.id] = OrgOf[s]}
             some == {j \in part : OrgOf[j.id] = OrgOf[s]}
  <2>1. IsFiniteSet(all) /\ Cardinality(all) <= PerOrg
    BY DEF Bounded
  <2>2. some \in SUBSET all
    OBVIOUS
  <2> HIDE DEF all, some
  <2>3. IsFiniteSet(some) /\ Cardinality(some) <= Cardinality(all)
    BY <2>1, <2>2, FS_Subset
  <2>4. Cardinality(some) \in Nat /\ Cardinality(all) \in Nat /\ PerOrg \in Nat
    BY <2>1, <2>3, FS_CardinalityType, ScheduleAssumption
  <2>5. Cardinality(some) <= PerOrg
    BY <2>1, <2>3, <2>4
  <2> QED
    BY <2>3, <2>5 DEF some
<1> QED
  BY <1>1, <1>2 DEF Bounded

LEMMA BoundedNothing == Bounded({})
<1>1. {OrgOf[j.id] : j \in {}} = {} /\ \A s \in Ids : {j \in {} : OrgOf[j.id] = OrgOf[s]} = {}
  OBVIOUS
<1>2. IsFiniteSet({}) /\ Cardinality({}) = 0
  BY FS_EmptySet
<1>3. MaxOrgs \in Nat /\ PerOrg \in Nat
  BY ScheduleAssumption
<1> QED
  BY <1>1, <1>2, <1>3 DEF Bounded

\* what the scan reads of one Organization is within its share
LEMMA OldestBound ==
  ASSUME TypeOK, NEW o, NEW pick \in Oldest(o)
  PROVE  IsFiniteSet(pick) /\ Cardinality(pick) <= PerOrg
<1> DEFINE rows == {s \in Ids : DueRow(s) /\ OrgOf[s] = o}
<1>1. IsFiniteSet(rows)
  BY FS_Subset, ScheduleAssumption
<1>2. pick \in SUBSET rows
      /\ Cardinality(pick) = IF Cardinality(rows) < PerOrg THEN Cardinality(rows) ELSE PerOrg
  BY DEF Oldest
<1>3. Cardinality(rows) \in Nat /\ PerOrg \in Nat
  BY <1>1, FS_CardinalityType, ScheduleAssumption
<1> HIDE DEF rows
<1>4. IsFiniteSet(pick)
  BY <1>1, <1>2, FS_Subset
<1> QED
  BY <1>2, <1>3, <1>4

\* a scan reads its share
LEMMA ScanBounded ==
  ASSUME TypeOK, NEW t \in Ticks, Scan(t)
  PROVE  /\ Bounded(batch'[t]) /\ at'[t] \in {"idle", "next"}
         /\ \A u \in Ticks \ {t} : batch'[u] = batch[u] /\ at'[u] = at[u]
         /\ UNCHANGED job
<1> PICK chosen \in SUBSET {s \in Ids : DueRow(s)} :
      /\ \A o \in DueOrgs : IF Admitted(o)
           THEN {s \in chosen : OrgOf[s] = o} \in Oldest(o)
           ELSE {s \in chosen : OrgOf[s] = o} = {}
      /\ LET part == {s \in chosen : plan[s].input \in catalog}
         IN  /\ batch' = [batch EXCEPT ![t] = {Read(s) : s \in part}]
             /\ at' = [at EXCEPT ![t] = IF part = {} THEN "idle" ELSE "next"]
  BY DEF Scan
<1> DEFINE part == {s \in chosen : plan[s].input \in catalog}
           read == {Read(s) : s \in part}
<1>1. batch'[t] = read /\ at'[t] \in {"idle", "next"}
      /\ \A u \in Ticks \ {t} : batch'[u] = batch[u] /\ at'[u] = at[u]
  BY DEF TypeOK, TickTypeOK
<1>2. \A s \in chosen : OrgOf[s] \in DueOrgs /\ Admitted(OrgOf[s])
  <2> SUFFICES ASSUME NEW s \in chosen PROVE OrgOf[s] \in DueOrgs /\ Admitted(OrgOf[s])
    OBVIOUS
  <2>1. OrgOf[s] \in DueOrgs
    BY DEF DueOrgs
  <2>2. s \in {r \in chosen : OrgOf[r] = OrgOf[s]}
    OBVIOUS
  <2> QED
    BY <2>1, <2>2
<1>3. IsFiniteSet({OrgOf[j.id] : j \in read})
      /\ Cardinality({OrgOf[j.id] : j \in read}) <= MaxOrgs
  <2>1. {OrgOf[j.id] : j \in read} \in SUBSET {o \in DueOrgs : Admitted(o)}
    BY <1>2 DEF Read
  <2> QED
    BY <2>1, AdmittedBound
<1>4. ASSUME NEW s \in Ids
      PROVE  LET own == {j \in read : OrgOf[j.id] = OrgOf[s]}
             IN  IsFiniteSet(own) /\ Cardinality(own) <= PerOrg
  <2> DEFINE own == {j \in read : OrgOf[j.id] = OrgOf[s]}
             pick == {r \in chosen : OrgOf[r] = OrgOf[s]}
             f == [j \in own |-> j.id]
  <2>1. IsFiniteSet(pick) /\ Cardinality(pick) <= PerOrg
    <3>1. CASE OrgOf[s] \in DueOrgs /\ Admitted(OrgOf[s])
      <4>1. pick \in Oldest(OrgOf[s])
        BY <3>1
      <4> HIDE DEF pick
      <4> QED
        BY <4>1, OldestBound
    <3>2. CASE ~(OrgOf[s] \in DueOrgs /\ Admitted(OrgOf[s]))
      <4>1. pick = {}
        BY <3>2, <1>2
      <4>2. IsFiniteSet({}) /\ Cardinality({}) = 0 /\ PerOrg \in Nat
        BY FS_EmptySet, ScheduleAssumption
      <4> HIDE DEF pick
      <4> QED
        BY <4>1, <4>2
    <3> QED
      BY <3>1, <3>2
  <2>2. f \in Injection(own, pick)
    BY DEF Injection, IsInjective, Read
  <2> HIDE DEF own, pick, f
  <2>3. IsFiniteSet(own) /\ Cardinality(own) <= Cardinality(pick)
    BY <2>1, <2>2, FS_Injection
  <2>4. Cardinality(own) \in Nat /\ Cardinality(pick) \in Nat /\ PerOrg \in Nat
    BY <2>1, <2>3, FS_CardinalityType, ScheduleAssumption
  <2>5. Cardinality(own) <= PerOrg
    BY <2>1, <2>3, <2>4
  <2> QED
    BY <2>3, <2>5 DEF own
<1>5. Bounded(read)
  <2> HIDE DEF read
  <2> QED
    BY <1>3, <1>4 DEF Bounded
<1> QED
  BY <1>1, <1>5 DEF Scan

\* Strengthened: what is held is finite too.
ShareInv == \A t \in Ticks : Bounded(Held(t))

LEMMA ShareStep == TypeOK /\ ShareInv /\ [Next]_vars => ShareInv'
<1> SUFFICES ASSUME TypeOK, ShareInv, [Next]_vars, NEW u \in Ticks
    PROVE  Bounded(Held(u)')
  BY DEF ShareInv, Bounded
<1> USE DEF clock, row, runs, tick, world, past
<1>0. Bounded(Held(u))
  BY DEF ShareInv
<1>1. CASE UNCHANGED tick
  <2>1. Held(u)' = Held(u)
    BY <1>1 DEF Held
  <2> QED
    BY <1>0, <2>1
<1>2. ASSUME NEW t \in Ticks, Scan(t) PROVE Bounded(Held(u)')
  <2>1. CASE u = t
    <3>1. Held(u)' = batch'[t] /\ Bounded(batch'[t])
      BY <1>2, <2>1, ScanBounded DEF Held
    <3> QED
      BY <3>1
  <2>2. CASE u # t
    <3>1. Held(u)' = Held(u)
      BY <1>2, <2>2, ScanBounded DEF Held
    <3> QED
      BY <1>0, <3>1
  <2> QED
    BY <2>1, <2>2
<1>3. ASSUME NEW t \in Ticks, TickStep(t) \/ Outage(t) \/ Crash(t) PROVE Bounded(Held(u)')
  <2>1. /\ batch'[u] \subseteq batch[u]
        /\ at'[u] \in Busy => \/ at[u] \in Busy /\ job'[u] = job[u]
                              \/ at[u] = "next" /\ at'[u] = "fence" /\ job'[u] \in batch[u]
    BY <1>3, StepPasses DEF JobsPass
  <2>2. at[u] \in Places /\ at'[u] \in Places
    BY TypeStep DEF TypeOK, TickTypeOK
  <2>3. Held(u)' \subseteq Held(u)
    BY <2>1, <2>2 DEF Held, Busy
  <2> QED
    BY <1>0, <2>3, BoundedPart
<1>4. ASSUME NEW s \in Ids, Event(s) PROVE Bounded(Held(u)')
  BY <1>1, <1>4 DEF Event, Blocked, SetEnabled, Delete, CreateSchedule, Drop, Cancelled, Expire
<1>5. CASE Minute
  BY <1>1, <1>5 DEF Minute
<1>6. CASE UNCHANGED vars
  BY <1>1, <1>6 DEF vars
<1> QED
  BY <1>2, <1>3, <1>4, <1>5, <1>6 DEF Next

\* However many Organizations and rows are due, a tick never holds more than
\* its share, from its scan to its last row.
THEOREM TicksBounded == Spec => []TicksAreBounded
<1>1. Init => ShareInv
  <2> SUFFICES ASSUME Init, NEW t \in Ticks PROVE Bounded(Held(t))
    BY DEF ShareInv
  <2>1. Held(t) = {}
    BY DEF Init, Held
  <2> QED
    BY <2>1, BoundedNothing
<1>2. TypeOK /\ ShareInv /\ [Next]_vars => ShareInv'
  BY ShareStep
<1>3. ShareInv => TicksAreBounded
  BY DEF ShareInv, Bounded, TicksAreBounded
<1> QED
  BY <1>1, <1>2, <1>3, TypeCorrect, PTL DEF Spec

(***************************************************************************)
(* Every window implements SubmitReceipt.                                  *)
(***************************************************************************)
\* Every step moves each window's receipt as SubmitReceipt does, or not at all.
LEMMA WindowStep ==
  ASSUME TypeOK, InsertedInv, [Next]_vars, NEW s \in Ids, NEW w \in Windows
  PROVE  [WindowReceipt(s, w)!Next]_(WindowReceipt(s, w)!vars)
<1> USE DEF clock, row, runs, tick, world, past, WindowReceipt!vars
<1>r. /\ receipt \in [Ids -> [Windows -> Receipts]] /\ ranOn \in [Ids -> [Windows -> Inputs]]
  BY DEF TypeOK
<1>0. CASE receipt'[s][w] = receipt[s][w] /\ ranOn'[s][w] = ranOn[s][w]
  BY <1>0
<1>1. ASSUME NEW t \in Ticks, Insert(t) PROVE [WindowReceipt(s, w)!Next]_(WindowReceipt(s, w)!vars)
  <2>1. Id(t) \in Ids /\ Window(t) \in Windows
    BY <1>1, BusyJob DEF Insert, Busy
  <2>2. CASE receipt[s][w] = "none" /\ receipt'[s][w] = "pending"
    BY <2>2 DEF WindowReceipt!Next, WindowReceipt!Receive
  <2>3. \/ receipt[s][w] = "none" /\ receipt'[s][w] = "pending"
        \/ receipt'[s][w] = receipt[s][w] /\ ranOn'[s][w] = ranOn[s][w]
    BY <1>r, <1>1, <2>1 DEF Insert
  <2> QED
    BY <1>0, <2>2, <2>3
<1>2. ASSUME NEW t \in Ticks, Create(t) PROVE [WindowReceipt(s, w)!Next]_(WindowReceipt(s, w)!vars)
  <2>1. Id(t) \in Ids /\ Window(t) \in Windows /\ receipt[Id(t)][Window(t)] # "none"
    BY <1>2, BusyJob DEF Create, Busy, InsertedInv
  <2>2. CASE /\ receipt[s][w] \in {"pending", "expired"} /\ receipt'[s][w] = "dispatched"
             /\ ranOn'[s][w] = ranOn[s][w]
    BY <2>2 DEF WindowReceipt!Next, WindowReceipt!Dispatch
  <2>3. ranOn'[s][w] = ranOn[s][w]
    BY <1>2 DEF Create
  <2>4. \/ receipt'[s][w] = receipt[s][w]
        \/ receipt[s][w] \in {"pending", "expired"} /\ receipt'[s][w] = "dispatched"
    BY <1>r, <1>2, <2>1 DEF Create
  <2> QED
    BY <1>0, <2>2, <2>3, <2>4
<1>3. ASSUME NEW r \in Ids, Cancelled(r) \/ Expire(r)
      PROVE  [WindowReceipt(s, w)!Next]_(WindowReceipt(s, w)!vars)
  <2>1. ranOn'[s][w] = ranOn[s][w]
    BY <1>3 DEF Cancelled, Expire
  <2>2. CASE receipt[s][w] \in {"pending", "expired", "dispatched"} /\ receipt'[s][w] = "cancelled"
    BY <2>1, <2>2 DEF WindowReceipt!Next, WindowReceipt!Cancel
  <2>3. CASE receipt[s][w] = "pending" /\ receipt'[s][w] = "expired"
    BY <2>1, <2>3 DEF WindowReceipt!Next, WindowReceipt!Expire
  <2>4. \/ receipt'[s][w] = receipt[s][w]
        \/ receipt[s][w] \in {"pending", "expired", "dispatched"} /\ receipt'[s][w] = "cancelled"
        \/ receipt[s][w] = "pending" /\ receipt'[s][w] = "expired"
    BY <1>r, <1>3 DEF Cancelled, Expire
  <2> QED
    BY <1>0, <2>1, <2>2, <2>3, <2>4
<1>4. CASE UNCHANGED runs
  BY <1>0, <1>4
<1> QED
  BY <1>1, <1>2, <1>3, <1>4 DEF Next, Minute, Scan, TickStep, Take, Fence, Authority, Gate, Record,
     Mark, Clear, Advance, Accrue, ClearMark, Outage, Crash, Event, Blocked, SetEnabled, Delete,
     CreateSchedule, Drop, vars

\* However ticks overlap, crash and repeat each other, each window has one
\* receipt, of the kind module Executions is proved to keep.
THEOREM WindowsAreReceipts == Spec => ImplementsReceipts
<1>1. Init => InsertedInv
  BY InsertedInit
<1>2. Init => \A s \in Ids, w \in Windows : WindowReceipt(s, w)!Init
  BY DEF Init, WindowReceipt!Init
<1>3. TypeOK /\ InsertedInv /\ [Next]_vars
        => [\A s \in Ids, w \in Windows :
              [WindowReceipt(s, w)!Next]_(WindowReceipt(s, w)!vars)]_vars
  BY WindowStep
<1> QED
  BY <1>1, <1>2, <1>3, InsertedStep, TypeCorrect, PTL DEF Spec, ImplementsReceipts

=============================================================================
