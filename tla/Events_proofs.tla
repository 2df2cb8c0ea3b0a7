--------------------------- MODULE Events_proofs ---------------------------
(***************************************************************************)
(* Proofs about Events, for any number of sources, subscriptions, events   *)
(* and calls.                                                              *)
(***************************************************************************)
EXTENDS Events, FiniteSetTheorems, TLAPS

Fresh == [owner : Owners, saga : Sagas, wants : SUBSET Contents, to : Targets]

USE DEF Starts, Places, States

(***************************************************************************)
(* Type correctness                                                        *)
(***************************************************************************)
\* what a call keeps
CallType ==
  /\ at \in [Callers -> Places] /\ carries \in [Callers -> Contents]
  /\ todo \in [Callers -> SUBSET Subs] /\ fresh \in [Callers -> Fresh]

\* what the rows are
RowType ==
  /\ source \in [Sources -> {"gone", "off", "on"}]
  /\ log \in [Sources -> [EventIds -> Entries \union {None}]]
  /\ sub \in [Subs -> Rows \union {None}] /\ enabled \in [Subs -> BOOLEAN]
  /\ delivered \in [Subs -> [EventIds -> Owners \union {None}]]
  /\ noted \in [EventIds -> Contents \union {None}]
  /\ admitted \in [Sources -> [EventIds -> SUBSET Entries]]

\* what the Executions are
ExecType == exec \in [Keys -> [state : States, saga : Sagas, content : Contents \union {None}]]

\* what the rest is
WorldType ==
  /\ call \in [Callers -> Calls] /\ barred \subseteq Owners \union Sagas
  /\ events \subseteq Happenings /\ torn \in BOOLEAN

\* the type invariant in four parts
LEMMA TypeParts == TypeOK <=> CallType /\ RowType /\ ExecType /\ WorldType
BY DEF TypeOK, CallType, RowType, ExecType, WorldType, Fresh

\* and after a step
LEMMA TypeJoin == CallType' /\ RowType' /\ ExecType' /\ WorldType' => TypeOK'
BY DEF TypeOK, CallType, RowType, ExecType, WorldType, Fresh

\* the initial state is of the types
LEMMA TypeInit == Init => TypeOK
<1> SUFFICES ASSUME Init PROVE TypeOK
  OBVIOUS
<1> PICK cast \in Casts : Init!(cast)
  BY DEF Init
<1>0. /\ cast.calls \in [Callers -> Calls] /\ cast.rows \in [Subs -> Rows \union {None}]
      /\ cast.events \subseteq Happenings
  BY EventAssumption
<1>1. NoRow \in Fresh
  BY EventAssumption DEF NoRow, Fresh, Targets
<1>2. CallType
  BY <1>0, <1>1 DEF CallType, Calls
<1>3. RowType
  BY <1>0 DEF RowType
<1>4. ExecType
  BY EventAssumption DEF ExecType, NoReceipt
<1>5. WorldType
  BY <1>0 DEF WorldType
<1> QED
  BY <1>2, <1>3, <1>4, <1>5, TypeParts

\* going on to a place keeps the types of the calls
LEMMA GotoType ==
  ASSUME CallType, NEW c \in Callers, NEW place \in Places, Goto(c, place)
  PROVE  CallType'
BY DEF CallType, Goto

\* a skip and an acceptance go on to places
LEMMA SkipType ==
  ASSUME CallType, NEW c \in Callers, Skip(c) \/ Accepted(c)
  PROVE  CallType'
BY GotoType DEF Skip, Accepted

\* what the log is given is an entry
LEMMA EntryType ==
  ASSUME NEW content \in Contents, NEW run \in BOOLEAN
  PROVE  Entry(content, run) \in Entries
BY DEF Entry, Entries

\* an append keeps the types of the rows
LEMMA AppendType ==
  ASSUME RowType, NEW o \in Sources, NEW e \in EventIds, NEW entry \in Entries,
         AppendTo(o, e, entry)
  PROVE  RowType'
BY DEF RowType, AppendTo

\* the row that is read is of its type
LEMMA ReadType ==
  ASSUME CallType, RowType, NEW c \in Callers, NEW s \in Subs, sub[s] # None, ReadRow(c, s)
  PROVE  fresh' \in [Callers -> Fresh]
<1>1. sub[s] \in [owner : Owners, saga : Sagas, wants : SUBSET Contents]
  BY EventAssumption DEF RowType
<1> QED
  BY <1>1 DEF ReadRow, CallType, Fresh, Targets

\* the key of a call is a key
LEMMA KeyType ==
  ASSUME CallType, WorldType, NEW c \in Callers
  PROVE  /\ Key(c) \in Keys /\ EventOf(c) \in EventIds /\ fresh[c] \in Fresh
         /\ call[c] \in Calls /\ carries[c] \in Contents
<1>1. call[c] \in Calls /\ fresh[c] \in Fresh /\ carries[c] \in Contents
  BY DEF CallType, WorldType
<1> QED
  BY <1>1 DEF Key, Keys, EventOf, Calls, Fresh

\* the steps of a call keep the types
LEMMA TypeCallStep ==
  ASSUME TypeOK, NEW c \in Callers, CallStep(c)
  PROVE  TypeOK'
<1>0. CallType /\ RowType /\ ExecType /\ WorldType
  BY TypeParts
<1>k. /\ Key(c) \in Keys /\ EventOf(c) \in EventIds /\ fresh[c] \in Fresh
      /\ call[c] \in Calls /\ carries[c] \in Contents
  BY <1>0, KeyType
<1>w. WorldType'
  BY <1>0 DEF WorldType, world, CallStep, Emit, Append, Prior, Deliver, Note, Observe, Copy,
     Announce, Publish, Retry, Lookup, Count, Scan, Fence, Authority, Insert, Gate, Create, Receipt
<1>e. ExecType'
  <2>1. CASE Insert(c)
    BY <2>1, <1>0, <1>k DEF Insert, ExecType, Fresh
  <2>2. CASE Create(c)
    BY <2>2, <1>0, <1>k DEF Create, ExecType
  <2>3. CASE UNCHANGED exec
    BY <2>3, <1>0 DEF ExecType
  <2> QED
    BY <2>1, <2>2, <2>3 DEF CallStep, Emit, Append, Prior, Deliver, Note, Observe, Copy,
       Announce, Publish, Retry, Lookup, Count, Scan, Fence, Authority, Gate, Receipt
<1>r. RowType'
  <2> USE <1>0, <1>k
  <2>0. CASE UNCHANGED <<rows, admitted>>
    BY <2>0 DEF RowType, rows
  <2>1. CASE Append(c)
    BY <2>1, <2>0, AppendType, EntryType DEF Append, Calls
  <2>2. CASE Note(c)
    BY <2>2 DEF Note, RowType
  <2>3. CASE Copy(c)
    BY <2>3, <2>0, AppendType, EntryType, EventAssumption DEF Copy
  <2>4. CASE Publish(c)
    BY <2>4, <2>0, AppendType, EntryType, EventAssumption DEF Publish
  <2>5. CASE Receipt(c)
    BY <2>5 DEF Receipt, RowType, Fresh
  <2> QED
    BY <2>0, <2>1, <2>2, <2>3, <2>4, <2>5 DEF CallStep, Emit, Prior, Deliver, Observe,
       Announce, Retry, Lookup, Count, Scan, Fence, Authority, Insert, Gate, Create
<1>c. CallType'
  <2> USE <1>0, <1>k
  <2>1. CASE Emit(c) \/ Prior(c) \/ Deliver(c) \/ Note(c) \/ Observe(c) \/ Copy(c) \/ Announce(c)
             \/ Receipt(c) \/ Insert(c)
    BY <2>1, GotoType DEF Emit, Prior, Deliver, Note, Observe, Copy, Announce, Receipt, Insert
  <2>2. CASE Append(c)
    BY <2>2, GotoType DEF Append
  <2>3. CASE Publish(c)
    BY <2>3, GotoType, EventAssumption DEF Publish, CallType
  <2>4. CASE Retry(c)
    <3>1. call[c].sub \in Subs
      BY DEF Calls
    <3>2. CASE sub[call[c].sub] = None
      BY <2>4, <3>2, GotoType DEF Retry
    <3>3. CASE sub[call[c].sub] # None
      BY <2>4, <3>1, <3>3, ReadType DEF Retry, CallType
    <3> QED
      BY <3>2, <3>3
  <2>5. CASE Lookup(c)
    <3> DEFINE content == Logged(SourceOf[call[c].sub], EventOf(c))
    <3>1. CASE Retriable(c, content)
      <4>1. content \in Contents
        BY <3>1 DEF Retriable, Fresh
      <4> QED
        BY <2>5, <3>1, <4>1 DEF Lookup, CallType
    <3>2. CASE ~Retriable(c, content)
      BY <2>5, <3>2, GotoType DEF Lookup
    <3> QED
      BY <3>1, <3>2
  <2>6. CASE Count(c)
    <3>1. call[c].sub \in Subs
      BY DEF Calls
    <3>2. CASE Cardinality(Others(call[c].sub, EventOf(c))) >= Limit
      BY <2>6, <3>2, GotoType DEF Count
    <3>3. CASE ~(Cardinality(Others(call[c].sub, EventOf(c))) >= Limit)
      BY <2>6, <3>1, <3>3 DEF Count, CallType
    <3> QED
      BY <3>2, <3>3
  <2>7. CASE Scan(c)
    <3>1. FirstOnes(Eligible(FanoutSource(c), carries[c])) \subseteq Subs
      BY DEF FirstOnes, Eligible
    <3> QED
      BY <2>7, <3>1 DEF Scan, CallType
  <2>8. CASE Fence(c)
    <3>1. CASE todo[c] = {} /\ Goto(c, "done")
      BY <3>1, GotoType
    <3>2. ASSUME NEW s \in todo[c],
                 todo' = [todo EXCEPT ![c] = @ \ {s}], UNCHANGED carries,
                 IF sub[s] # None /\ enabled[s]
                 THEN at' = [at EXCEPT ![c] = "authority"] /\ ReadRow(c, s)
                 ELSE UNCHANGED <<at, fresh>>
          PROVE  CallType'
      <4>1. s \in Subs
        BY DEF CallType
      <4>2. fresh' \in [Callers -> Fresh] /\ at' \in [Callers -> Places]
        BY <3>2, <4>1, ReadType DEF CallType
      <4> QED
        BY <3>2, <4>2 DEF CallType
    <3> QED
      BY <2>8, <3>1, <3>2 DEF Fence
  <2>9. CASE Authority(c)
    BY <2>9, GotoType, SkipType DEF Authority
  <2>10. CASE Gate(c)
    BY <2>10, GotoType, SkipType DEF Gate
  <2>11. CASE Create(c)
    BY <2>11, SkipType DEF Create
  <2> QED
    BY <2>1, <2>2, <2>3, <2>4, <2>5, <2>6, <2>7, <2>8, <2>9, <2>10, <2>11 DEF CallStep
<1> QED
  BY <1>w, <1>e, <1>r, <1>c, TypeJoin

\* what happens around the calls
Around ==
  \/ \E c \in Callers : Outage(c) \/ Crash(c)
  \/ \E o \in Sources : SetSource(o) \/ DeleteSource(o) \/ CreateSource(o)
  \/ \E s \in Subs : SetEnabled(s) \/ Drop(s) \/ Subscribe(s)
  \/ Bar \/ Age

\* a step is one of a call, or around the calls
LEMMA StepCases == Next => Around \/ \E c \in Callers : CallStep(c)
BY DEF Next, Around

\* nothing around the calls breaks a type
LEMMA TypeAround == ASSUME TypeOK, Around PROVE TypeOK'
<1>0. CallType /\ RowType /\ ExecType /\ WorldType
  BY TypeParts
<1> USE <1>0
<1> SUFFICES CallType' /\ RowType' /\ ExecType' /\ WorldType'
  BY TypeJoin
<1>1. ASSUME NEW c \in Callers, Outage(c) \/ Crash(c)
      PROVE  CallType' /\ RowType' /\ ExecType' /\ WorldType'
  <2>1. CallType'
    BY <1>1, SkipType, GotoType DEF Outage, Crash
  <2>2. RowType' /\ ExecType' /\ WorldType'
    BY <1>1 DEF Outage, Crash, Happens, RowType, ExecType, WorldType, rows
  <2> QED
    BY <2>1, <2>2
<1>2. ASSUME NEW o \in Sources, SetSource(o) \/ DeleteSource(o) \/ CreateSource(o)
      PROVE  CallType' /\ RowType' /\ ExecType' /\ WorldType'
  <2>1. CallType' /\ ExecType'
    BY <1>2 DEF SetSource, DeleteSource, CreateSource, CallType, ExecType, calls
  <2>2. WorldType'
    BY <1>2 DEF SetSource, DeleteSource, CreateSource, WorldType, Happens, AtWork
  <2>3. RowType'
    <3>1. CASE SetSource(o)
      BY <3>1 DEF SetSource, RowType
    <3>2. CASE DeleteSource(o)
      BY <3>2 DEF DeleteSource, Unsubscribe, Emptied, RowType
    <3>3. CASE CreateSource(o)
      BY <3>3 DEF CreateSource, RowType
    <3> QED
      BY <1>2, <3>1, <3>2, <3>3
  <2> QED
    BY <2>1, <2>2, <2>3
<1>3. ASSUME NEW s \in Subs, SetEnabled(s) \/ Drop(s) \/ Subscribe(s)
      PROVE  CallType' /\ RowType' /\ ExecType' /\ WorldType'
  <2>1. CallType' /\ ExecType'
    BY <1>3 DEF SetEnabled, Drop, Subscribe, CallType, ExecType, calls
  <2>2. WorldType'
    BY <1>3 DEF SetEnabled, Drop, Subscribe, WorldType, Happens, AtWork
  <2>3. RowType'
    <3>1. CASE SetEnabled(s)
      BY <3>1 DEF SetEnabled, RowType
    <3>2. CASE Drop(s)
      BY <3>2 DEF Drop, Unsubscribe, Emptied, RowType
    <3>3. CASE Subscribe(s)
      BY <3>3 DEF Subscribe, RowType
    <3> QED
      BY <1>3, <3>1, <3>2, <3>3
  <2> QED
    BY <2>1, <2>2, <2>3
<1>4. CASE Bar
  BY <1>4 DEF Bar, Happens, CallType, RowType, ExecType, WorldType, rows, calls
<1>5. CASE Age
  <2>1. ExecType'
    BY <1>5 DEF Age, ExecType
  <2> QED
    BY <1>5, <2>1 DEF Age, Happens, CallType, RowType, WorldType, rows, calls
<1> QED
  BY <1>1, <1>2, <1>3, <1>4, <1>5 DEF Around

\* a stutter keeps the types
LEMMA TypeStutter == ASSUME TypeOK, UNCHANGED vars PROVE TypeOK'
BY DEF TypeOK, vars, rows, calls, world

\* Every variable keeps its type.
THEOREM TypeCorrect == Spec => []TypeOK
<1>1. TypeOK /\ [Next]_vars => TypeOK'
  BY StepCases, TypeCallStep, TypeAround, TypeStutter
<1> QED
  BY TypeInit, <1>1, PTL DEF Spec

(***************************************************************************)
(* The inductive invariant                                                 *)
(***************************************************************************)
\* the source whose event a call dispatches
Src(c) == IF call[c].at = "retry" THEN SourceOf[call[c].sub] ELSE FanoutSource(c)

\* a call is about to dispatch, or dispatches, to subscribers
Dispatching(c) ==
  \/ at[c] \in {"count", "scan", "next", "authority", "receipt"}
  \/ at[c] \in {"insert", "gate", "create"} /\ fresh[c].to # Endpoint

\* the Execution of a vendor's event
VendorKey(e) == <<Endpoint, Endpoint, e>>

\* what it dispatches may run
MayDispatch(c) ==
  \/ Given(Src(c), EventOf(c), carries[c])
  \/ Squatted(Src(c), EventOf(c), carries[c])

\* and is in the log
InLog(c) ==
  \/ Logged(Src(c), EventOf(c)) = carries[c]
  \/ Squatted(Src(c), EventOf(c), carries[c])

\* where a call is, and what it holds there
CallOK(c) ==
  /\ at[c] \in {"emit", "append", "prior"} => call[c].at = "emit" /\ carries[c] = call[c].content
  /\ at[c] \in {"deliver", "note", "observe", "copy", "announce", "publish"} => call[c].at = "deliver"
  /\ at[c] \in {"retry", "lookup", "count"} => call[c].at = "retry"
  /\ at[c] \in {"insert", "gate", "create"} /\ fresh[c].to = Endpoint =>
       call[c].at = "deliver" /\ fresh[c].owner = Endpoint
  /\ at[c] = "deliver" => fresh[c] = NoRow
  /\ at[c] = "scan" => call[c].at # "retry"
  /\ at[c] \in {"authority", "receipt"} => fresh[c].to # Endpoint
  /\ fresh[c].to # Endpoint => SourceOf[fresh[c].to] = Src(c)
  /\ \A s \in todo[c] : SourceOf[s] = Src(c)
  /\ Dispatching(c) => MayDispatch(c)
  /\ at[c] = "gate" => Held(c).state # "none"
  /\ at[c] = "create" => Held(c).state # "none" /\ SameRequest(c)
  /\ at[c] = "receipt" => Ran(Key(c)) /\ SameRequest(c)
  /\ at[c] \in {"note", "observe", "copy"} => exec[VendorKey(EventOf(c))].content = carries[c]
  /\ at[c] \in {"note", "observe", "copy", "announce", "publish"} => Ran(VendorKey(EventOf(c)))

\* what it holds is still so, or the subscriptions are gone
CallTrue(c) ==
  /\ Dispatching(c) =>
       \/ InLog(c)
       \/ \A s \in Subs : SourceOf[s] = Src(c) => sub[s] = None
  /\ at[c] \in {"authority", "insert", "gate", "create", "receipt"} /\ fresh[c].to # Endpoint =>
       \/ sub[fresh[c].to] = None
       \/ sub[fresh[c].to].owner = fresh[c].owner /\ sub[fresh[c].to].saga = fresh[c].saga

\* a log only holds what it was given
LogKept == \A o \in Sources, e \in EventIds : log[o][e] # None => log[o][e] \in admitted[o][e]

\* the inductive invariant
IInv ==
  /\ TypeOK /\ LogKept
  /\ RunsAsLogged /\ ReceiptsAreTrue /\ VendorRecordsAreTrue
  /\ \A c \in Callers : CallOK(c) /\ (~torn => CallTrue(c))


\* a step keeps what the Executions have
ExecKept == \A k \in Keys : exec[k].state # "none" =>
  /\ exec'[k].state # "none" /\ exec'[k].content = exec[k].content /\ exec'[k].saga = exec[k].saga
  /\ Ran(k) => Ran(k)'

\* and what was admitted
AdmittedKept == \A o \in Sources, e \in EventIds : admitted[o][e] \subseteq admitted'[o][e]

\* a log entry comes to a free place, or goes with the subscriptions
LogsKept == \A o \in Sources, e \in EventIds :
  \/ log'[o][e] = log[o][e] \/ log[o][e] = None
  \/ \A s \in Subs : SourceOf[s] = o => sub'[s] = None

\* no subscription is created
SubsKept == \A s \in Subs : sub'[s] = sub[s] \/ sub'[s] = None

\* what a call holds
Local(c) == <<at[c], carries[c], todo[c], fresh[c]>>

\* the source of a call is a source, its event an event
LEMMA SrcType ==
  ASSUME TypeOK, NEW c \in Callers
  PROVE  /\ Src(c) \in Sources /\ EventOf(c) \in EventIds /\ Key(c) \in Keys
         /\ VendorKey(EventOf(c)) \in Keys /\ fresh[c] \in Fresh /\ call[c] \in Calls
         /\ carries[c] \in Contents /\ todo[c] \subseteq Subs /\ at[c] \in Places
         /\ fresh[c].to \in Subs \/ fresh[c].to = Endpoint
<1>1. /\ EventOf(c) \in EventIds /\ Key(c) \in Keys /\ fresh[c] \in Fresh
      /\ call[c] \in Calls /\ carries[c] \in Contents
  BY KeyType, TypeParts
<1>2. todo[c] \subseteq Subs /\ at[c] \in Places
  BY TypeParts DEF CallType
<1>3. Src(c) \in Sources
  BY <1>1, EventAssumption DEF Src, FanoutSource, Calls
<1>4. VendorKey(EventOf(c)) \in Keys
  BY <1>1, EventAssumption DEF VendorKey, Keys, Targets
<1>5. fresh[c].to \in Subs \/ fresh[c].to = Endpoint
  BY <1>1 DEF Fresh, Targets
<1> QED
  BY <1>1, <1>2, <1>3, <1>4, <1>5

\* what a log holds it was given
LEMMA LoggedGiven ==
  ASSUME TypeOK, LogKept, NEW o \in Sources, NEW e \in EventIds, log[o][e] # None
  PROVE  /\ Entry(log[o][e].content, log[o][e].run) \in admitted[o][e]
         /\ log[o][e] = Entry(log[o][e].content, log[o][e].run)
         /\ log[o][e].content \in Contents /\ log[o][e].run \in BOOLEAN
         /\ Logged(o, e) = log[o][e].content
<1>1. log[o][e] \in Entries
  BY TypeParts DEF RowType
<1>2. log[o][e] = Entry(log[o][e].content, log[o][e].run)
  BY <1>1 DEF Entry, Entries
<1>3. log[o][e].content \in Contents /\ log[o][e].run \in BOOLEAN
  BY <1>1 DEF Entries
<1> QED
  BY <1>2, <1>3 DEF LogKept, Logged

\* an entry that a log is given, or has been given, may run
LEMMA MayGiven ==
  ASSUME NEW c \in Callers, call' = call, NEW run \in BOOLEAN,
         Entry(carries'[c], run) \in admitted'[Src(c)][EventOf(c)]
  PROVE  MayDispatch(c)'
BY DEF MayDispatch, Given, Src, FanoutSource, EventOf

\* and what may run may run after each step
LEMMA MayKept ==
  ASSUME TypeOK, NEW c \in Callers, AdmittedKept, call' = call, carries'[c] = carries[c], MayDispatch(c)
  PROVE  MayDispatch(c)'
<1>1. Src(c) \in Sources /\ EventOf(c) \in EventIds /\ Src(c)' = Src(c) /\ EventOf(c)' = EventOf(c)
  BY SrcType DEF Src, FanoutSource, EventOf
<1>2. admitted[Src(c)][EventOf(c)] \subseteq admitted'[Src(c)][EventOf(c)]
  BY <1>1 DEF AdmittedKept
<1>3. Given(Src(c), EventOf(c), carries[c]) => Given(Src(c), EventOf(c), carries[c])'
  BY <1>1, <1>2 DEF Given, Entry
<1>4. Squatted(Src(c), EventOf(c), carries[c]) => Squatted(Src(c), EventOf(c), carries[c])'
  BY <1>1, <1>2 DEF Squatted, Entry
<1> QED
  BY <1>3, <1>4 DEF MayDispatch

\* a step elsewhere leaves a call where it is
LEMMA CallOKKept ==
  ASSUME TypeOK, NEW c \in Callers, CallOK(c), ExecKept, AdmittedKept,
         call' = call, Local(c)' = Local(c)
  PROVE  CallOK(c)'
<1>1. at'[c] = at[c] /\ carries'[c] = carries[c] /\ todo'[c] = todo[c] /\ fresh'[c] = fresh[c]
  BY DEF Local
<1>2. Src(c)' = Src(c) /\ EventOf(c)' = EventOf(c) /\ Key(c)' = Key(c)
      /\ VendorKey(EventOf(c))' = VendorKey(EventOf(c)) /\ (Dispatching(c)' <=> Dispatching(c))
  BY <1>1 DEF Src, FanoutSource, EventOf, Key, VendorKey, Dispatching
<1>3. Key(c) \in Keys /\ VendorKey(EventOf(c)) \in Keys /\ Src(c) \in Sources /\ EventOf(c) \in EventIds
  BY SrcType
<1>4. Held(c).state # "none" => Held(c)'.state # "none" /\ (SameRequest(c) => SameRequest(c)')
  BY <1>1, <1>2, <1>3 DEF ExecKept, Held, SameRequest
<1>5. /\ Ran(Key(c)) => Ran(Key(c))' /\ Held(c).state # "none"
      /\ Ran(VendorKey(EventOf(c))) => /\ Ran(VendorKey(EventOf(c)))'
           /\ exec'[VendorKey(EventOf(c))].content = exec[VendorKey(EventOf(c))].content
  BY <1>2, <1>3 DEF ExecKept, Ran, Held
<1>6. MayDispatch(c) => MayDispatch(c)'
  BY <1>1, MayKept
<1> QED
  BY <1>1, <1>2, <1>4, <1>5, <1>6 DEF CallOK

\* what is in the log stays there, or the subscriptions go
LEMMA InLogKept ==
  ASSUME TypeOK, NEW c \in Callers, AdmittedKept, LogsKept, call' = call, carries'[c] = carries[c],
         InLog(c)
  PROVE  InLog(c)' \/ \A s \in Subs : SourceOf[s] = Src(c) => sub'[s] = None
<1>1. /\ Src(c) \in Sources /\ EventOf(c) \in EventIds /\ carries[c] # None
      /\ Src(c)' = Src(c) /\ EventOf(c)' = EventOf(c)
  BY SrcType, EventAssumption DEF Src, FanoutSource, EventOf
<1>2. CASE Squatted(Src(c), EventOf(c), carries[c])
  <2>1. admitted[Src(c)][EventOf(c)] \subseteq admitted'[Src(c)][EventOf(c)]
    BY <1>1 DEF AdmittedKept
  <2>2. Squatted(Src(c), EventOf(c), carries[c])'
    BY <1>1, <1>2, <2>1 DEF Squatted, Entry
  <2> QED
    BY <2>2 DEF InLog
<1>3. CASE Logged(Src(c), EventOf(c)) = carries[c]
  <2>1. log[Src(c)][EventOf(c)] # None
    BY <1>1, <1>3 DEF Logged
  <2>2. CASE log'[Src(c)][EventOf(c)] = log[Src(c)][EventOf(c)]
    BY <1>1, <1>3, <2>2 DEF InLog, Logged
  <2> QED
    BY <1>1, <2>1, <2>2 DEF LogsKept
<1> QED
  BY <1>2, <1>3 DEF InLog

\* and what it holds true
LEMMA CallTrueKept ==
  ASSUME TypeOK, NEW c \in Callers, CallOK(c), CallTrue(c), AdmittedKept, LogsKept, SubsKept,
         call' = call, Local(c)' = Local(c)
  PROVE  CallTrue(c)'
<1>1. at'[c] = at[c] /\ carries'[c] = carries[c] /\ fresh'[c] = fresh[c]
  BY DEF Local
<1>2. Src(c)' = Src(c) /\ EventOf(c)' = EventOf(c) /\ (Dispatching(c)' <=> Dispatching(c))
  BY <1>1 DEF Src, FanoutSource, EventOf, Dispatching
<1>3. Src(c) \in Sources /\ EventOf(c) \in EventIds /\ carries[c] # None
      /\ (fresh[c].to \in Subs \/ fresh[c].to = Endpoint)
  BY SrcType, EventAssumption
<1>4. ASSUME Dispatching(c)
      PROVE  \/ InLog(c)'
             \/ \A s \in Subs : SourceOf[s] = Src(c) => sub'[s] = None
  <2>1. CASE InLog(c)
    BY <1>1, <1>3, <2>1, InLogKept
  <2>2. CASE ~InLog(c)
    BY <1>3, <1>4, <2>2 DEF CallTrue, SubsKept
  <2> QED
    BY <2>1, <2>2
<1>5. ASSUME fresh[c].to # Endpoint
      PROVE  sub'[fresh[c].to] = sub[fresh[c].to] \/ sub'[fresh[c].to] = None
  BY <1>3, <1>5 DEF SubsKept
<1> QED
  BY <1>1, <1>2, <1>4, <1>5 DEF CallTrue

(***************************************************************************)
(* The steps of a call                                                     *)
(***************************************************************************)
\* an append keeps the histories and the logs
LEMMA AppendKept ==
  ASSUME TypeOK, NEW o \in Sources, NEW e \in EventIds, NEW entry \in Entries,
         AppendTo(o, e, entry)
  PROVE  AdmittedKept /\ LogsKept /\ SubsKept
<1>1. AdmittedKept
  BY TypeParts DEF RowType, AppendTo, AdmittedKept
<1>2. LogsKept /\ SubsKept
  BY TypeParts DEF RowType, AppendTo, LogsKept, SubsKept
<1> QED
  BY <1>1, <1>2

\* what stays when the rows do
LEMMA SameRowsKept ==
  ASSUME UNCHANGED <<log, sub, admitted>>
  PROVE  AdmittedKept /\ LogsKept /\ SubsKept
BY DEF AdmittedKept, LogsKept, SubsKept

\* a step of a call only changes what is its own, and keeps the rest
LEMMA StepKept ==
  ASSUME TypeOK, NEW c \in Callers, CallStep(c)
  PROVE  /\ ExecKept /\ AdmittedKept /\ LogsKept /\ SubsKept
         /\ call' = call /\ torn' = torn
         /\ \A d \in Callers \ {c} : Local(d)' = Local(d)
<1>t. /\ EventOf(c) \in EventIds /\ Key(c) \in Keys /\ call[c] \in Calls /\ carries[c] \in Contents
  BY SrcType
<1>1. call' = call /\ torn' = torn
  BY DEF world, CallStep, Emit, Append, Prior, Deliver, Note, Observe, Copy,
     Announce, Publish, Retry, Lookup, Count, Scan, Fence, Authority, Insert, Gate, Create, Receipt
<1>2. ASSUME NEW d \in Callers \ {c}
      PROVE  Local(d)' = Local(d)
  <2> USE TypeParts DEF CallType, Local
  <2>1. CASE Emit(c) \/ Append(c) \/ Prior(c) \/ Deliver(c) \/ Note(c) \/ Observe(c) \/ Copy(c)
    BY <2>1 DEF Goto, Emit, Append, Prior, Deliver, Note, Observe, Copy
  <2>2. CASE Announce(c) \/ Publish(c) \/ Retry(c) \/ Lookup(c) \/ Count(c) \/ Scan(c)
    BY <2>2 DEF Goto, ReadRow, Announce, Publish, Retry, Lookup, Count, Scan
  <2>3. CASE Authority(c) \/ Insert(c) \/ Gate(c) \/ Create(c) \/ Receipt(c)
    BY <2>3 DEF Goto, Skip, Accepted, Authority, Insert, Gate, Create, Receipt
  <2>4. CASE Fence(c)
    BY <2>4 DEF Goto, ReadRow, Fence
  <2> QED
    BY <2>1, <2>2, <2>3, <2>4 DEF CallStep
<1>3. ExecKept
  <2>1. CASE Insert(c)
    BY <2>1, <1>t, TypeParts DEF Insert, Held, ExecKept, ExecType, Ran
  <2>2. CASE Create(c)
    BY <2>2, <1>t, TypeParts DEF Create, Held, ExecKept, ExecType, Ran
  <2>3. CASE UNCHANGED exec
    BY <2>3 DEF ExecKept, Ran
  <2> QED
    BY <2>1, <2>2, <2>3 DEF CallStep, Emit, Append, Prior, Deliver, Note, Observe, Copy,
       Announce, Publish, Retry, Lookup, Count, Scan, Fence, Authority, Gate, Receipt
<1>4. AdmittedKept /\ LogsKept /\ SubsKept
  <2>0. CASE UNCHANGED <<log, sub, admitted>>
    BY <2>0, SameRowsKept
  <2>1. CASE Append(c)
    BY <2>1, <2>0, <1>t, AppendKept, EntryType DEF Append, Calls, rows
  <2>2. CASE Copy(c)
    BY <2>2, <2>0, <1>t, AppendKept, EntryType, EventAssumption DEF Copy, rows
  <2>3. CASE Publish(c)
    BY <2>3, <2>0, <1>t, AppendKept, EntryType, EventAssumption DEF Publish, rows
  <2> QED
    BY <2>0, <2>1, <2>2, <2>3 DEF rows, CallStep, Emit, Prior, Deliver, Note, Observe,
       Announce, Retry, Lookup, Count, Scan, Fence, Authority, Insert, Gate, Create, Receipt
<1> QED
  BY <1>1, <1>2, <1>3, <1>4

\* where Goto leaves a call
LEMMA GotoLocal ==
  ASSUME TypeOK, NEW c \in Callers, NEW place, Goto(c, place)
  PROVE  at'[c] = place /\ carries'[c] = carries[c] /\ todo'[c] = todo[c] /\ fresh'[c] = fresh[c]
BY TypeParts DEF CallType, Goto

\* the names of a call that keeps its row
LEMMA SameNames ==
  ASSUME NEW c \in Callers, call' = call
  PROVE  /\ Src(c)' = Src(c) /\ EventOf(c)' = EventOf(c)
         /\ VendorKey(EventOf(c))' = VendorKey(EventOf(c))
         /\ fresh'[c] = fresh[c] => Key(c)' = Key(c)
BY DEF Src, FanoutSource, EventOf, VendorKey, Key

\* where the platform's log is taken, it is by the announcement or by an operator
LEMMA TakenPlace ==
  ASSUME TypeOK, LogKept, VendorRecordsAreTrue, NEW c \in Callers,
         AdmittedKept, call' = call, Src(c) = Platform, log[Platform][EventOf(c)] # None,
         carries'[c] = Announced[EventOf(c)]
  PROVE  /\ MayDispatch(c)'
         /\ \/ Logged(Platform, EventOf(c)) = Announced[EventOf(c)]
            \/ Squatted(Platform, EventOf(c), Announced[EventOf(c)])
<1> DEFINE entry == log[Platform][EventOf(c)]
<1>1. /\ Platform \in Sources /\ EventOf(c) \in EventIds
      /\ Src(c)' = Platform /\ EventOf(c)' = EventOf(c)
  BY SrcType, EventAssumption DEF Src, FanoutSource, EventOf
<1>2. /\ Entry(entry.content, entry.run) \in admitted[Platform][EventOf(c)]
      /\ entry.content \in Contents /\ entry.run \in BOOLEAN
      /\ Logged(Platform, EventOf(c)) = entry.content
  BY <1>1, LoggedGiven
<1>3. Entry(entry.content, entry.run) \in admitted'[Platform][EventOf(c)]
  BY <1>1, <1>2 DEF AdmittedKept
<1>4. CASE entry.run
  <2>1. entry.content = Announced[EventOf(c)]
    BY <1>1, <1>4 DEF VendorRecordsAreTrue
  <2> QED
    BY <1>2, <1>3, <2>1, MayGiven
<1>5. CASE ~entry.run
  <2>1. entry.run = FALSE
    BY <1>2, <1>5
  <2>2. Squatted(Platform, EventOf(c), Announced[EventOf(c)])
    BY <1>2, <2>1 DEF Squatted
  <2>3. \E x \in Contents : Entry(x, FALSE) \in admitted'[Platform][EventOf(c)]
    BY <1>2, <1>3, <2>1
  <2>4. MayDispatch(c)'
    BY <1>1, <2>3 DEF MayDispatch, Squatted, Entry
  <2> QED
    BY <2>2, <2>4
<1> QED
  BY <1>4, <1>5

\* each step leaves its call where it may be
LEMMA StepOK ==
  ASSUME TypeOK, LogKept, VendorRecordsAreTrue, NEW c \in Callers, CallOK(c), CallStep(c)
  PROVE  CallOK(c)'
<1>k. ExecKept /\ AdmittedKept /\ call' = call
  BY StepKept
<1>t. /\ Src(c) \in Sources /\ EventOf(c) \in EventIds /\ Key(c) \in Keys
      /\ VendorKey(EventOf(c)) \in Keys /\ fresh[c] \in Fresh /\ call[c] \in Calls
      /\ carries[c] \in Contents /\ todo[c] \subseteq Subs /\ at[c] \in Places
  BY SrcType
<1>s. /\ Src(c)' = Src(c) /\ EventOf(c)' = EventOf(c)
      /\ VendorKey(EventOf(c))' = VendorKey(EventOf(c))
      /\ fresh'[c] = fresh[c] => Key(c)' = Key(c)
  BY <1>k, SameNames
<1>a. carries'[c] = carries[c] /\ MayDispatch(c) => MayDispatch(c)'
  BY <1>k, MayKept
<1>v. Ran(VendorKey(EventOf(c))) => /\ Ran(VendorKey(EventOf(c)))'
        /\ exec'[VendorKey(EventOf(c))].content = exec[VendorKey(EventOf(c))].content
  BY <1>k, <1>t, <1>s DEF ExecKept, Ran
<1> USE <1>k, <1>s DEF CallOK, Dispatching
<1>1. CASE Emit(c)
  BY <1>1, GotoLocal DEF Emit
<1>2. CASE Append(c)
  <2>1. CASE source[call[c].source] = "gone"
    BY <1>2, <2>1, GotoLocal DEF Append
  <2>2. CASE source[call[c].source] # "gone"
    <3>1. Src(c) = call[c].source /\ call[c].source \in Sources
      BY <1>2, <1>t DEF Append, Src, FanoutSource, Calls
    <3>2. carries'[c] = carries[c] /\ todo'[c] = todo[c] /\ fresh'[c] = fresh[c]
          /\ at'[c] = IF log[Src(c)][EventOf(c)] = None THEN "scan" ELSE "prior"
      BY <1>2, <2>2, <3>1, GotoLocal DEF Append
    <3>3. log[Src(c)][EventOf(c)] = None => MayDispatch(c)'
      <4>1. ASSUME log[Src(c)][EventOf(c)] = None
            PROVE  Entry(carries[c], FALSE) \in admitted'[Src(c)][EventOf(c)]
        <5>1. AppendTo(Src(c), EventOf(c), Entry(carries[c], FALSE))
          BY <1>2, <2>2, <3>1 DEF Append
        <5> QED
          BY <4>1, <5>1, <1>t, TypeParts DEF AppendTo, RowType
      <4> QED
        BY <3>2, <4>1, MayGiven
    <3> QED
      BY <1>2, <3>2, <3>3 DEF Append
  <2> QED
    BY <2>1, <2>2
<1>3. CASE Prior(c)
  <2>1. Src(c) = call[c].source
    BY <1>3 DEF Prior, Src, FanoutSource
  <2>2. Replays(c) => MayDispatch(c)'
    <3>1. ASSUME Replays(c)
          PROVE  Entry(carries[c], FALSE) \in admitted'[Src(c)][EventOf(c)]
      <4>1. log[Src(c)][EventOf(c)] = Entry(carries[c], FALSE)
        BY <2>1, <3>1 DEF Replays
      <4>2. log[Src(c)][EventOf(c)] # None
        BY <1>t, <4>1, EntryType, EventAssumption
      <4> QED
        BY <1>t, <4>1, <4>2 DEF LogKept, AdmittedKept
    <3>2. carries'[c] = carries[c]
      BY <1>3, GotoLocal DEF Prior
    <3> QED
      BY <3>1, <3>2, MayGiven
  <2> QED
    BY <1>3, <2>2, GotoLocal DEF Prior
<1>4. CASE Deliver(c)
  BY <1>4, GotoLocal, EventAssumption DEF Deliver, NoRow
<1>5. CASE Note(c) \/ Observe(c) \/ Announce(c)
  BY <1>5, <1>v, GotoLocal DEF Note, Observe, Announce
<1>6. CASE Copy(c)
  BY <1>6, <1>v, GotoLocal DEF Copy
<1>7. CASE Publish(c)
  <2>1. CASE source[Platform] = "gone"
    BY <1>7, <2>1, GotoLocal DEF Publish
  <2>2. CASE source[Platform] # "gone"
    <3>1. Src(c) = Platform
      BY <1>7 DEF Publish, Src, FanoutSource
    <3>2. at'[c] = "scan" /\ carries'[c] = Announced[EventOf(c)]
          /\ todo'[c] = todo[c] /\ fresh'[c] = fresh[c]
      BY <1>7, <2>2, TypeParts DEF Publish, CallType
    <3>3. MayDispatch(c)'
      <4>1. AppendTo(Platform, EventOf(c), Entry(Announced[EventOf(c)], TRUE))
        BY <1>7, <2>2 DEF Publish
      <4>2. CASE log[Platform][EventOf(c)] = None
        <5>1. Entry(Announced[EventOf(c)], TRUE) \in admitted'[Platform][EventOf(c)]
          BY <4>1, <4>2, <1>t, EventAssumption, TypeParts DEF AppendTo, RowType
        <5> QED
          BY <3>1, <3>2, <5>1, MayGiven
      <4>3. CASE log[Platform][EventOf(c)] # None
        BY <3>1, <3>2, <4>3, TakenPlace
      <4> QED
        BY <4>2, <4>3
    <3> QED
      BY <1>7, <3>1, <3>2, <3>3 DEF Publish
  <2> QED
    BY <2>1, <2>2
<1>8. CASE Retry(c)
  <2>1. Src(c) = SourceOf[call[c].sub] /\ call[c].sub \in Subs
    BY <1>8, <1>t DEF Retry, Src, Calls
  <2>2. CASE sub[call[c].sub] = None
    BY <1>8, <2>2, GotoLocal DEF Retry
  <2>3. CASE sub[call[c].sub] # None
    <3>1. at'[c] = "lookup" /\ todo'[c] = todo[c] /\ fresh'[c].to = call[c].sub
      BY <1>8, <2>3, TypeParts DEF Retry, ReadRow, CallType
    <3> QED
      BY <1>8, <2>1, <3>1 DEF Retry
  <2> QED
    BY <2>2, <2>3
<1>9. CASE Lookup(c)
  <2> DEFINE content == Logged(SourceOf[call[c].sub], EventOf(c))
  <2>1. CASE ~Retriable(c, content)
    BY <1>9, <2>1, GotoLocal DEF Lookup
  <2>2. CASE Retriable(c, content)
    <3>1. Src(c) = SourceOf[call[c].sub]
      BY <1>9 DEF Lookup, Src
    <3>2. content # None
      BY <2>2, <1>t, EventAssumption DEF Retriable, Fresh
    <3>4. at'[c] = "count" /\ carries'[c] = content /\ todo'[c] = todo[c] /\ fresh'[c] = fresh[c]
      BY <1>9, <2>2, TypeParts DEF Lookup, CallType
    <3>5. MayDispatch(c)'
      <4>1. log[Src(c)][EventOf(c)] # None
        BY <3>1, <3>2 DEF Logged
      <4>2. PICK run \in BOOLEAN : Entry(content, run) \in admitted[Src(c)][EventOf(c)]
        BY <1>t, <3>1, <4>1, LoggedGiven
      <4>3. Entry(content, run) \in admitted'[Src(c)][EventOf(c)]
        BY <1>t, <4>2 DEF AdmittedKept
      <4> HIDE DEF content
      <4> QED
        BY <3>4, <4>3, MayGiven
    <3> QED
      BY <1>9, <3>4, <3>5 DEF Lookup
  <2> QED
    BY <2>1, <2>2
<1>10. CASE Count(c)
  <2>1. CASE Cardinality(Others(call[c].sub, EventOf(c))) >= Limit
    BY <1>10, <2>1, GotoLocal DEF Count
  <2>2. CASE ~(Cardinality(Others(call[c].sub, EventOf(c))) >= Limit)
    <3>1. Src(c) = SourceOf[call[c].sub]
      BY <1>10 DEF Count, Src
    <3>2. at'[c] = "next" /\ carries'[c] = carries[c] /\ todo'[c] = {call[c].sub}
          /\ fresh'[c] = fresh[c]
      BY <1>10, <2>2, TypeParts DEF Count, CallType
    <3> QED
      BY <1>10, <1>a, <3>1, <3>2 DEF Count
  <2> QED
    BY <2>1, <2>2
<1>11. CASE Scan(c)
  <2>1. at'[c] = "next" /\ carries'[c] = carries[c] /\ fresh'[c] = fresh[c]
        /\ todo'[c] = FirstOnes(Eligible(FanoutSource(c), carries[c]))
    BY <1>11, TypeParts DEF Scan, CallType
  <2>2. \A s \in todo'[c] : SourceOf[s] = Src(c)
    BY <1>11, <2>1 DEF Scan, FirstOnes, Eligible, Src
  <2> QED
    BY <1>11, <1>a, <2>1, <2>2 DEF Scan
<1>12. CASE Fence(c)
  <2>1. CASE Goto(c, "done")
    BY <1>12, <2>1, GotoLocal
  <2>2. ASSUME NEW s \in todo[c],
               todo' = [todo EXCEPT ![c] = @ \ {s}], UNCHANGED carries,
               IF sub[s] # None /\ enabled[s]
               THEN at' = [at EXCEPT ![c] = "authority"] /\ ReadRow(c, s)
               ELSE UNCHANGED <<at, fresh>>
        PROVE  CallOK(c)'
    <3>1. carries'[c] = carries[c] /\ todo'[c] \subseteq todo[c] /\ SourceOf[s] = Src(c)
      BY <2>2, TypeParts DEF CallType
    <3>2. CASE sub[s] # None /\ enabled[s]
      <4>1. at'[c] = "authority" /\ fresh'[c].to = s /\ s \in Subs
        BY <2>2, <3>2, <1>t, TypeParts DEF CallType, ReadRow
      <4> QED
        BY <1>12, <1>a, <3>1, <4>1, EventAssumption DEF Fence
    <3>3. CASE ~(sub[s] # None /\ enabled[s])
      BY <1>12, <1>a, <2>2, <3>1, <3>3 DEF Fence
    <3> QED
      BY <3>2, <3>3
  <2> QED
    BY <1>12, <2>1, <2>2 DEF Fence
<1>13. CASE Authority(c)
  BY <1>13, <1>a, GotoLocal DEF Authority, Skip
<1>14. CASE Insert(c)
  <2>1. at'[c] = "gate" /\ carries'[c] = carries[c] /\ todo'[c] = todo[c] /\ fresh'[c] = fresh[c]
    BY <1>14, GotoLocal DEF Insert
  <2>2. Held(c)'.state # "none"
    BY <1>14, <2>1, <1>t, TypeParts DEF Insert, Held, ExecType
  <2> QED
    BY <1>14, <1>a, <2>1, <2>2 DEF Insert
<1>15. CASE Gate(c)
  <2>1. carries'[c] = carries[c] /\ todo'[c] = todo[c] /\ fresh'[c] = fresh[c]
        /\ Held(c)' = Held(c) /\ exec' = exec
    BY <1>15, GotoLocal DEF Gate, Skip, Accepted, Held
  <2>2. CASE Skip(c)
    BY <1>15, <1>a, <2>1, <2>2, GotoLocal DEF Gate, Skip
  <2>3. CASE Accepted(c) /\ Dispatched(c) /\ SameRequest(c)
    <3>1. SameRequest(c)' /\ Ran(Key(c))'
      BY <2>1, <2>3 DEF SameRequest, Dispatched, Ran, Held
    <3>2. CASE fresh[c].to = Endpoint
      <4>1. Key(c) = VendorKey(EventOf(c))
        BY <1>15, <3>2 DEF Gate, Key, VendorKey
      <4> QED
        BY <1>15, <2>1, <2>3, <3>1, <3>2, <4>1, GotoLocal DEF Gate, Accepted, SameRequest, Held
    <3>3. CASE fresh[c].to # Endpoint
      BY <1>15, <1>a, <2>1, <2>3, <3>1, <3>3, GotoLocal DEF Gate, Accepted
    <3> QED
      BY <3>2, <3>3
  <2>4. CASE Goto(c, "create") /\ SameRequest(c)
    <3>1. SameRequest(c)'
      BY <2>1, <2>4 DEF SameRequest
    <3> QED
      BY <1>15, <1>a, <2>1, <2>4, <3>1, GotoLocal DEF Gate
  <2> QED
    BY <1>15, <2>2, <2>3, <2>4 DEF Gate
<1>16. CASE Create(c)
  <2>1. carries'[c] = carries[c] /\ todo'[c] = todo[c] /\ fresh'[c] = fresh[c]
    BY <1>16, GotoLocal DEF Create, Accepted
  <2>2. SameRequest(c)' /\ Ran(Key(c))'
    BY <1>16, <2>1, <1>t, TypeParts DEF Create, SameRequest, Held, Ran, ExecType
  <2>3. CASE fresh[c].to = Endpoint
    <3>1. Key(c) = VendorKey(EventOf(c))
      BY <1>16, <2>3 DEF Create, Key, VendorKey
    <3> QED
      BY <1>16, <2>1, <2>2, <2>3, <3>1, GotoLocal DEF Create, Accepted, SameRequest, Held
  <2>4. CASE fresh[c].to # Endpoint
    BY <1>16, <1>a, <2>1, <2>2, <2>4, GotoLocal DEF Create, Accepted
  <2> QED
    BY <2>3, <2>4
<1>17. CASE Receipt(c)
  BY <1>17, <1>a, GotoLocal DEF Receipt
<1> QED
  BY <1>1, <1>2, <1>3, <1>4, <1>5, <1>6, <1>7, <1>8, <1>9, <1>10, <1>11, <1>12, <1>13, <1>14,
     <1>15, <1>16, <1>17 DEF CallStep

\* what the log has is in the log
LEMMA EntryLogged ==
  ASSUME NEW c \in Callers, call' = call, NEW run \in BOOLEAN, carries'[c] \in Contents,
         log'[Src(c)][EventOf(c)] = Entry(carries'[c], run)
  PROVE  InLog(c)'
<1>1. Src(c)' = Src(c) /\ EventOf(c)' = EventOf(c)
  BY DEF Src, FanoutSource, EventOf
<1>2. Entry(carries'[c], run) # None
  BY EntryType, EventAssumption
<1>3. Logged(Src(c), EventOf(c))' = carries'[c]
  BY <1>1, <1>2 DEF Logged, Entry
<1> QED
  BY <1>3 DEF InLog

\* each step leaves its call with what is true
LEMMA StepTrue ==
  ASSUME TypeOK, LogKept, VendorRecordsAreTrue, NEW c \in Callers, CallOK(c), CallTrue(c), CallStep(c)
  PROVE  CallTrue(c)'
<1>k. AdmittedKept /\ LogsKept /\ SubsKept /\ call' = call
  BY StepKept
<1>t. /\ Src(c) \in Sources /\ EventOf(c) \in EventIds /\ carries[c] # None /\ carries[c] \in Contents
      /\ call[c] \in Calls /\ (fresh[c].to \in Subs \/ fresh[c].to = Endpoint)
      /\ todo[c] \subseteq Subs /\ fresh[c] \in Fresh
  BY SrcType, EventAssumption
<1>s. Src(c)' = Src(c) /\ EventOf(c)' = EventOf(c)
  BY <1>k, SameNames
<1> DEFINE LogTrue == InLog(c) \/ \A s \in Subs : SourceOf[s] = Src(c) => sub[s] = None
    LogTrueAfter == InLog(c)' \/ \A s \in Subs : SourceOf[s] = Src(c) => sub'[s] = None
    RowTrue == fresh[c].to # Endpoint =>
      (\/ sub[fresh[c].to] = None
       \/ sub[fresh[c].to].owner = fresh[c].owner /\ sub[fresh[c].to].saga = fresh[c].saga)
    RowTrueAfter == fresh[c].to # Endpoint =>
      (\/ sub'[fresh[c].to] = None
       \/ sub'[fresh[c].to].owner = fresh[c].owner /\ sub'[fresh[c].to].saga = fresh[c].saga)
<1>l. carries'[c] = carries[c] /\ LogTrue => LogTrueAfter
  BY <1>k, <1>t, InLogKept DEF SubsKept
<1>r. RowTrue => RowTrueAfter
  <2>1. fresh[c].to # Endpoint => sub'[fresh[c].to] = sub[fresh[c].to] \/ sub'[fresh[c].to] = None
    BY <1>k, <1>t DEF SubsKept
  <2> QED
    BY <2>1
<1> USE <1>s DEF CallOK, CallTrue, Dispatching
<1>1. CASE Emit(c) \/ Deliver(c) \/ Note(c) \/ Observe(c) \/ Copy(c) \/ Announce(c)
  <2>1. CASE Deliver(c)
    <3>1. at'[c] \in {"done", "insert"} /\ fresh'[c] = fresh[c] /\ fresh[c].to = Endpoint
      BY <2>1, GotoLocal DEF Deliver, NoRow
    <3> QED
      BY <3>1
  <2>2. CASE Emit(c) \/ Note(c) \/ Observe(c) \/ Copy(c) \/ Announce(c)
    <3>1. at'[c] \in {"append", "done", "observe", "copy", "announce", "publish"}
      BY <2>2, GotoLocal DEF Emit, Note, Observe, Copy, Announce
    <3> QED
      BY <3>1
  <2> QED
    BY <1>1, <2>1, <2>2
<1>2. CASE Append(c)
  <2>1. CASE source[call[c].source] = "gone"
    BY <1>2, <2>1, GotoLocal DEF Append
  <2>2. CASE source[call[c].source] # "gone"
    <3>1. Src(c) = call[c].source
      BY <1>2 DEF Append, Src, FanoutSource
    <3>2. carries'[c] = carries[c] /\ at'[c] = IF log[Src(c)][EventOf(c)] = None THEN "scan" ELSE "prior"
      BY <1>2, <2>2, <3>1, GotoLocal DEF Append
    <3>3. log[Src(c)][EventOf(c)] = None => log'[Src(c)][EventOf(c)] = Entry(carries[c], FALSE)
      <4>1. AppendTo(Src(c), EventOf(c), Entry(carries[c], FALSE))
        BY <1>2, <2>2, <3>1 DEF Append
      <4> QED
        BY <4>1, <1>t, TypeParts DEF AppendTo, RowType
    <3>4. log[Src(c)][EventOf(c)] = None => InLog(c)'
      BY <1>k, <1>t, <3>2, <3>3, EntryLogged
    <3> QED
      BY <1>2, <3>2, <3>4 DEF Append
  <2> QED
    BY <2>1, <2>2
<1>3. CASE Prior(c)
  <2>1. carries'[c] = carries[c] /\ at'[c] = IF Replays(c) THEN "scan" ELSE "done"
    BY <1>3, GotoLocal DEF Prior
  <2>2. Replays(c) => log'[Src(c)][EventOf(c)] = Entry(carries[c], FALSE)
    BY <1>3 DEF Prior, Src, FanoutSource, Replays, rows
  <2>3. Replays(c) => InLog(c)'
    BY <1>k, <1>t, <2>1, <2>2, EntryLogged
  <2> QED
    BY <1>3, <2>1, <2>3 DEF Prior
<1>4. CASE Publish(c)
  <2>1. CASE source[Platform] = "gone"
    BY <1>4, <2>1, GotoLocal DEF Publish
  <2>2. CASE source[Platform] # "gone"
    <3>1. Src(c) = Platform
      BY <1>4 DEF Publish, Src, FanoutSource
    <3>2. at'[c] = "scan" /\ carries'[c] = Announced[EventOf(c)] /\ fresh'[c] = fresh[c]
      BY <1>4, <2>2, TypeParts DEF Publish, CallType
    <3>3. AppendTo(Platform, EventOf(c), Entry(Announced[EventOf(c)], TRUE))
      BY <1>4, <2>2 DEF Publish
    <3>4. CASE log[Platform][EventOf(c)] = None
      <4>1. log'[Platform][EventOf(c)] = Entry(Announced[EventOf(c)], TRUE)
        BY <3>3, <3>4, <1>t, EventAssumption, TypeParts DEF AppendTo, RowType
      <4>2. Announced[EventOf(c)] \in Contents
        BY <1>t, EventAssumption
      <4>3. InLog(c)'
        BY <1>k, <3>1, <3>2, <4>1, <4>2, EntryLogged
      <4> QED
        BY <3>2, <4>3
    <3>5. CASE log[Platform][EventOf(c)] # None
      <4>1. Platform \in Sources
        BY EventAssumption
      <4>2. log'[Platform][EventOf(c)] = log[Platform][EventOf(c)]
        BY <3>3, <3>5, <4>1, <1>t, TypeParts DEF AppendTo, RowType
      <4>3. \/ Logged(Platform, EventOf(c)) = Announced[EventOf(c)]
            \/ Squatted(Platform, EventOf(c), Announced[EventOf(c)])
        BY <1>k, <3>1, <3>2, <3>5, TakenPlace
      <4>4. Squatted(Platform, EventOf(c), Announced[EventOf(c)]) =>
              \E x \in Contents : Entry(x, FALSE) \in admitted'[Platform][EventOf(c)]
        BY <1>k, <1>t, <4>1 DEF Squatted, AdmittedKept
      <4>5. InLog(c)'
        BY <1>s, <3>1, <3>2, <4>2, <4>3, <4>4 DEF InLog, Logged, Squatted, Entry
      <4> QED
        BY <3>2, <4>5
    <3> QED
      BY <3>4, <3>5
  <2> QED
    BY <2>1, <2>2
<1>5. CASE Retry(c)
  <2>1. at'[c] \in {"done", "lookup"}
    BY <1>5, GotoLocal, TypeParts DEF Retry, CallType
  <2> QED
    BY <2>1
<1>6. CASE Lookup(c)
  <2> DEFINE content == Logged(SourceOf[call[c].sub], EventOf(c))
  <2>1. CASE ~Retriable(c, content)
    BY <1>6, <2>1, GotoLocal DEF Lookup
  <2>2. CASE Retriable(c, content)
    <3>1. Src(c) = SourceOf[call[c].sub]
      BY <1>6 DEF Lookup, Src
    <3>2. at'[c] = "count" /\ carries'[c] = content /\ log' = log /\ fresh'[c] = fresh[c]
      BY <1>6, <2>2, TypeParts DEF Lookup, CallType, rows
    <3>3. InLog(c)'
      BY <1>s, <3>1, <3>2 DEF InLog, Logged
    <3> QED
      BY <3>2, <3>3
  <2> QED
    BY <2>1, <2>2
<1>7. CASE Count(c)
  <2>1. at'[c] \in {"done", "next"} /\ carries'[c] = carries[c]
    BY <1>7, GotoLocal, TypeParts DEF Count, CallType
  <2> QED
    BY <1>7, <1>l, <2>1 DEF Count
<1>8. CASE Scan(c)
  <2>1. at'[c] = "next" /\ carries'[c] = carries[c]
    BY <1>8, TypeParts DEF Scan, CallType
  <2> QED
    BY <1>8, <1>l, <2>1 DEF Scan
<1>9. CASE Fence(c)
  <2>1. CASE Goto(c, "done")
    BY <2>1, GotoLocal
  <2>2. ASSUME NEW s \in todo[c], UNCHANGED carries,
               IF sub[s] # None /\ enabled[s]
               THEN at' = [at EXCEPT ![c] = "authority"] /\ ReadRow(c, s)
               ELSE UNCHANGED <<at, fresh>>
        PROVE  CallTrue(c)'
    <3>0. carries'[c] = carries[c] /\ LogTrueAfter /\ sub' = sub
      BY <1>9, <1>l, <2>2 DEF Fence, rows
    <3>1. CASE sub[s] # None /\ enabled[s]
      <4>1. at'[c] = "authority" /\ fresh'[c].to = s
            /\ fresh'[c].owner = sub[s].owner /\ fresh'[c].saga = sub[s].saga
        BY <2>2, <3>1, TypeParts DEF CallType, ReadRow
      <4> QED
        BY <3>0, <4>1
    <3>2. CASE ~(sub[s] # None /\ enabled[s])
      BY <1>9, <2>2, <3>0, <3>2 DEF Fence
    <3> QED
      BY <3>1, <3>2
  <2> QED
    BY <1>9, <2>1, <2>2 DEF Fence
<1>10. CASE Authority(c) \/ Insert(c) \/ Gate(c) \/ Create(c) \/ Receipt(c)
  <2>1. carries'[c] = carries[c] /\ fresh'[c] = fresh[c]
    BY <1>10, GotoLocal DEF Authority, Insert, Gate, Create, Receipt, Skip, Accepted
  <2>2. at'[c] \in {"next", "done", "insert", "gate", "create", "receipt", "note"}
    BY <1>10, GotoLocal DEF Authority, Insert, Gate, Create, Receipt, Skip, Accepted
  <2>3. fresh[c].to = Endpoint => at'[c] \in {"done", "gate", "create", "note"}
    BY <1>10, GotoLocal DEF Authority, Insert, Gate, Create, Receipt, Skip, Accepted
  <2>4. RowTrue /\ (fresh[c].to # Endpoint => LogTrue)
    <3>1. at[c] \in {"authority", "insert", "gate", "create", "receipt"}
      BY <1>10 DEF Authority, Insert, Gate, Create, Receipt
    <3>2. RowTrue
      BY <3>1
    <3>3. fresh[c].to # Endpoint => LogTrue
      BY <3>1
    <3> QED
      BY <3>2, <3>3
  <2> QED
    BY <1>l, <1>r, <2>1, <2>2, <2>3, <2>4
<1> QED
  BY <1>1, <1>2, <1>3, <1>4, <1>5, <1>6, <1>7, <1>8, <1>9, <1>10 DEF CallStep

(***************************************************************************)
(* What happens around the calls                                           *)
(***************************************************************************)
\* it keeps the Executions, the history and the calls
LEMMA AroundKept ==
  ASSUME TypeOK, Around
  PROVE  /\ ExecKept /\ AdmittedKept /\ LogsKept
         /\ call' = call /\ (torn => torn')
         /\ torn' \/ SubsKept \/ (~AtWork /\ UNCHANGED at)
<1> USE TypeParts
<1>1. ASSUME NEW c \in Callers, Outage(c) \/ Crash(c)
      PROVE  /\ ExecKept /\ AdmittedKept /\ LogsKept /\ SubsKept
             /\ call' = call /\ (torn => torn')
  BY <1>1 DEF Outage, Crash, rows, ExecKept, Ran, AdmittedKept, LogsKept, SubsKept
<1>2. ASSUME NEW o \in Sources, SetSource(o) \/ DeleteSource(o) \/ CreateSource(o)
      PROVE  /\ ExecKept /\ AdmittedKept /\ LogsKept /\ SubsKept
             /\ call' = call /\ (torn => torn')
  <2>1. ExecKept /\ AdmittedKept /\ call' = call /\ (torn => torn')
    <3>1. ExecKept /\ AdmittedKept
      BY <1>2 DEF SetSource, DeleteSource, CreateSource, ExecKept, Ran, AdmittedKept
    <3>2. call' = call /\ (torn => torn')
      BY <1>2 DEF SetSource, DeleteSource, CreateSource, WorldType, AtWork
    <3> QED
      BY <3>1, <3>2
  <2>2. LogsKept /\ SubsKept
    BY <1>2 DEF SetSource, DeleteSource, CreateSource, Unsubscribe, LogsKept, SubsKept, RowType
  <2> QED
    BY <2>1, <2>2
<1>3. ASSUME NEW s \in Subs, SetEnabled(s) \/ Drop(s)
      PROVE  /\ ExecKept /\ AdmittedKept /\ LogsKept /\ SubsKept
             /\ call' = call /\ (torn => torn')
  BY <1>3 DEF SetEnabled, Drop, Unsubscribe, ExecKept, Ran, AdmittedKept, LogsKept, SubsKept
<1>4. ASSUME NEW s \in Subs, Subscribe(s)
      PROVE  /\ ExecKept /\ AdmittedKept /\ LogsKept /\ call' = call /\ (torn => torn')
             /\ torn' \/ (~AtWork /\ UNCHANGED at)
  BY <1>4 DEF Subscribe, calls, ExecKept, Ran, AdmittedKept, LogsKept, WorldType, AtWork
<1>5. CASE Bar
  BY <1>5 DEF Bar, rows, ExecKept, Ran, AdmittedKept, LogsKept, SubsKept
<1>6. CASE Age
  <2>1. ExecKept
    BY <1>6 DEF Age, ExecKept, ExecType, Ran
  <2> QED
    BY <1>6, <2>1 DEF Age, rows, AdmittedKept, LogsKept, SubsKept
<1> QED
  BY <1>1, <1>2, <1>3, <1>4, <1>5, <1>6 DEF Around

\* it leaves the calls where they may be
LEMMA AroundOK ==
  ASSUME TypeOK, Around, \A c \in Callers : CallOK(c), NEW c \in Callers
  PROVE  CallOK(c)'
<1>k. ExecKept /\ AdmittedKept /\ call' = call
  BY AroundKept
<1>1. ASSUME NEW d \in Callers, Outage(d) \/ Crash(d)
      PROVE  CallOK(c)'
  <2>1. CASE d # c
    <3>1. Local(c)' = Local(c)
      BY <1>1, <2>1, TypeParts DEF Outage, Crash, Skip, Goto, Local, CallType
    <3> QED
      BY <1>k, <3>1, CallOKKept
  <2>2. CASE d = c
    <3>1. carries'[c] = carries[c] /\ todo'[c] = todo[c] /\ fresh'[c] = fresh[c]
          /\ (at'[c] = "done" \/ (at'[c] = "next" /\ at[c] = "create" /\ fresh[c].to # Endpoint))
      BY <1>1, <2>2, GotoLocal DEF Outage, Crash, Skip
    <3>2. Src(c)' = Src(c) /\ EventOf(c)' = EventOf(c) /\ Src(c) \in Sources /\ EventOf(c) \in EventIds
      BY <1>k, SameNames, SrcType
    <3>3. MayDispatch(c) => MayDispatch(c)'
      BY <1>k, <3>1, MayKept
    <3> QED
      BY <1>k, <3>1, <3>2, <3>3 DEF CallOK, Dispatching
  <2> QED
    BY <2>1, <2>2
<1>2. CASE UNCHANGED calls
  <2>1. Local(c)' = Local(c)
    BY <1>2 DEF calls, Local
  <2> QED
    BY <1>k, <2>1, CallOKKept
<1> QED
  BY <1>1, <1>2 DEF Around, SetSource, DeleteSource, CreateSource, SetEnabled, Drop, Subscribe, Bar, Age

\* and with what is true, unless something is torn
LEMMA AroundTrue ==
  ASSUME TypeOK, Around, \A c \in Callers : CallOK(c) /\ CallTrue(c), NEW c \in Callers, ~torn'
  PROVE  CallTrue(c)'
<1>k. AdmittedKept /\ LogsKept /\ call' = call
  BY AroundKept
<1>1. CASE ~AtWork /\ UNCHANGED at
  BY <1>1 DEF AtWork, CallTrue, Dispatching
<1>2. CASE SubsKept
  <2>1. ASSUME NEW d \in Callers, Outage(d) \/ Crash(d)
        PROVE  CallTrue(c)'
    <3>1. CASE d # c
      <4>1. Local(c)' = Local(c)
        BY <2>1, <3>1, TypeParts DEF Outage, Crash, Skip, Goto, Local, CallType
      <4> QED
        BY <1>k, <1>2, <4>1, CallTrueKept
    <3>2. CASE d = c
      <4>1. carries'[c] = carries[c] /\ fresh'[c] = fresh[c] /\ log' = log /\ sub' = sub
            /\ (at'[c] = "done" \/ (at'[c] = "next" /\ at[c] = "create" /\ fresh[c].to # Endpoint))
        BY <2>1, <3>2, GotoLocal DEF Outage, Crash, Skip, rows
      <4>2. Src(c)' = Src(c) /\ EventOf(c)' = EventOf(c)
        BY <1>k, SameNames
      <4>3. InLog(c) => InLog(c)' \/ \A s \in Subs : SourceOf[s] = Src(c) => sub'[s] = None
        BY <1>k, <4>1, InLogKept
      <4> QED
        BY <4>1, <4>2, <4>3 DEF CallTrue, Dispatching
    <3> QED
      BY <3>1, <3>2
  <2>2. CASE UNCHANGED calls
    <3>1. Local(c)' = Local(c)
      BY <2>2 DEF calls, Local
    <3> QED
      BY <1>k, <1>2, <3>1, CallTrueKept
  <2> QED
    BY <2>1, <2>2 DEF Around, SetSource, DeleteSource, CreateSource, SetEnabled, Drop, Subscribe, Bar, Age
<1> QED
  BY <1>1, <1>2, AroundKept

(***************************************************************************)
(* The logs                                                                *)
(***************************************************************************)
\* what an append does to an entry
LEMMA AppendEntry ==
  ASSUME TypeOK, NEW o \in Sources, NEW e \in EventIds, NEW entry, AppendTo(o, e, entry),
         NEW p \in Sources, NEW f \in EventIds
  PROVE  \/ (log'[p][f] = log[p][f] /\ admitted[p][f] \subseteq admitted'[p][f])
         \/ (p = o /\ f = e /\ log'[p][f] = entry /\ entry \in admitted'[p][f])
<1> USE TypeParts DEF RowType, AppendTo
<1>1. CASE p = o /\ f = e /\ log[o][e] = None
  <2>1. log'[p][f] = entry
    BY <1>1
  <2>2. admitted'[p][f] = admitted[p][f] \union {entry}
    BY <1>1
  <2> QED
    BY <1>1, <2>1, <2>2
<1>2. CASE ~(p = o /\ f = e /\ log[o][e] = None)
  <2>1. log'[p][f] = log[p][f]
    BY <1>2
  <2>2. admitted'[p][f] = admitted[p][f]
    BY <1>2
  <2> QED
    BY <2>1, <2>2
<1> QED
  BY <1>1, <1>2

\* an append keeps the logs to what they were given
LEMMA AppendLog ==
  ASSUME TypeOK, LogKept, NEW o \in Sources, NEW e \in EventIds, NEW entry, AppendTo(o, e, entry)
  PROVE  LogKept'
BY AppendEntry DEF LogKept

\* a log holds what it was given
LEMMA LogKeptStep == ASSUME TypeOK, LogKept, Next PROVE LogKept'
<1> USE TypeParts DEF RowType, LogKept
<1>1. ASSUME NEW c \in Callers, CallStep(c)
      PROVE  LogKept'
  <2>t. EventOf(c) \in EventIds /\ call[c] \in Calls
    BY SrcType
  <2>0. CASE UNCHANGED <<log, admitted>>
    BY <2>0
  <2>1. CASE Append(c)
    BY <2>0, <2>1, <2>t, AppendLog DEF Append, rows, Calls
  <2>2. CASE Copy(c)
    BY <2>0, <2>2, <2>t, EventAssumption, AppendLog DEF Copy, rows
  <2>3. CASE Publish(c)
    BY <2>0, <2>3, <2>t, EventAssumption, AppendLog DEF Publish, rows
  <2> QED
    BY <1>1, <2>0, <2>1, <2>2, <2>3 DEF rows, CallStep, Emit, Prior, Deliver, Note, Observe,
       Announce, Retry, Lookup, Count, Scan, Fence, Authority, Insert, Gate, Create, Receipt
<1>2. ASSUME NEW o \in Sources, DeleteSource(o)
      PROVE  LogKept'
  BY <1>2 DEF DeleteSource
<1>3. CASE UNCHANGED <<log, admitted>>
  BY <1>3
<1> QED
  BY <1>1, <1>2, <1>3, StepCases DEF Around, rows, Outage, Crash, SetSource, CreateSource,
     SetEnabled, Drop, Subscribe, Bar, Age

\* where the entries of the logs come from
LEMMA LogSteps ==
  ASSUME TypeOK, Next, NEW o \in Sources, NEW e \in EventIds, log'[o][e] # log[o][e]
  PROVE  \/ log'[o][e] = None
         \/ \E c \in Callers : Append(c) /\ log'[o][e] = Entry(carries[c], FALSE)
         \/ \E c \in Callers : /\ Copy(c) /\ o = Observer /\ e = EventOf(c)
                               /\ log'[o][e] = Entry(carries[c], TRUE)
         \/ \E c \in Callers : /\ Publish(c) /\ o = Platform /\ e = EventOf(c)
                               /\ log'[o][e] = Entry(Announced[e], TRUE)
<1>1. ASSUME NEW c \in Callers, Append(c)
      PROVE  log'[o][e] = Entry(carries[c], FALSE)
  <2>1. EventOf(c) \in EventIds /\ call[c].source \in Sources
    BY SrcType DEF Calls
  <2>2. AppendTo(call[c].source, EventOf(c), Entry(carries[c], FALSE))
    BY <1>1 DEF Append, rows
  <2> QED
    BY <2>1, <2>2, TypeParts DEF AppendTo, RowType
<1>2. ASSUME NEW c \in Callers, Copy(c)
      PROVE  o = Observer /\ e = EventOf(c) /\ log'[o][e] = Entry(carries[c], TRUE)
  <2>1. AppendTo(Observer, EventOf(c), Entry(carries[c], TRUE))
    BY <1>2 DEF Copy, rows
  <2>2. Observer \in Sources /\ EventOf(c) \in EventIds
    BY SrcType, EventAssumption
  <2> QED
    BY <2>1, <2>2, TypeParts DEF AppendTo, RowType
<1>3. ASSUME NEW c \in Callers, Publish(c)
      PROVE  o = Platform /\ e = EventOf(c) /\ log'[o][e] = Entry(Announced[e], TRUE)
  <2>1. AppendTo(Platform, EventOf(c), Entry(Announced[EventOf(c)], TRUE))
    BY <1>3 DEF Publish, rows
  <2>2. o = Platform /\ e = EventOf(c) /\ log'[o][e] = Entry(Announced[EventOf(c)], TRUE)
    <3>1. Platform \in Sources /\ EventOf(c) \in EventIds
      BY SrcType, EventAssumption
    <3> QED
      BY <2>1, <3>1, TypeParts DEF AppendTo, RowType
  <2> QED
    BY <2>2
<1>4. ASSUME NEW p \in Sources, DeleteSource(p)
      PROVE  log'[o][e] = None
  BY <1>4, TypeParts DEF DeleteSource, RowType
<1>5. \/ \E c \in Callers : Append(c) \/ Copy(c) \/ Publish(c)
      \/ \E p \in Sources : DeleteSource(p)
      \/ log' = log
  BY StepCases DEF rows, CallStep, Emit, Prior, Deliver, Note, Observe, Announce, Retry, Lookup,
     Count, Scan, Fence, Authority, Insert, Gate, Create, Receipt, Around, Outage, Crash,
     SetSource, CreateSource, SetEnabled, Drop, Subscribe, Bar, Age
<1> QED
  BY <1>1, <1>2, <1>3, <1>4, <1>5

(***************************************************************************)
(* The properties                                                          *)
(***************************************************************************)
\* an Execution's row comes from an INSERT
LEMMA NewRow ==
  ASSUME TypeOK, \A c \in Callers : CallOK(c), Next,
         NEW k \in Keys, exec[k].state = "none", exec'[k].state # "none"
  PROVE  \E c \in Callers : Insert(c) /\ k = Key(c) /\ exec'[k].content = carries[c]
<1> USE TypeParts DEF ExecType
<1>1. ASSUME NEW c \in Callers, Insert(c)
      PROVE  k = Key(c) /\ exec'[k].content = carries[c]
  <2>1. Key(c) \in Keys
    BY SrcType
  <2> QED
    BY <1>1, <2>1 DEF Insert, Held
<1>2. ASSUME NEW c \in Callers, Create(c)
      PROVE  FALSE
  <2>1. Key(c) \in Keys
    BY SrcType
  <2>2. Held(c).state # "none"
    BY <1>2 DEF Create, CallOK
  <2> QED
    BY <1>2, <2>1, <2>2 DEF Create, Held
<1>3. CASE Age
  BY <1>3 DEF Age
<1>4. CASE UNCHANGED exec
  BY <1>4
<1> QED
  BY <1>1, <1>2, <1>3, <1>4 DEF Next, CallStep, Emit, Append, Prior, Deliver, Note, Observe, Copy,
     Announce, Publish, Retry, Lookup, Count, Scan, Fence, Authority, Gate, Receipt, Outage, Crash,
     SetSource, DeleteSource, CreateSource, SetEnabled, Drop, Subscribe, Bar

\* every Execution keeps a content that may run
LEMMA RunsStep == ASSUME IInv, Next PROVE RunsAsLogged'
<1> USE DEF IInv
<1>k. ExecKept /\ AdmittedKept
  BY StepCases, StepKept, AroundKept
<1> SUFFICES ASSUME NEW o \in Owners, NEW s \in Subs, NEW e \in EventIds,
                    exec'[<<o, s, e>>].state # "none"
             PROVE  (\/ Given(SourceOf[s], e, exec[<<o, s, e>>].content)
                     \/ Squatted(SourceOf[s], e, exec[<<o, s, e>>].content))'
  BY DEF RunsAsLogged
<1> DEFINE k == <<o, s, e>>
<1>1. k \in Keys /\ SourceOf[s] \in Sources
  BY EventAssumption DEF Keys, Targets
<1>a. admitted[SourceOf[s]][e] \subseteq admitted'[SourceOf[s]][e]
  BY <1>1, <1>k DEF AdmittedKept
<1>2. CASE exec[k].state # "none"
  <2>1. exec'[k].content = exec[k].content
    BY <1>1, <1>2, <1>k DEF ExecKept
  <2>2. Given(SourceOf[s], e, exec[k].content) \/ Squatted(SourceOf[s], e, exec[k].content)
    BY <1>2 DEF RunsAsLogged
  <2> QED
    BY <1>a, <2>1, <2>2 DEF Given, Squatted, Entry
<1>3. CASE exec[k].state = "none"
  <2>1. PICK c \in Callers : Insert(c) /\ k = Key(c) /\ exec'[k].content = carries[c]
    BY <1>1, <1>3, NewRow
  <2>2. fresh[c].to = s /\ EventOf(c) = e /\ s # Endpoint
    BY <2>1, EventAssumption DEF Key
  <2>3. MayDispatch(c) /\ Src(c) = SourceOf[s]
    BY <2>1, <2>2 DEF CallOK, Dispatching, Insert
  <2>4. Given(SourceOf[s], e, carries[c]) \/ Squatted(SourceOf[s], e, carries[c])
    BY <2>2, <2>3 DEF MayDispatch
  <2> QED
    BY <1>a, <2>1, <2>4 DEF Given, Squatted, Entry
<1> QED
  BY <1>2, <1>3

\* the records of a vendor's event stay true
LEMMA VendorStep == ASSUME IInv, Next PROVE VendorRecordsAreTrue'
<1> USE DEF IInv
<1>k. ExecKept
  BY StepCases, StepKept, AroundKept
<1> SUFFICES ASSUME NEW e \in EventIds
             PROVE  /\ noted'[e] # None =>
                         Ran(VendorKey(e))' /\ exec'[VendorKey(e)].content = noted'[e]
                    /\ \A o \in Sources : log'[o][e] # None /\ log'[o][e].run =>
                         /\ Ran(VendorKey(e))'
                         /\ log'[o][e].content = IF o = Platform THEN Announced[e]
                                                ELSE exec'[VendorKey(e)].content
  BY DEF VendorRecordsAreTrue, VendorKey
<1>1. VendorKey(e) \in Keys
  BY EventAssumption DEF VendorKey, Keys, Targets
<1>2. Ran(VendorKey(e)) => Ran(VendorKey(e))' /\ exec'[VendorKey(e)].content = exec[VendorKey(e)].content
  BY <1>1, <1>k DEF ExecKept, Ran, VendorKey
<1>3. noted'[e] # None => Ran(VendorKey(e))' /\ exec'[VendorKey(e)].content = noted'[e]
  <2>1. ASSUME NEW c \in Callers, Note(c)
        PROVE  noted'[e] # None => Ran(VendorKey(e))' /\ exec'[VendorKey(e)].content = noted'[e]
    <3>1. noted'[e] = noted[e] \/ (e = EventOf(c) /\ noted'[e] = carries[c])
      BY <2>1, TypeParts DEF Note, RowType
    <3> QED
      BY <1>2, <2>1, <3>1 DEF VendorRecordsAreTrue, VendorKey, CallOK, Note
  <2>2. CASE noted' = noted
    BY <1>2, <2>2 DEF VendorRecordsAreTrue, VendorKey
  <2> QED
    BY <2>1, <2>2 DEF Next, CallStep, Emit, Append, Prior, Deliver, Observe, Copy, rows, AppendTo,
       Announce, Publish, Retry, Lookup, Count, Scan, Fence, Authority, Insert, Gate, Create, Receipt,
       Outage, Crash, SetSource, DeleteSource, CreateSource, SetEnabled, Drop, Subscribe, Bar, Age
<1>4. ASSUME NEW o \in Sources, log'[o][e] # None, log'[o][e].run
      PROVE  /\ Ran(VendorKey(e))'
             /\ log'[o][e].content = IF o = Platform THEN Announced[e] ELSE exec'[VendorKey(e)].content
  <2>1. CASE log'[o][e] = log[o][e]
    BY <1>2, <1>4, <2>1 DEF VendorRecordsAreTrue, VendorKey
  <2>2. ASSUME NEW c \in Callers, Append(c), log'[o][e] = Entry(carries[c], FALSE)
        PROVE  FALSE
    BY <1>4, <2>2 DEF Entry
  <2>3. ASSUME NEW c \in Callers, Copy(c), o = Observer, e = EventOf(c),
               log'[o][e] = Entry(carries[c], TRUE)
        PROVE  Ran(VendorKey(e))' /\ o # Platform /\ log'[o][e].content = exec'[VendorKey(e)].content
    <3>1. Ran(VendorKey(e)) /\ exec[VendorKey(e)].content = carries[c]
      BY <2>3 DEF Copy, CallOK
    <3> QED
      BY <1>2, <2>3, <3>1, EventAssumption DEF Entry
  <2>4. ASSUME NEW c \in Callers, Publish(c), o = Platform, e = EventOf(c),
               log'[o][e] = Entry(Announced[e], TRUE)
        PROVE  Ran(VendorKey(e))' /\ log'[o][e].content = Announced[e]
    <3>1. Ran(VendorKey(e))
      BY <2>4 DEF Publish, CallOK
    <3> QED
      BY <1>2, <2>4, <3>1 DEF Entry
  <2> QED
    BY <1>4, <2>1, <2>2, <2>3, <2>4, LogSteps
<1> QED
  BY <1>3, <1>4

\* the log tells the content of the event of a subscription, now and after a step
Told(s, e, x) == x = Logged(SourceOf[s], e) \/ Squatted(SourceOf[s], e, x)
ToldNext(s, e, x) ==
  \/ x = IF log'[SourceOf[s]][e] = None THEN None ELSE log'[SourceOf[s]][e].content
  \/ /\ SourceOf[s] = Platform /\ x = Announced[e]
     /\ \E y \in Contents : Entry(y, FALSE) \in admitted'[SourceOf[s]][e]

\* it goes on telling it, unless the subscription goes
LEMMA ToldKept ==
  ASSUME AdmittedKept, LogsKept, NEW s \in Subs, NEW e \in EventIds, NEW x \in Contents,
         sub'[s] # None, Told(s, e, x)
  PROVE  ToldNext(s, e, x)
<1>1. SourceOf[s] \in Sources
  BY EventAssumption
<1>2. CASE Squatted(SourceOf[s], e, x)
  BY <1>1, <1>2 DEF Squatted, ToldNext, AdmittedKept
<1>3. CASE x = Logged(SourceOf[s], e)
  <2>1. log[SourceOf[s]][e] # None
    BY <1>3, EventAssumption DEF Logged
  <2>2. log'[SourceOf[s]][e] = log[SourceOf[s]][e]
    BY <1>1, <2>1 DEF LogsKept
  <2> QED
    BY <1>3, <2>1, <2>2 DEF Logged, ToldNext
<1> QED
  BY <1>2, <1>3 DEF Told

\* receipts stay true
LEMMA ReceiptStep == ASSUME IInv, RunsAsLogged', Next PROVE ReceiptsAreTrue'
<1>t. TypeOK /\ RunsAsLogged /\ ReceiptsAreTrue /\ (\A c \in Callers : CallOK(c) /\ (~torn => CallTrue(c)))
  BY DEF IInv
<1>k. ExecKept /\ AdmittedKept /\ LogsKept /\ (torn => torn')
  BY <1>t, StepCases, StepKept, AroundKept
<1>r. RowType
  BY <1>t, TypeParts
<1> SUFFICES ASSUME ~torn', NEW s \in Subs, NEW e \in EventIds, delivered'[s][e] # None
             PROVE  /\ sub'[s] # None /\ sub'[s].owner = delivered'[s][e]
                    /\ exec'[<<delivered'[s][e], s, e>>].state \in {"dispatched", "cancelled"}
                    /\ exec'[<<delivered'[s][e], s, e>>].saga = sub'[s].saga
                    /\ ToldNext(s, e, exec'[<<delivered'[s][e], s, e>>].content)
  BY DEF ReceiptsAreTrue, Ran, ToldNext, Logged, Squatted, Entry
<1>0. ~torn /\ SourceOf[s] \in Sources
  BY <1>k, EventAssumption
<1>1. ASSUME delivered[s][e] # None
      PROVE  /\ <<delivered[s][e], s, e>> \in Keys /\ sub[s] # None /\ sub[s].owner = delivered[s][e]
             /\ Ran(<<delivered[s][e], s, e>>)
             /\ exec[<<delivered[s][e], s, e>>].saga = sub[s].saga
             /\ Told(s, e, exec[<<delivered[s][e], s, e>>].content)
             /\ exec[<<delivered[s][e], s, e>>].content \in Contents
  <2>1. delivered[s][e] \in Owners
    BY <1>1, <1>r DEF RowType
  <2>2. <<delivered[s][e], s, e>> \in Keys
    BY <2>1 DEF Keys, Targets
  <2>3. /\ sub[s] # None /\ sub[s].owner = delivered[s][e]
        /\ Ran(<<delivered[s][e], s, e>>)
        /\ exec[<<delivered[s][e], s, e>>].saga = sub[s].saga
        /\ Told(s, e, exec[<<delivered[s][e], s, e>>].content)
    BY <1>0, <1>1, <1>t DEF ReceiptsAreTrue, Told
  <2>4. \/ Given(SourceOf[s], e, exec[<<delivered[s][e], s, e>>].content)
        \/ Squatted(SourceOf[s], e, exec[<<delivered[s][e], s, e>>].content)
    BY <1>t, <2>1, <2>3 DEF RunsAsLogged, Ran
  <2>5. admitted[SourceOf[s]][e] \subseteq Entries /\ Announced[e] \in Contents
    BY <1>r, <1>0, EventAssumption DEF RowType
  <2>6. exec[<<delivered[s][e], s, e>>].content \in Contents
    BY <2>4, <2>5 DEF Given, Squatted, Entry, Entries
  <2> QED
    BY <2>2, <2>3, <2>6
<1>2. ASSUME delivered[s][e] # None, delivered'[s][e] = delivered[s][e], sub'[s] = sub[s]
      PROVE  /\ sub'[s] # None /\ sub'[s].owner = delivered'[s][e]
             /\ exec'[<<delivered'[s][e], s, e>>].state \in {"dispatched", "cancelled"}
             /\ exec'[<<delivered'[s][e], s, e>>].saga = sub'[s].saga
             /\ ToldNext(s, e, exec'[<<delivered'[s][e], s, e>>].content)
  <2> DEFINE k == <<delivered[s][e], s, e>>
  <2>k. k \in Keys /\ Ran(k) /\ exec[k].state # "none"
    BY <1>1, <1>2 DEF Ran
  <2>1. /\ exec'[k].state \in {"dispatched", "cancelled"}
        /\ exec'[k].saga = exec[k].saga /\ exec'[k].content = exec[k].content
    BY <2>k, <1>k DEF ExecKept, Ran
  <2>2. ToldNext(s, e, exec[k].content)
    BY <1>1, <1>2, <1>k, ToldKept
  <2> QED
    BY <1>1, <1>2, <2>1, <2>2
<1>3. ASSUME NEW c \in Callers, Receipt(c)
      PROVE  /\ sub'[s] # None /\ sub'[s].owner = delivered'[s][e]
             /\ exec'[<<delivered'[s][e], s, e>>].state \in {"dispatched", "cancelled"}
             /\ exec'[<<delivered'[s][e], s, e>>].saga = sub'[s].saga
             /\ ToldNext(s, e, exec'[<<delivered'[s][e], s, e>>].content)
  <2>0. sub' = sub /\ exec' = exec /\ log' = log
    BY <1>3 DEF Receipt
  <2>c. CallOK(c) /\ CallTrue(c) /\ at[c] = "receipt" /\ fresh[c].to # Endpoint
    BY <1>0, <1>3, <1>t DEF Receipt, CallOK
  <2>s. /\ fresh[c].to \in Subs /\ EventOf(c) \in EventIds
    BY <1>t, <2>c, SrcType
  <2>d. \/ delivered' = delivered
        \/ /\ sub[fresh[c].to] # None
           /\ delivered' = [delivered EXCEPT ![fresh[c].to][EventOf(c)] =
                              IF @ = None THEN fresh[c].owner ELSE @]
    BY <1>3 DEF Receipt
  <2>f. \/ delivered'[s][e] = delivered[s][e]
        \/ /\ delivered[s][e] = None /\ fresh[c].to = s /\ EventOf(c) = e
           /\ delivered'[s][e] = fresh[c].owner /\ sub[s] # None
    <3>1. delivered \in [Subs -> [EventIds -> Owners \union {None}]]
      BY <1>r DEF RowType
    <3>2. CASE fresh[c].to = s /\ EventOf(c) = e
      BY <2>d, <2>s, <3>1, <3>2
    <3>3. CASE fresh[c].to # s
      BY <2>d, <2>s, <3>1, <3>3
    <3>4. CASE EventOf(c) # e
      BY <2>d, <2>s, <3>1, <3>4
    <3> QED
      BY <3>2, <3>3, <3>4
  <2>1. CASE delivered[s][e] # None
    <3>1. delivered'[s][e] = delivered[s][e]
      BY <2>f, <2>1
    <3> QED
      BY <1>2, <2>0, <2>1, <3>1
  <2>2. CASE delivered[s][e] = None
    <3>1. fresh[c].to = s /\ EventOf(c) = e /\ delivered'[s][e] = fresh[c].owner /\ sub[s] # None
      BY <2>f, <2>2
    <3>2. Key(c) = <<fresh[c].owner, s, e>> /\ Src(c) = SourceOf[s]
      BY <3>1, <2>c DEF Key, CallOK
    <3>3. Ran(Key(c)) /\ exec[Key(c)].saga = fresh[c].saga /\ exec[Key(c)].content = carries[c]
      BY <2>c DEF CallOK, SameRequest, Held
    <3>4. ToldNext(s, e, carries[c])
      <4>1. Told(s, e, carries[c])
        BY <3>1, <3>2, <2>c DEF CallTrue, Dispatching, InLog, Told
      <4>2. carries[c] \in Contents
        BY <1>t, SrcType
      <4> QED
        BY <1>k, <2>0, <3>1, <4>1, <4>2, ToldKept
    <3>5. sub[s].owner = fresh[c].owner /\ sub[s].saga = fresh[c].saga
      BY <3>1, <2>c DEF CallTrue
    <3>6. exec'[<<delivered'[s][e], s, e>>].state \in {"dispatched", "cancelled"}
      BY <2>0, <3>1, <3>2, <3>3 DEF Ran
    <3> QED
      BY <2>0, <3>1, <3>2, <3>3, <3>4, <3>5, <3>6
  <2> QED
    BY <2>1, <2>2
<1>4. ASSUME NEW z \in Subs, Subscribe(z)
      PROVE  delivered[s][e] # None /\ delivered'[s][e] = delivered[s][e] /\ sub'[s] = sub[s]
  <2>1. delivered'[s][e] = delivered[s][e] /\ delivered[s][e] # None
    BY <1>4 DEF Subscribe
  <2>2. s # z
    BY <1>1, <1>4, <2>1 DEF Subscribe
  <2> QED
    BY <1>4, <1>r, <2>1, <2>2 DEF Subscribe, RowType
<1>5. ASSUME NEW gone, Unsubscribe(gone)
      PROVE  delivered[s][e] # None /\ delivered'[s][e] = delivered[s][e] /\ sub'[s] = sub[s]
  BY <1>5 DEF Unsubscribe, Emptied
<1>6. CASE UNCHANGED <<delivered, sub>>
  BY <1>2, <1>6
<1>7. \/ \E c \in Callers : Receipt(c)
      \/ \E z \in Subs : Subscribe(z)
      \/ \E gone \in SUBSET Subs : Unsubscribe(gone)
      \/ UNCHANGED <<delivered, sub>>
  <2>1. ASSUME NEW c \in Callers, CallStep(c)
        PROVE  Receipt(c) \/ UNCHANGED <<delivered, sub>>
    BY <2>1 DEF CallStep, Emit, Append, Prior, Deliver, Note, Observe, Copy, rows,
     AppendTo, Announce, Publish, Retry, Lookup, Count, Scan, Fence, Authority, Insert, Gate, Create
  <2> QED
    BY <2>1, StepCases DEF Around, rows, Outage, Crash, SetSource, DeleteSource, CreateSource,
       SetEnabled, Drop, Bar, Age
<1> QED
  BY <1>2, <1>3, <1>4, <1>5, <1>6, <1>7

\* the invariant holds at the start
LEMMA InvInit == Init => IInv
<1> SUFFICES ASSUME Init PROVE IInv
  OBVIOUS
<1> PICK cast \in Casts : Init!(cast)
  BY DEF Init
<1>1. TypeOK
  BY TypeInit
<1>2. LogKept
  BY DEF LogKept
<1>3. RunsAsLogged /\ ReceiptsAreTrue
  BY EventAssumption DEF RunsAsLogged, ReceiptsAreTrue, NoReceipt, Keys, Targets
<1>4. VendorRecordsAreTrue
  BY EventAssumption DEF VendorRecordsAreTrue
<1>5. ASSUME NEW c \in Callers
      PROVE  CallOK(c) /\ CallTrue(c)
  <2>1. /\ at[c] \in Starts /\ at[c] = call[c].at /\ carries[c] = call[c].content
        /\ todo[c] = {} /\ fresh[c] = NoRow
    BY EventAssumption DEF Calls
  <2> QED
    BY <2>1 DEF CallOK, CallTrue, Dispatching, NoRow
<1> QED
  BY <1>1, <1>2, <1>3, <1>4, <1>5 DEF IInv

\* every step keeps it
LEMMA InvStep == IInv /\ [Next]_vars => IInv'
<1> SUFFICES ASSUME IInv, [Next]_vars PROVE IInv'
  OBVIOUS
<1>1. CASE Next
  <2> USE DEF IInv
  <2>1. TypeOK'
    BY <1>1, StepCases, TypeCallStep, TypeAround
  <2>2. LogKept'
    BY <1>1, LogKeptStep
  <2>3. RunsAsLogged' /\ VendorRecordsAreTrue'
    BY <1>1, RunsStep, VendorStep
  <2>4. ReceiptsAreTrue'
    BY <1>1, <2>3, ReceiptStep
  <2>5. ASSUME NEW c \in Callers
        PROVE  CallOK(c)' /\ (~torn' => CallTrue(c)')
    <3>1. ASSUME NEW d \in Callers, CallStep(d)
          PROVE  CallOK(c)' /\ (~torn' => CallTrue(c)')
      <4>1. CASE d = c
        BY <3>1, <4>1, StepOK, StepTrue, StepKept
      <4>2. CASE d # c
        BY <3>1, <4>2, StepKept, CallOKKept, CallTrueKept
      <4> QED
        BY <4>1, <4>2
    <3>2. CASE Around
      BY <3>2, AroundOK, AroundTrue, AroundKept
    <3> QED
      BY <1>1, <3>1, <3>2, StepCases
  <2> QED
    BY <2>1, <2>2, <2>3, <2>4, <2>5
<1>2. CASE UNCHANGED vars
  <2>1. TypeOK'
    BY <1>2, TypeStutter DEF IInv
  <2>2. LogKept'
    BY <1>2 DEF IInv, vars, rows, LogKept
  <2>3. RunsAsLogged' /\ ReceiptsAreTrue' /\ VendorRecordsAreTrue'
    <3>1. UNCHANGED <<log, sub, delivered, noted, exec, torn, admitted>>
      BY <1>2 DEF vars, rows, world
    <3>2. RunsAsLogged'
      BY <3>1 DEF IInv, RunsAsLogged, Given, Squatted, Entry
    <3>3. ReceiptsAreTrue'
      BY <3>1 DEF IInv, ReceiptsAreTrue, Ran, Logged, Squatted, Entry
    <3>4. VendorRecordsAreTrue'
      BY <3>1 DEF IInv, VendorRecordsAreTrue, Ran
    <3> QED
      BY <3>2, <3>3, <3>4
  <2>4. ASSUME NEW c \in Callers
        PROVE  CallOK(c)' /\ (~torn' => CallTrue(c)')
    <3>1. ExecKept /\ AdmittedKept /\ LogsKept /\ SubsKept /\ call' = call /\ torn' = torn
          /\ Local(c)' = Local(c)
      BY <1>2 DEF vars, rows, world, calls, ExecKept, Ran, AdmittedKept, LogsKept, SubsKept, Local
    <3> QED
      BY <3>1, CallOKKept, CallTrueKept DEF IInv
  <2> QED
    BY <2>1, <2>2, <2>3, <2>4 DEF IInv
<1> QED
  BY <1>1, <1>2

\* the invariant always holds
LEMMA Invariant == Spec => []IInv
BY InvInit, InvStep, PTL DEF Spec

\* Every Execution that an event starts runs on a content which the log of its
\* source has held under that id, or on a platform's announcement whose id an
\* operator has taken.
THEOREM RunsAreLogged == Spec => []RunsAsLogged
<1>1. IInv => RunsAsLogged
  BY DEF IInv
<1> QED
  BY Invariant, <1>1, PTL

\* A receipt names an Execution that was dispatched, for the Saga and the user
\* of the subscription, on the content of the log or such an announcement.
THEOREM ReceiptsTrue == Spec => []ReceiptsAreTrue
<1>1. IInv => ReceiptsAreTrue
  BY DEF IInv
<1> QED
  BY Invariant, <1>1, PTL

\* endpoint_events and the logs name no Execution of a vendor's event that was
\* not dispatched, nor another input.
THEOREM VendorRecordsTrue == Spec => []VendorRecordsAreTrue
<1>1. IInv => VendorRecordsAreTrue
  BY DEF IInv
<1> QED
  BY Invariant, <1>1, PTL

(***************************************************************************)
(* The bound of a fan-out                                                  *)
(***************************************************************************)
\* FirstOnes takes Limit subscribers at most: their ranks differ.
LEMMA FirstOnesBound ==
  ASSUME NEW group \in SUBSET Subs
  PROVE  IsFiniteSet(FirstOnes(group)) /\ Cardinality(FirstOnes(group)) <= Limit
<1> DEFINE Below(s) == {r \in group : r < s}
           f == [s \in FirstOnes(group) |-> Cardinality(Below(s))]
<1>0. IsFiniteSet(group) /\ group \subseteq Nat /\ Limit \in Nat
  BY FS_Subset, EventAssumption
<1>1. ASSUME NEW s \in group
      PROVE  IsFiniteSet(Below(s)) /\ Cardinality(Below(s)) \in Nat
  <2>1. Below(s) \in SUBSET group
    OBVIOUS
  <2> QED
    BY <1>0, <2>1, FS_Subset, FS_CardinalityType
<1>2. ASSUME NEW s \in group, NEW t \in group, s < t
      PROVE  Cardinality(Below(s)) < Cardinality(Below(t))
  <2>0. s \in Nat /\ t \in Nat /\ ~(s < s)
    BY <1>0
  <2>a. ASSUME NEW r \in Below(s) PROVE r \in Below(t)
    <3>1. r \in group /\ r \in Nat /\ r < s
      BY <1>0
    <3> QED
      BY <1>2, <2>0, <3>1
  <2>1. Below(s) \in SUBSET Below(t) /\ s \in Below(t) /\ s \notin Below(s)
    BY <1>2, <2>0, <2>a
  <2>2. Below(s) # Below(t)
    BY <2>1
  <2>3. Cardinality(Below(s)) <= Cardinality(Below(t))
        /\ Cardinality(Below(t)) # Cardinality(Below(s))
    BY <1>1, <2>1, <2>2, FS_Subset
  <2>4. Cardinality(Below(s)) \in Nat /\ Cardinality(Below(t)) \in Nat
    BY <1>1
  <2> HIDE DEF Below
  <2> QED
    BY <2>3, <2>4
<1>3. \A s \in FirstOnes(group) : s \in group /\ Cardinality(Below(s)) \in 0..(Limit - 1)
  <2> SUFFICES ASSUME NEW s \in FirstOnes(group)
      PROVE  s \in group /\ Cardinality(Below(s)) \in 0..(Limit - 1)
    OBVIOUS
  <2>1. s \in group /\ Cardinality(Below(s)) < Limit
    BY DEF FirstOnes
  <2>2. Cardinality(Below(s)) \in Nat
    BY <1>1, <2>1
  <2> HIDE DEF Below
  <2> QED
    BY <1>0, <2>1, <2>2
<1>4. f \in Injection(FirstOnes(group), 0..(Limit - 1))
  <2>1. \A s, t \in FirstOnes(group) : Cardinality(Below(s)) = Cardinality(Below(t)) => s = t
    <3> SUFFICES ASSUME NEW s \in FirstOnes(group), NEW t \in FirstOnes(group),
                        Cardinality(Below(s)) = Cardinality(Below(t))
        PROVE  s = t
      OBVIOUS
    <3>1. s \in group /\ t \in group /\ s \in Nat /\ t \in Nat
      BY <1>0, <1>3
    <3>2. Cardinality(Below(s)) \in Nat
      BY <1>1, <3>1
    <3>3. ~(s < t) /\ ~(t < s)
      <4> HIDE DEF Below
      <4> QED
        BY <1>2, <3>1, <3>2
    <3> QED
      BY <3>1, <3>3
  <2> HIDE DEF Below
  <2> QED
    BY <1>3, <2>1 DEF Injection, IsInjective
<1>5. IsFiniteSet(0..(Limit - 1)) /\ Cardinality(0..(Limit - 1)) = Limit
  BY <1>0, FS_Interval
<1> HIDE DEF f
<1> QED
  BY <1>4, <1>5, FS_Injection

\* Strengthened: a vendor's own delivery, which comes first, is nobody's turn.
FanoutInv ==
  /\ FanoutsAreBounded
  /\ \A c \in Callers : at[c] = "deliver" => fresh[c].to = Endpoint

\* fewer subscribers are bounded as well
LEMMA FewerBounded ==
  ASSUME NEW all \in SUBSET Subs, Cardinality(all) <= Limit, NEW some \in SUBSET all
  PROVE  Cardinality(some) <= Limit
<1>1. IsFiniteSet(all)
  BY FS_Subset, EventAssumption
<1>2. IsFiniteSet(some) /\ Cardinality(some) <= Cardinality(all)
  BY <1>1, FS_Subset
<1>3. Cardinality(all) \in Nat /\ Cardinality(some) \in Nat /\ Limit \in Nat
  BY <1>1, <1>2, FS_CardinalityType, EventAssumption
<1> QED
  BY <1>2, <1>3

\* who is in hand is a subscriber
LEMMA HandType ==
  ASSUME TypeOK, NEW c \in Callers
  PROVE  InHand(c) \subseteq Subs /\ todo[c] \subseteq Subs
<1>1. fresh[c].to \in Targets
  BY DEF TypeOK
<1> QED
  BY <1>1 DEF TypeOK, InHand, Targets

\* Most steps of a call leave what it has to do, or drop who is in hand.
LEMMA FanoutKept ==
  ASSUME TypeOK, FanoutInv, NEW c \in Callers, todo'[c] = todo[c], fresh'[c] = fresh[c],
         \/ at'[c] = at[c] \/ at'[c] \notin Submitting \union {"deliver"}
         \/ (at[c] \in Submitting \union {"deliver"} /\ at'[c] # "deliver")
  PROVE  /\ Cardinality(todo'[c] \union InHand(c)') <= Limit
         /\ \A s \in InHand(c)', r \in todo'[c] : s < r
         /\ at'[c] = "deliver" => fresh'[c].to = Endpoint
<1>1. InHand(c)' \subseteq InHand(c)
  BY DEF InHand, FanoutInv, Submitting
<1>2. (todo[c] \union InHand(c)) \in SUBSET Subs /\ Cardinality(todo[c] \union InHand(c)) <= Limit
      /\ \A s \in InHand(c), r \in todo[c] : s < r
  BY HandType DEF FanoutInv, FanoutsAreBounded
<1>3. (todo'[c] \union InHand(c)') \in SUBSET (todo[c] \union InHand(c))
  BY <1>1
<1>4. Cardinality(todo'[c] \union InHand(c)') <= Limit
  BY <1>2, <1>3, FewerBounded
<1>5. \A s \in InHand(c)', r \in todo'[c] : s < r
  BY <1>1, <1>2
<1>6. at'[c] = "deliver" => fresh'[c].to = Endpoint
  BY DEF FanoutInv, Submitting
<1> QED
  BY <1>4, <1>5, <1>6

\* a step of a call touches its own work only
LEMMA OthersUntouched ==
  ASSUME TypeOK, NEW c \in Callers, CallStep(c) \/ Outage(c) \/ Crash(c), NEW u \in Callers \ {c}
  PROVE  at'[u] = at[u] /\ todo'[u] = todo[u] /\ fresh'[u] = fresh[u]
BY DEF TypeOK, CallStep, Outage, Crash, Emit, Append, Prior, Deliver, Note, Observe, Copy, Announce,
  Publish, Retry, Lookup, Count, Scan, Fence, Authority, Insert, Gate, Create, Receipt, Skip,
  Accepted, Goto, ReadRow

LEMMA FanoutCallStep ==
  ASSUME TypeOK, FanoutInv, NEW c \in Callers, CallStep(c) \/ Outage(c) \/ Crash(c)
  PROVE  /\ Cardinality(todo'[c] \union InHand(c)') <= Limit
         /\ \A s \in InHand(c)', r \in todo'[c] : s < r
         /\ at'[c] = "deliver" => fresh'[c].to = Endpoint
<1> DEFINE Goal == /\ Cardinality(todo'[c] \union InHand(c)') <= Limit
                   /\ \A s \in InHand(c)', r \in todo'[c] : s < r
                   /\ at'[c] = "deliver" => fresh'[c].to = Endpoint
<1>0. /\ at \in [Callers -> Places] /\ todo \in [Callers -> SUBSET Subs]
      /\ fresh \in [Callers -> Fresh] /\ call[c].sub \in Subs
  BY DEF TypeOK, Fresh, Calls
<1>1. ASSUME Emit(c) \/ Append(c) \/ Prior(c) \/ Note(c) \/ Observe(c) \/ Copy(c)
             \/ Announce(c) \/ Publish(c) \/ Crash(c)
      PROVE  Goal
  <2>1. todo'[c] = todo[c] /\ fresh'[c] = fresh[c] /\ at'[c] \notin Submitting \union {"deliver"}
    BY <1>0, <1>1 DEF Emit, Append, Prior, Note, Observe, Copy, Announce, Publish, Crash, Goto,
       Submitting
  <2> QED
    BY <2>1, FanoutKept
<1>2. ASSUME Deliver(c) \/ Authority(c) \/ Insert(c) \/ Gate(c) \/ Create(c) \/ Receipt(c)
             \/ Outage(c)
      PROVE  Goal
  <2>1. todo'[c] = todo[c] /\ fresh'[c] = fresh[c]
        /\ at[c] \in Submitting \union {"deliver"} /\ at'[c] # "deliver"
    BY <1>0, <1>2 DEF Deliver, Authority, Insert, Gate, Create, Receipt, Outage, Skip, Accepted,
       Goto, Submitting
  <2> QED
    BY <2>1, FanoutKept
<1>3. ASSUME Retry(c) \/ Lookup(c) PROVE Goal
  <2>1. todo'[c] = todo[c] /\ at'[c] \notin Submitting \union {"deliver"} /\ InHand(c) \subseteq Subs
    BY <1>0, <1>3, HandType DEF Retry, Lookup, Goto, Submitting
  <2>2. InHand(c)' = {}
    BY <2>1 DEF InHand
  <2>3. (todo[c] \union InHand(c)) \in SUBSET Subs /\ Cardinality(todo[c] \union InHand(c)) <= Limit
    BY HandType DEF FanoutInv, FanoutsAreBounded
  <2>4. (todo'[c] \union InHand(c)') \in SUBSET (todo[c] \union InHand(c))
    BY <2>1, <2>2
  <2>5. Cardinality(todo'[c] \union InHand(c)') <= Limit
    BY <2>3, <2>4, FewerBounded
  <2> QED
    BY <2>1, <2>2, <2>5
<1>4. ASSUME Count(c) PROVE Goal
  <2>1. CASE Cardinality(Others(call[c].sub, EventOf(c))) >= Limit
    <3>1. todo'[c] = todo[c] /\ fresh'[c] = fresh[c] /\ at'[c] = "done"
      BY <1>0, <1>4, <2>1 DEF Count, Goto
    <3> QED
      BY <3>1, FanoutKept DEF Submitting
  <2>2. CASE ~(Cardinality(Others(call[c].sub, EventOf(c))) >= Limit)
    <3>1. todo'[c] = {call[c].sub} /\ at'[c] = "next"
      BY <1>0, <1>4, <2>2 DEF Count
    <3>2. InHand(c)' = {}
      BY <3>1 DEF InHand, Submitting
    <3>3. Limit >= 1
      <4>1. Others(call[c].sub, EventOf(c)) \in SUBSET Subs
        BY DEF Others
      <4>2. Cardinality(Others(call[c].sub, EventOf(c))) \in Nat /\ Limit \in Nat
        BY <4>1, FS_Subset, FS_CardinalityType, EventAssumption
      <4> QED
        BY <2>2, <4>2
    <3>4. todo'[c] \union InHand(c)' = {call[c].sub}
      BY <3>1, <3>2
    <3>5. Cardinality({call[c].sub}) = 1
      BY FS_Singleton
    <3>6. Cardinality(todo'[c] \union InHand(c)') <= Limit
      BY <3>3, <3>4, <3>5
    <3> QED
      BY <3>1, <3>2, <3>6
  <2> QED
    BY <2>1, <2>2
<1>5. ASSUME Scan(c) PROVE Goal
  <2> DEFINE group == Eligible(FanoutSource(c), carries[c])
  <2>1. todo'[c] = FirstOnes(group) /\ at'[c] = "next"
    BY <1>0, <1>5 DEF Scan
  <2>2. InHand(c)' = {}
    BY <2>1 DEF InHand, Submitting
  <2>3. group \in SUBSET Subs
    BY DEF Eligible
  <2> HIDE DEF group
  <2>4. Cardinality(FirstOnes(group)) <= Limit
    BY <2>3, FirstOnesBound
  <2>5. todo'[c] \union InHand(c)' = FirstOnes(group)
    BY <2>1, <2>2
  <2> QED
    BY <2>1, <2>2, <2>4, <2>5
<1>6. ASSUME Fence(c) PROVE Goal
  <2>1. CASE todo[c] = {} /\ Goto(c, "done")
    <3>1. todo'[c] = todo[c] /\ fresh'[c] = fresh[c] /\ at'[c] = "done"
      BY <1>0, <2>1 DEF Goto
    <3> QED
      BY <3>1, FanoutKept DEF Submitting
  <2>2. ASSUME NEW s \in todo[c], \A r \in todo[c] : s <= r,
               todo' = [todo EXCEPT ![c] = @ \ {s}], UNCHANGED carries,
               IF sub[s] # None /\ enabled[s]
               THEN at' = [at EXCEPT ![c] = "authority"] /\ ReadRow(c, s)
               ELSE UNCHANGED <<at, fresh>>
        PROVE  Goal
    <3>0. at[c] = "next"
      BY <1>6 DEF Fence
    <3>1. todo'[c] = todo[c] \ {s}
      BY <1>0, <2>2
    <3>2. InHand(c)' \subseteq {s} /\ at'[c] # "deliver"
      <4>1. CASE sub[s] # None /\ enabled[s]
        <5>1. fresh'[c].to = s /\ at'[c] = "authority"
          BY <1>0, <2>2, <4>1 DEF ReadRow
        <5> QED
          BY <5>1 DEF InHand
      <4>2. CASE ~(sub[s] # None /\ enabled[s])
        <5>1. at'[c] = "next"
          BY <2>2, <3>0, <4>2
        <5> QED
          BY <5>1 DEF InHand, Submitting
      <4> QED
        BY <4>1, <4>2
    <3>3. todo[c] \in SUBSET Subs /\ Cardinality(todo[c]) <= Limit
      <4>1. InHand(c) = {}
        BY <3>0 DEF InHand, Submitting
      <4>2. todo[c] \union InHand(c) = todo[c]
        BY <4>1
      <4> QED
        BY <1>0, <4>2 DEF FanoutInv, FanoutsAreBounded
    <3>4. (todo'[c] \union InHand(c)') \in SUBSET todo[c]
      BY <3>1, <3>2
    <3>5. Cardinality(todo'[c] \union InHand(c)') <= Limit
      BY <3>3, <3>4, FewerBounded
    <3>6. ASSUME NEW r \in todo[c] \ {s} PROVE s < r
      <4>1. s \in Nat /\ r \in Nat
        BY <1>0, EventAssumption
      <4>2. s <= r /\ s # r
        BY <2>2
      <4> QED
        BY <4>1, <4>2
    <3> QED
      BY <3>1, <3>2, <3>5, <3>6
  <2> QED
    BY <1>6, <2>1, <2>2 DEF Fence
<1> QED
  BY <1>1, <1>2, <1>3, <1>4, <1>5, <1>6 DEF CallStep

LEMMA FanoutStep == TypeOK /\ FanoutInv /\ [Next]_vars => FanoutInv'
<1> SUFFICES ASSUME TypeOK, FanoutInv, [Next]_vars, NEW u \in Callers
    PROVE  /\ Cardinality(todo'[u] \union InHand(u)') <= Limit
           /\ \A s \in InHand(u)', r \in todo'[u] : s < r
           /\ at'[u] = "deliver" => fresh'[u].to = Endpoint
  BY DEF FanoutInv, FanoutsAreBounded
<1>1. CASE at'[u] = at[u] /\ todo'[u] = todo[u] /\ fresh'[u] = fresh[u]
  BY <1>1, FanoutKept
<1>2. ASSUME NEW c \in Callers, CallStep(c) \/ Outage(c) \/ Crash(c)
      PROVE  /\ Cardinality(todo'[u] \union InHand(u)') <= Limit
             /\ \A s \in InHand(u)', r \in todo'[u] : s < r
             /\ at'[u] = "deliver" => fresh'[u].to = Endpoint
  <2>1. CASE c = u
    BY <1>2, <2>1, FanoutCallStep
  <2>2. CASE c # u
    <3>1. u \in Callers \ {c}
      BY <2>2
    <3>2. at'[u] = at[u] /\ todo'[u] = todo[u] /\ fresh'[u] = fresh[u]
      BY <1>2, <3>1, OthersUntouched
    <3> QED
      BY <1>1, <3>2
  <2> QED
    BY <2>1, <2>2
<1>3. CASE UNCHANGED calls
  BY <1>1, <1>3 DEF calls
<1>4. CASE (\E o \in Sources : SetSource(o) \/ DeleteSource(o) \/ CreateSource(o))
           \/ (\E s \in Subs : SetEnabled(s) \/ Drop(s) \/ Subscribe(s)) \/ Bar \/ Age
  BY <1>3, <1>4 DEF SetSource, DeleteSource, CreateSource, SetEnabled, Drop, Subscribe, Bar, Age
<1>5. CASE UNCHANGED vars
  BY <1>3, <1>5 DEF vars
<1> QED
  BY <1>2, <1>4, <1>5 DEF Next

\* However many subscribe and however the rows change under it, one call
\* submits for Limit of them at most, each once.
THEOREM FanoutsBounded == Spec => []FanoutsAreBounded
<1>1. Init => FanoutInv
  <2> SUFFICES ASSUME Init, NEW c \in Callers
      PROVE  /\ Cardinality(todo[c] \union InHand(c)) <= Limit
             /\ \A s \in InHand(c), r \in todo[c] : s < r
             /\ at[c] = "deliver" => fresh[c].to = Endpoint
    BY DEF FanoutInv, FanoutsAreBounded
  <2>1. todo[c] = {} /\ fresh[c] = NoRow
    BY DEF Init
  <2>2. fresh[c].to = Endpoint
    BY <2>1 DEF NoRow
  <2>3. todo[c] \union InHand(c) = {}
    BY <2>1, <2>2 DEF InHand
  <2>4. Cardinality({}) = 0 /\ Limit \in Nat
    BY FS_EmptySet, EventAssumption
  <2>5. Cardinality(todo[c] \union InHand(c)) <= Limit
    BY <2>3, <2>4
  <2> QED
    BY <2>1, <2>2, <2>5
<1>2. TypeOK /\ FanoutInv /\ [Next]_vars => FanoutInv'
  BY FanoutStep
<1>3. FanoutInv => FanoutsAreBounded
  BY DEF FanoutInv
<1> QED
  BY <1>1, <1>2, <1>3, TypeCorrect, PTL DEF Spec

(***************************************************************************)
(* Each key's row is a receipt                                             *)
(***************************************************************************)
\* a step moves the row of a key as its receipt, or leaves it: Insert, Create and
\* Age are the only ones to write it
LEMMA RowStep ==
  ASSUME IInv, [Next]_vars, NEW k \in Keys
  PROVE  [KeyReceipt(k)!Next]_(KeyReceipt(k)!vars)
<1> USE DEF KeyReceipt!vars
<1>r. TypeOK /\ exec \in [Keys -> [state : States, saga : Sagas, content : Contents \union {None}]]
  BY DEF IInv, TypeOK
<1>t. /\ exec[k] \in [state : States, saga : Sagas, content : Contents \union {None}]
  BY <1>r
<1>0. CASE exec'[k] = exec[k]
  BY <1>0
<1>1. ASSUME NEW c \in Callers, Insert(c) PROVE [KeyReceipt(k)!Next]_(KeyReceipt(k)!vars)
  <2>1. Key(c) \in Keys
    BY <1>r, SrcType
  <2>2. CASE exec[k].state = "none" /\ exec'[k].state = "pending"
    BY <2>2 DEF KeyReceipt!Next, KeyReceipt!Receive
  <2>3. CASE k = Key(c) /\ Held(c).state = "none"
    <3>1. exec' = [exec EXCEPT ![k] = [state |-> "pending", saga |-> fresh[c].saga, content |-> carries[c]]]
      BY <1>1, <2>3 DEF Insert
    <3>2. exec'[k].state = "pending"
      BY <1>r, <3>1
    <3> QED
      BY <2>2, <2>3, <3>2 DEF Held
  <2>4. CASE k # Key(c) \/ Held(c).state # "none"
    <3>1. exec'[k] = exec[k]
      BY <1>r, <1>1, <2>1, <2>4 DEF Insert
    <3> QED
      BY <1>0, <3>1
  <2> QED
    BY <2>3, <2>4
<1>2. ASSUME NEW c \in Callers, Create(c) PROVE [KeyReceipt(k)!Next]_(KeyReceipt(k)!vars)
  <2>1. Key(c) \in Keys /\ Held(c).state # "none"
    BY <1>r, <1>2, SrcType DEF Create, IInv, CallOK
  <2>2. CASE k # Key(c) \/ Held(c).state = "cancelled"
    <3>1. exec'[k] = exec[k]
      BY <1>r, <1>2, <2>1, <2>2 DEF Create
    <3> QED
      BY <1>0, <3>1
  <2>3. CASE k = Key(c) /\ Held(c).state # "cancelled"
    <3>1. exec' = [exec EXCEPT ![k].state = "dispatched"]
      BY <1>2, <2>3 DEF Create
    <3>2. exec'[k] = [exec[k] EXCEPT !.state = "dispatched"]
      BY <1>r, <3>1
    <3>3. /\ exec'[k].state = "dispatched" /\ exec'[k].saga = exec[k].saga
          /\ exec'[k].content = exec[k].content
      BY <1>t, <3>2
    <3>4. exec[k].state \in {"pending", "expired", "dispatched"}
      BY <1>t, <2>1, <2>3 DEF Held, States
    <3>5. CASE exec[k].state = "dispatched"
      BY <3>3, <3>5
    <3>6. CASE exec[k].state \in {"pending", "expired"}
      BY <3>3, <3>6 DEF KeyReceipt!Next, KeyReceipt!Dispatch
    <3> QED
      BY <3>4, <3>5, <3>6
  <2> QED
    BY <2>2, <2>3
<1>3. CASE Age
  <2>1. PICK r \in Keys :
          \/ /\ exec[r].state \in {"pending", "expired", "dispatched"}
             /\ exec' = [exec EXCEPT ![r].state = "cancelled"]
          \/ /\ exec[r].state = "pending"
             /\ exec' = [exec EXCEPT ![r].state = "expired"]
    BY <1>3 DEF Age
  <2>2. CASE r # k
    <3>1. exec'[k] = exec[k]
      BY <1>r, <2>1, <2>2
    <3> QED
      BY <1>0, <3>1
  <2>3. CASE r = k
    <3>1. exec'[k].saga = exec[k].saga /\ exec'[k].content = exec[k].content
      BY <1>r, <2>1, <2>3
    <3>2. \/ exec[k].state \in {"pending", "expired", "dispatched"} /\ exec'[k].state = "cancelled"
          \/ exec[k].state = "pending" /\ exec'[k].state = "expired"
      BY <1>r, <2>1, <2>3
    <3> QED
      BY <3>1, <3>2 DEF KeyReceipt!Next, KeyReceipt!Cancel, KeyReceipt!Expire
  <2> QED
    BY <2>2, <2>3
<1>4. CASE UNCHANGED exec
  BY <1>0, <1>4
<1>5. ASSUME NEW c \in Callers, CallStep(c), ~Insert(c), ~Create(c) PROVE UNCHANGED exec
  BY <1>5 DEF CallStep, Emit, Append, Prior, Deliver, Note, Observe, Copy, Announce, Publish, Retry,
     Lookup, Count, Scan, Fence, Authority, Gate, Receipt
<1>6. ASSUME Around, ~Age PROVE UNCHANGED exec
  BY <1>6 DEF Around, Outage, Crash, SetSource, DeleteSource, CreateSource, SetEnabled, Drop, Subscribe, Bar
<1>7. CASE UNCHANGED vars
  BY <1>4, <1>7 DEF vars
<1> QED
  BY <1>1, <1>2, <1>3, <1>4, <1>5, <1>6, <1>7, StepCases

\* However emissions, replays, retries and vendor deliveries of one event meet,
\* each key has one receipt, of the kind module Executions is proved to keep.
THEOREM KeysAreReceipts == Spec => ImplementsReceipts
<1>1. Init => \A k \in Keys : KeyReceipt(k)!Init
  BY DEF Init, KeyReceipt!Init, NoReceipt
<1>2. IInv /\ [Next]_vars
        => [\A k \in Keys : [KeyReceipt(k)!Next]_(KeyReceipt(k)!vars)]_vars
  BY RowStep
<1> QED
  BY <1>1, <1>2, Invariant, PTL DEF Spec, ImplementsReceipts

=============================================================================
