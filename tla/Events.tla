------------------------------- MODULE Events -------------------------------
(***************************************************************************)
(* Event sources, subscriptions and deliveries (src/events.ts), and the    *)
(* vendor deliveries of an inbound endpoint that end in the same logs      *)
(* (executeEndpointDelivery of src/endpoints.ts).                          *)
(*                                                                         *)
(* An event is appended to the log of its source and then dispatched to    *)
(* the subscribers, at most Limit of them.  A failed delivery is derived,  *)
(* never stored: an event of the log without a receipt.  Operators emit it *)
(* again or retry it; both reach the same dispatch.  Sources and           *)
(* subscriptions have the hash of their names as ids, so a row deleted and *)
(* created again has the old id, and its deliveries the old keys; the user *)
(* it runs as is part of the Execution's id.                               *)
(***************************************************************************)
EXTENDS Naturals, FiniteSets

CONSTANTS
  Sources,    \* event sources, by the hash of Organization and name
  Platform,   \* the topic source named `platform`
  Observer,   \* the webhook source that observes the endpoint
  Subs,       \* subscriptions, numbers: a fan-out goes ORDER BY name
  SourceOf,   \* SourceOf[s]: the source s subscribes to
  EventIds,   \* events of the logs
  Contents,   \* topic and payload of an event
  Announced,  \* Announced[e]: what the platform announces vendor event e with
  Owners,     \* users a subscription runs as, with the endpoint's principal
  Sagas,
  Accepts,    \* Accepts[g]: what the deployed Saga g parses, {} for one not deployed
  Rows,       \* what a subscription may be created with: [owner, saga, wants]
  Endpoint,   \* the endpoint: a principal, and the target of its own deliveries
  VendorSaga, \* the Saga it is bound to
  None,       \* no row
  Limit,      \* EVENT_FANOUT_LIMIT
  Callers,    \* the calls of a scenario
  Casts       \* [calls, events]: what each caller asks, what may happen once

Targets == Subs \union {Endpoint}
Keys    == Owners \X Targets \X EventIds
States  == {"none", "pending", "expired", "dispatched", "cancelled"}
Entries == [content : Contents, run : BOOLEAN]  \* an event of a log: is its execution_id set?
Starts  == {"emit", "retry", "deliver", "done"}
Places  == Starts \union {"append", "prior", "lookup", "count", "note", "observe", "copy",
                          "announce", "publish", "scan", "next", "authority", "insert",
                          "gate", "create", "receipt"}
Calls   == [at : Starts, source : Sources, event : EventIds, content : Contents, sub : Subs]
Happenings == [what : {"open", "close", "delete", "create", "enable", "disable", "drop",
                       "subscribe", "bar", "free", "cancel", "expire", "outage", "crash"},
               id : Sources \union Subs \union Owners \union Sagas \union {None}]

ASSUME EventAssumption ==
  /\ Platform \in Sources /\ Observer \in Sources \ {Platform}
  /\ None \notin Owners /\ None \notin Contents /\ None \notin Rows /\ None \notin Entries
  /\ Subs \subseteq Nat /\ IsFiniteSet(Subs)
  /\ SourceOf \in [Subs -> Sources]
  /\ Announced \in [EventIds -> Contents]
  /\ Endpoint \in Owners /\ Endpoint \notin Subs /\ VendorSaga \in Sagas
  /\ Accepts \in [Sagas -> SUBSET Contents]
  /\ Rows \subseteq [owner : Owners \ {Endpoint}, saga : Sagas, wants : SUBSET Contents]
  /\ Limit \in Nat
  /\ Casts \subseteq [calls : [Callers -> Calls], rows : [Subs -> Rows \union {None}],
                      events : SUBSET Happenings]

VARIABLES
  source,     \* event_sources: gone, off or on
  log,        \* events: what a source's log holds of an event
  sub,        \* event_subscriptions: the row, and
  enabled,    \* its enabled
  delivered,  \* event_deliveries: the owner of the Execution a receipt names
  noted,      \* endpoint_events: the vendor's input
  exec,       \* executions, by user, target and event
  barred,     \* owners without authority, Sagas paused or at their limit
  at,         \* where a call is
  call,       \* what it was asked
  carries,    \* the content it dispatches
  todo,       \* the subscribers it has not come to
  fresh,      \* the row it has read last, with the target it is of
  events,     \* what may still happen
  admitted,   \* history: what a log has ever held
  torn        \* history: has a row been created again under a call at work?

rows  == <<source, log, sub, enabled, delivered, noted>>
calls == <<at, carries, todo, fresh>>
world == <<call, barred, events, torn>>
vars  == <<rows, exec, calls, world, admitted>>

NoReceipt == [state |-> "none", saga |-> VendorSaga, content |-> None]
NoRow     == [owner |-> Endpoint, saga |-> VendorSaga, wants |-> {}, to |-> Endpoint]

Init == \E cast \in Casts :
  /\ source = [o \in Sources |-> "on"]
  /\ log = [o \in Sources |-> [e \in EventIds |-> None]]
  /\ sub = cast.rows
  /\ enabled = [s \in Subs |-> cast.rows[s] # None]
  /\ delivered = [s \in Subs |-> [e \in EventIds |-> None]]
  /\ noted = [e \in EventIds |-> None]
  /\ exec = [k \in Keys |-> NoReceipt]
  /\ barred = {}
  /\ call = cast.calls
  /\ at = [c \in Callers |-> cast.calls[c].at]
  /\ carries = [c \in Callers |-> cast.calls[c].content]
  /\ todo = [c \in Callers |-> {}]
  /\ fresh = [c \in Callers |-> NoRow]
  /\ events = cast.events
  /\ admitted = [o \in Sources |-> [e \in EventIds |-> {}]]
  /\ torn = FALSE

EventOf(c) == call[c].event
Goto(c, place) == at' = [at EXCEPT ![c] = place] /\ UNCHANGED <<carries, todo, fresh>>

Entry(content, run) == [content |-> content, run |-> run]

\* the append: ON CONFLICT(source_id, event_id) DO NOTHING
AppendTo(o, e, entry) ==
  /\ log' = [log EXCEPT ![o][e] = IF @ = None THEN entry ELSE @]
  /\ admitted' = [admitted EXCEPT ![o][e] = IF log[o][e] = None THEN @ \union {entry} ELSE @]
  /\ UNCHANGED <<source, sub, enabled, delivered, noted>>

(***************************************************************************)
(* emitEvent: the operator's append, under any event id and content that   *)
(* is well formed, those of the platform included, and without Execution.  *)
(***************************************************************************)
Emit(c) ==
  /\ at[c] = "emit"
  /\ Goto(c, IF source[call[c].source] = "on" THEN "append" ELSE "done")
  /\ UNCHANGED <<rows, exec, world, admitted>>

\* a source that is gone fails the foreign key
Append(c) ==
  /\ at[c] = "append"
  /\ LET o == call[c].source IN
     IF source[o] = "gone" THEN Goto(c, "done") /\ UNCHANGED <<rows, admitted>>
     ELSE /\ AppendTo(o, EventOf(c), Entry(carries[c], FALSE))
          /\ Goto(c, IF log[o][EventOf(c)] = None THEN "scan" ELSE "prior")
  /\ UNCHANGED <<exec, world>>

\* Mutant: any event of that id is a replay.
ReplaysAny(c) == log[call[c].source][EventOf(c)] # None

\* the same event with other content, or deleted meanwhile, is EVENT_CONFLICT
Replays(c) == log[call[c].source][EventOf(c)] = Entry(carries[c], FALSE)

Prior(c) ==
  /\ at[c] = "prior" /\ Goto(c, IF Replays(c) THEN "scan" ELSE "done")
  /\ UNCHANGED <<rows, exec, world, admitted>>

(***************************************************************************)
(* executeEndpointDelivery: a vendor's event runs the bound Saga first,    *)
(* through the same submit, and is recorded in three logs afterwards.      *)
(***************************************************************************)
\* the endpoint is enabled, the credential verifies, the input parses
Deliver(c) ==
  /\ at[c] = "deliver"
  /\ Goto(c, IF Endpoint \in barred \/ carries[c] \notin Accepts[VendorSaga] THEN "done"
             ELSE "insert")
  /\ UNCHANGED <<rows, exec, world, admitted>>

\* endpoint_events
Note(c) ==
  /\ at[c] = "note"
  /\ noted' = [noted EXCEPT ![EventOf(c)] = IF @ = None THEN carries[c] ELSE @]
  /\ Goto(c, IF noted[EventOf(c)] \in {None, carries[c]} THEN "observe" ELSE "done")
  /\ UNCHANGED <<source, log, sub, enabled, delivered, exec, world, admitted>>

\* recordSourceDelivery: best effort
Observe(c) ==
  /\ at[c] = "observe" /\ Goto(c, IF source[Observer] = "on" THEN "copy" ELSE "announce")
  /\ UNCHANGED <<rows, exec, world, admitted>>

Copy(c) ==
  /\ at[c] = "copy" /\ Goto(c, "announce")
  /\ IF source[Observer] = "gone" THEN UNCHANGED <<rows, admitted>>
     ELSE AppendTo(Observer, EventOf(c), Entry(carries[c], TRUE))
  /\ UNCHANGED <<exec, world>>

\* recordPlatformEvent
Announce(c) ==
  /\ at[c] = "announce" /\ Goto(c, IF source[Platform] = "on" THEN "publish" ELSE "done")
  /\ UNCHANGED <<rows, exec, world, admitted>>

\* it goes on with its own payload, also where the log holds another event
Publish(c) ==
  /\ at[c] = "publish"
  /\ IF source[Platform] = "gone" THEN Goto(c, "done") /\ UNCHANGED <<rows, admitted>>
     ELSE /\ AppendTo(Platform, EventOf(c), Entry(Announced[EventOf(c)], TRUE))
          /\ at' = [at EXCEPT ![c] = "scan"]
          /\ carries' = [carries EXCEPT ![c] = Announced[EventOf(c)]]
          /\ UNCHANGED <<todo, fresh>>
  /\ UNCHANGED <<exec, world>>

(***************************************************************************)
(* retrySubscriptionDelivery: an operator retries one failed delivery.     *)
(***************************************************************************)
ReadRow(c, s) == fresh' = [fresh EXCEPT ![c] =
  [owner |-> sub[s].owner, saga |-> sub[s].saga, wants |-> sub[s].wants, to |-> s]]

\* the route loads the source and the subscription
Retry(c) ==
  /\ at[c] = "retry"
  /\ LET s == call[c].sub IN
     IF sub[s] = None THEN Goto(c, "done")
     ELSE at' = [at EXCEPT ![c] = "lookup"] /\ ReadRow(c, s) /\ UNCHANGED <<carries, todo>>
  /\ UNCHANGED <<rows, exec, world, admitted>>

\* Mutant: an event that was never logged, or not any more, passes.
RetriableUnlogged(c, content) == content \in fresh[c].wants \union {None}

Retriable(c, content) == content \in fresh[c].wants

Logged(o, e) == IF log[o][e] = None THEN None ELSE log[o][e].content

\* the event must be in the log and match
Lookup(c) ==
  /\ at[c] = "lookup"
  /\ LET content == Logged(SourceOf[call[c].sub], EventOf(c)) IN
     IF ~Retriable(c, content) THEN Goto(c, "done")
     ELSE /\ at' = [at EXCEPT ![c] = "count"]
          /\ carries' = [carries EXCEPT ![c] = content]
          /\ UNCHANGED <<todo, fresh>>
  /\ UNCHANGED <<rows, exec, world, admitted>>

\* the receipts of the source's other subscriptions
Others(s, e) ==
  {r \in Subs \ {s} : sub[r] # None /\ SourceOf[r] = SourceOf[s] /\ delivered[r][e] # None}

Count(c) ==
  /\ at[c] = "count"
  /\ IF Cardinality(Others(call[c].sub, EventOf(c))) >= Limit THEN Goto(c, "done")
     ELSE /\ at' = [at EXCEPT ![c] = "next"]
          /\ todo' = [todo EXCEPT ![c] = {call[c].sub}]
          /\ UNCHANGED <<carries, fresh>>
  /\ UNCHANGED <<rows, exec, world, admitted>>

(***************************************************************************)
(* dispatchEventFanout: one scan; the subscribers it takes are the first   *)
(* Limit enabled ones whose filter matches, whoever has a receipt already. *)
(***************************************************************************)
FanoutSource(c) == IF call[c].at = "deliver" THEN Platform ELSE call[c].source

Eligible(o, content) ==
  {s \in Subs : sub[s] # None /\ enabled[s] /\ SourceOf[s] = o /\ content \in sub[s].wants}

FirstOnes(group) == {s \in group : Cardinality({r \in group : r < s}) < Limit}

Scan(c) ==
  /\ at[c] = "scan" /\ at' = [at EXCEPT ![c] = "next"]
  /\ todo' = [todo EXCEPT ![c] = FirstOnes(Eligible(FanoutSource(c), carries[c]))]
  /\ UNCHANGED <<rows, exec, carries, fresh, world, admitted>>

(***************************************************************************)
(* dispatchToSubscriber                                                    *)
(***************************************************************************)
\* never trust the scan: the row is read again by id
Fence(c) ==
  /\ at[c] = "next"
  /\ \/ todo[c] = {} /\ Goto(c, "done")
     \/ \E s \in todo[c] :
          /\ \A r \in todo[c] : s <= r
          /\ todo' = [todo EXCEPT ![c] = @ \ {s}]
          /\ UNCHANGED carries
          /\ IF sub[s] # None /\ enabled[s]
             THEN at' = [at EXCEPT ![c] = "authority"] /\ ReadRow(c, s)
             ELSE UNCHANGED <<at, fresh>>
  /\ UNCHANGED <<rows, exec, world, admitted>>

\* A Fault skips a subscriber; a vendor's own delivery, or a retry, answers it.
Skip(c) == Goto(c, IF fresh[c].to = Endpoint THEN "done" ELSE "next")

\* the owner's authority, the catalog and the Saga's parse
Authority(c) ==
  /\ at[c] = "authority"
  /\ IF fresh[c].owner \in barred \/ carries[c] \notin Accepts[fresh[c].saga] THEN Skip(c)
     ELSE Goto(c, "insert")
  /\ UNCHANGED <<rows, exec, world, admitted>>

Key(c) == <<fresh[c].owner, fresh[c].to, EventOf(c)>>
Held(c) == exec[Key(c)]

\* submit, INSERT ... ON CONFLICT(id) DO NOTHING
Insert(c) ==
  /\ at[c] = "insert" /\ Goto(c, "gate")
  /\ exec' = IF Held(c).state # "none" THEN exec
             ELSE [exec EXCEPT ![Key(c)] =
                     [state |-> "pending", saga |-> fresh[c].saga, content |-> carries[c]]]
  /\ UNCHANGED <<rows, world, admitted>>

\* Mutant: only the key is compared.
SameKey(c) == TRUE

SameRequest(c) == Held(c).saga = fresh[c].saga /\ Held(c).content = carries[c]

\* Mutant: a Pending row counts as dispatched.
AlreadyHeld(c) == Held(c).state \in {"pending", "dispatched"}

Dispatched(c) == Held(c).state = "dispatched"

Accepted(c) == Goto(c, IF fresh[c].to = Endpoint THEN "note" ELSE "receipt")

\* IDEMPOTENCY_CONFLICT, EXECUTION_CANCELLED, the admission, RECOVERY_EXPIRED
Gate(c) ==
  /\ at[c] = "gate"
  /\ IF ~SameRequest(c) \/ Held(c).state = "cancelled" THEN Skip(c)
     ELSE IF Dispatched(c) THEN Accepted(c)
     ELSE IF fresh[c].saga \in barred \/ Held(c).state = "expired" THEN Skip(c)
     ELSE Goto(c, "create")
  /\ UNCHANGED <<rows, exec, world, admitted>>

\* createBatch and the dispatched stamp
Create(c) ==
  /\ at[c] = "create" /\ Accepted(c)
  /\ exec' = IF Held(c).state = "cancelled" THEN exec
             ELSE [exec EXCEPT ![Key(c)].state = "dispatched"]
  /\ UNCHANGED <<rows, world, admitted>>

\* the receipt (its foreign key wants the subscription), best effort
Receipt(c) ==
  /\ at[c] = "receipt" /\ Goto(c, "next")
  /\ LET s == fresh[c].to IN
     delivered' = IF sub[s] = None THEN delivered
                  ELSE [delivered EXCEPT ![s][EventOf(c)] = IF @ = None THEN fresh[c].owner ELSE @]
  /\ UNCHANGED <<source, log, sub, enabled, noted, exec, world, admitted>>

CallStep(c) ==
  \/ Emit(c) \/ Append(c) \/ Prior(c) \/ Deliver(c) \/ Note(c) \/ Observe(c) \/ Copy(c)
  \/ Announce(c) \/ Publish(c) \/ Retry(c) \/ Lookup(c) \/ Count(c) \/ Scan(c) \/ Fence(c)
  \/ Authority(c) \/ Insert(c) \/ Gate(c) \/ Create(c) \/ Receipt(c)

(***************************************************************************)
(* What else happens, each event of the scenario at most once.             *)
(***************************************************************************)
Happens(what, id) ==
  /\ [what |-> what, id |-> id] \in events
  /\ events' = events \ {[what |-> what, id |-> id]}

AtWork == \E c \in Callers : at[c] \notin Starts

\* setEventSourceEnabled
SetSource(o) == \E what \in {"open", "close"} :
  /\ source[o] # "gone" /\ Happens(what, o)
  /\ source' = [source EXCEPT ![o] = IF what = "open" THEN "on" ELSE "off"]
  /\ UNCHANGED <<log, sub, enabled, delivered, noted, exec, calls, call, barred, torn, admitted>>

Emptied(f, gone) == [s \in Subs |-> IF s \in gone THEN [e \in EventIds |-> None] ELSE f[s]]

\* the receipts and the rows of subscriptions
Unsubscribe(gone) ==
  /\ delivered' = Emptied(delivered, gone)
  /\ sub' = [s \in Subs |-> IF s \in gone THEN None ELSE sub[s]]
  /\ enabled' = [s \in Subs |-> s \notin gone /\ enabled[s]]

\* deleteEventSource: receipts, subscriptions, events and the row, in one batch
DeleteSource(o) ==
  /\ source[o] # "gone" /\ Happens("delete", o)
  /\ Unsubscribe({s \in Subs : SourceOf[s] = o})
  /\ log' = [log EXCEPT ![o] = [e \in EventIds |-> None]]
  /\ source' = [source EXCEPT ![o] = "gone"]
  /\ UNCHANGED <<noted, exec, calls, call, barred, torn, admitted>>

\* createEventSource under a free name
CreateSource(o) ==
  /\ source[o] = "gone" /\ Happens("create", o)
  /\ source' = [source EXCEPT ![o] = "on"]
  /\ torn' = (torn \/ AtWork)
  /\ UNCHANGED <<log, sub, enabled, delivered, noted, exec, calls, call, barred, admitted>>

\* setSubscriptionEnabled
SetEnabled(s) == \E what \in {"enable", "disable"} :
  /\ sub[s] # None /\ Happens(what, s)
  /\ enabled' = [enabled EXCEPT ![s] = what = "enable"]
  /\ UNCHANGED <<source, log, sub, delivered, noted, exec, calls, call, barred, torn, admitted>>

\* deleteSubscription: one batch
Drop(s) ==
  /\ sub[s] # None /\ Happens("drop", s)
  /\ Unsubscribe({s})
  /\ UNCHANGED <<source, log, noted, exec, calls, call, barred, torn, admitted>>

\* createSubscription: the foreign key wants the source
Subscribe(s) == \E row \in Rows :
  /\ sub[s] = None /\ source[SourceOf[s]] # "gone" /\ Happens("subscribe", s)
  /\ sub' = [sub EXCEPT ![s] = row]
  /\ enabled' = [enabled EXCEPT ![s] = TRUE]
  /\ torn' = (torn \/ AtWork)
  /\ UNCHANGED <<source, log, delivered, noted, exec, calls, call, barred, admitted>>

\* memberships, grants, policies and limits change
Bar == \E x \in Owners \union Sagas :
  /\ \/ Happens("bar", x) /\ barred' = barred \union {x}
     \/ Happens("free", x) /\ barred' = barred \ {x}
  /\ UNCHANGED <<rows, exec, calls, call, torn, admitted>>

\* the owner's cancel is confirmed; RECOVERY_WINDOW_MS is over
Age == \E k \in Keys :
  /\ \/ /\ exec[k].state \in {"pending", "expired", "dispatched"} /\ Happens("cancel", k[2])
        /\ exec' = [exec EXCEPT ![k].state = "cancelled"]
     \/ /\ exec[k].state = "pending" /\ Happens("expire", k[2])
        /\ exec' = [exec EXCEPT ![k].state = "expired"]
  /\ UNCHANGED <<rows, calls, call, barred, torn, admitted>>

\* createBatch fails: DISPATCH_UNCONFIRMED, a Fault
Outage(c) ==
  /\ at[c] = "create" /\ Happens("outage", fresh[c].to) /\ Skip(c)
  /\ UNCHANGED <<rows, exec, call, barred, torn, admitted>>

\* the invocation dies, or D1 fails it
Crash(c) ==
  /\ at[c] \notin Starts /\ Happens("crash", None) /\ Goto(c, "done")
  /\ UNCHANGED <<rows, exec, call, barred, torn, admitted>>

Next ==
  \/ \E c \in Callers : CallStep(c) \/ Outage(c) \/ Crash(c)
  \/ \E o \in Sources : SetSource(o) \/ DeleteSource(o) \/ CreateSource(o)
  \/ \E s \in Subs : SetEnabled(s) \/ Drop(s) \/ Subscribe(s)
  \/ Bar \/ Age

Spec == Init /\ [][Next]_vars

(***************************************************************************)
(* Properties                                                              *)
(***************************************************************************)
\* Every variable keeps its type.
TypeOK ==
  /\ source \in [Sources -> {"gone", "off", "on"}]
  /\ log \in [Sources -> [EventIds -> Entries \union {None}]]
  /\ sub \in [Subs -> Rows \union {None}] /\ enabled \in [Subs -> BOOLEAN]
  /\ delivered \in [Subs -> [EventIds -> Owners \union {None}]]
  /\ noted \in [EventIds -> Contents \union {None}]
  /\ exec \in [Keys -> [state : States, saga : Sagas, content : Contents \union {None}]]
  /\ barred \subseteq Owners \union Sagas
  /\ at \in [Callers -> Places] /\ call \in [Callers -> Calls]
  /\ carries \in [Callers -> Contents] /\ todo \in [Callers -> SUBSET Subs]
  /\ fresh \in [Callers -> [owner : Owners, saga : Sagas, wants : SUBSET Contents, to : Targets]]
  /\ events \subseteq Happenings
  /\ admitted \in [Sources -> [EventIds -> SUBSET Entries]] /\ torn \in BOOLEAN

\* the log of o has held event e with that content
Given(o, e, content) == \E run \in BOOLEAN : Entry(content, run) \in admitted[o][e]

\* content is how the platform announces e, and an operator has logged an event
\* of its own under that id
Squatted(o, e, content) ==
  /\ o = Platform /\ content = Announced[e]
  /\ \E x \in Contents : Entry(x, FALSE) \in admitted[o][e]

\* Every Execution that an event has started, by emissions, replays, retries and
\* announcements of several calls, ran on a content which the log of its source
\* has held under that id; while the source lives that is one content.  Except
\* that recordPlatformEvent fans its own payload out where an operator has
\* taken the id of the announcement.
RunsAsLogged ==
  \A o \in Owners, s \in Subs, e \in EventIds :
    LET held == exec[<<o, s, e>>] IN
      held.state # "none" =>
        Given(SourceOf[s], e, held.content) \/ Squatted(SourceOf[s], e, held.content)

Ran(k) == exec[k].state \in {"dispatched", "cancelled"}

\* A receipt tells the truth: the Execution it names was dispatched, for the
\* Saga and the user of the subscription, on the content the log holds (or a
\* squatted one); through conflicts, crashes, cancels, deletions and new rows of
\* the same id, as long as no row was created again while a call was at work
\* (torn).
ReceiptsAreTrue ==
  torn \/ \A s \in Subs, e \in EventIds : delivered[s][e] # None =>
    LET k == <<delivered[s][e], s, e>> IN
      /\ sub[s] # None /\ sub[s].owner = k[1]
      /\ Ran(k) /\ exec[k].saga = sub[s].saga
      /\ \/ exec[k].content = Logged(SourceOf[s], e)
         \/ Squatted(SourceOf[s], e, exec[k].content)

\* A vendor's event is in endpoint_events with the input its Execution was
\* dispatched with, and an event of a log that names an Execution names one that
\* was dispatched, with its input or, on the platform's, as announced.
VendorRecordsAreTrue ==
  \A e \in EventIds : LET k == <<Endpoint, Endpoint, e>> IN
    /\ noted[e] # None => Ran(k) /\ exec[k].content = noted[e]
    /\ \A o \in Sources : log[o][e] # None /\ log[o][e].run =>
         /\ Ran(k)
         /\ log[o][e].content = IF o = Platform THEN Announced[e] ELSE exec[k].content

\* the subscribers a call has to do with: the ones to come and the one in hand
Submitting == {"authority", "insert", "gate", "create", "receipt"}
InHand(c)  == IF at[c] \in Submitting /\ fresh[c].to # Endpoint THEN {fresh[c].to} ELSE {}

\* One call submits for at most EVENT_FANOUT_LIMIT subscribers, in their order
\* and for none twice, however the rows change between its scan and their turn.
\* (Two calls of one event may take different ones.)
FanoutsAreBounded ==
  \A c \in Callers :
    /\ Cardinality(todo[c] \union InHand(c)) <= Limit
    /\ \A s \in InHand(c), r \in todo[c] : s < r

\* What Events assumes of submit is what module Executions does: each key has
\* one receipt, whichever fan-outs, retries and vendor deliveries come to it.
KeyReceipt(k) == INSTANCE SubmitReceipt WITH
  state <- exec[k].state, content <- <<exec[k].saga, exec[k].content>>

ImplementsReceipts ==
  /\ \A k \in Keys : KeyReceipt(k)!Init
  /\ [][\A k \in Keys : [KeyReceipt(k)!Next]_(KeyReceipt(k)!vars)]_vars

=============================================================================
