------------------------------ MODULE Admission ------------------------------
(***************************************************************************)
(* Admission to one (Organization, Saga): how many of its Executions run   *)
(* at once, whichever route asks for them.                                 *)
(*                                                                         *)
(*   submit    src/executions.ts submit                                    *)
(*   child     src/children.ts invokeChild                                 *)
(*   provider  src/sync.ts runProvider, which runs the Action inline       *)
(*                                                                         *)
(* All three insert their Pending receipt first, read it back, and only    *)
(* then ask admitExecution, which loads the policy and counts the other    *)
(* active rows in two awaits.  Operators edit the policy meanwhile         *)
(* (storeSagaPolicy: read, read the version, write).  What a run or a      *)
(* cancel does to a row is module Executions; here rows only change        *)
(* between active and over.                                                *)
(***************************************************************************)
EXTENDS Naturals, FiniteSets

CONSTANTS
  Ids,        \* Execution IDs of the Saga in the Organization
  Requests,   \* submits, child dispatches and provider calls
  IdOf,       \* IdOf[r]: the ID request r's key hashes to
  RouteOf,    \* RouteOf[r]: "submit", "child" or "provider"
  Operators,  \* policy edits
  EditOf,     \* EditOf[o]: [field, to], the one field edit o's body names
  Casts,      \* [who, limit]: a scenario: who arrives, the first maxConcurrent
  MaxLimit    \* no policy sets a larger one

Routes == {"submit", "child", "provider"}
Edits  == [field : {"enabled"}, to : BOOLEAN]
          \union [field : {"limit"}, to : 1..MaxLimit]

\* maxConcurrent = 0 means unbounded; the operators of this model keep a bound
ASSUME AdmissionAssumption ==
  /\ IsFiniteSet(Ids)
  /\ MaxLimit \in Nat
  /\ Casts \subseteq [who : SUBSET (Requests \union Operators), limit : 1..MaxLimit]
  /\ IdOf \in [Requests -> Ids] /\ RouteOf \in [Requests -> Routes]
  /\ EditOf \in [Operators -> Edits]

ActiveRows == {"Pending", "Running", "Cancelling"}
RowStates  == ActiveRows \union {"none", "Done", "Cancelled"}
Answers    == {"accepted", "refused", "paused", "limited", "inflight", "unconfirmed"}
Steps      == {"absent", "idle", "read", "policy", "count", "create", "stamp", "mark", "inline"}
EditSteps  == {"absent", "idle", "version", "write", "done"}
Policies   == [enabled : BOOLEAN, limit : 0..MaxLimit]

VARIABLES
  row,         \* executions.status, terminal ones but Cancelled folded to Done
  dispatched,  \* executions.dispatched
  policy,      \* saga_policies.policy_json (its admission part)
  version,     \* saga_policies.version, 0 while there is no row
  pc,          \* where a request is, or what it answered
  fresh,       \* did the request's INSERT create the row?
  seen,        \* the policy its gate loaded
  edit,        \* where an operator's edit is
  base,        \* the policy and version it read
  admitted,    \* history: IDs a gate let through
  launched     \* history: IDs whose work was started (Workflow or inline)

rows  == <<row, dispatched>>
edits == <<policy, version, edit, base>>
calls == <<pc, fresh, seen>>
vars  == <<rows, edits, calls, admitted, launched>>

\* requests and operators outside the scenario never start
Arrival(x, cast) == IF x \in cast.who THEN "idle" ELSE "absent"

Init == \E cast \in Casts :
  /\ row = [e \in Ids |-> "none"]
  /\ dispatched = [e \in Ids |-> FALSE]
  /\ policy = [enabled |-> TRUE, limit |-> cast.limit]
  /\ version \in {0, 1}
  /\ pc = [r \in Requests |-> Arrival(r, cast)]
  /\ fresh = [r \in Requests |-> FALSE]
  /\ seen = [r \in Requests |-> policy]
  /\ edit = [o \in Operators |-> Arrival(o, cast)]
  /\ base = [o \in Operators |-> [policy |-> policy, version |-> 0]]
  /\ admitted = {} /\ launched = {}

Step(r, to) == pc' = [pc EXCEPT ![r] = to]

(***************************************************************************)
(* The requests                                                            *)
(***************************************************************************)
\* INSERT ... ON CONFLICT(id) DO NOTHING, whatever the policy says
Insert(r) ==
  /\ pc[r] = "idle" /\ Step(r, "read")
  /\ fresh' = [fresh EXCEPT ![r] = row[IdOf[r]] = "none"]
  /\ row' = [row EXCEPT ![IdOf[r]] = IF @ = "none" THEN "Pending" ELSE @]
  /\ UNCHANGED <<dispatched, edits, seen, admitted, launched>>

\* visibleExecution and the tests on the row
Read(r) ==
  /\ pc[r] = "read"
  /\ LET status == row[IdOf[r]] IN
     Step(r, IF status \in {"Cancelling", "Cancelled"} THEN "refused"
             ELSE IF RouteOf[r] # "provider"
             THEN IF dispatched[IdOf[r]] THEN "accepted" ELSE "policy"
             ELSE IF status = "Done" THEN "accepted"
             ELSE IF status = "Pending" THEN "policy"
             ELSE "inflight")
  /\ UNCHANGED <<rows, edits, fresh, seen, admitted, launched>>

\* admitExecution, first await: loadSagaPolicy and the pause test
LoadPolicy(r) ==
  /\ pc[r] = "policy"
  /\ seen' = [seen EXCEPT ![r] = policy]
  /\ Step(r, IF policy.enabled THEN "count" ELSE "paused")
  /\ UNCHANGED <<rows, edits, fresh, admitted, launched>>

\* Mutant: only work that is known to run occupies a slot.
OthersRunning(e) == {f \in Ids \ {e} : row[f] = "Running"}

\* the rows the count query counts for Execution e
Others(e) == {f \in Ids \ {e} : row[f] \in ActiveRows}

\* Mutant: off by one.
RefusesLate(r) == seen[r].limit > 0 /\ Cardinality(Others(IdOf[r])) > seen[r].limit

Refuses(r) == seen[r].limit > 0 /\ Cardinality(Others(IdOf[r])) >= seen[r].limit

\* Mutant: a provider replay of a Pending receipt goes on to the mark.
CountReplays(r) ==
  /\ pc[r] = "count"
  /\ \/ Refuses(r) /\ Step(r, "limited") /\ UNCHANGED admitted
     \/ /\ ~Refuses(r) /\ admitted' = admitted \union {IdOf[r]}
        /\ Step(r, IF RouteOf[r] = "provider" THEN "mark" ELSE "create")
  /\ UNCHANGED <<rows, edits, fresh, seen, launched>>

\* admitExecution, second await: the count.  A submit whose window has closed
\* answers 409; a provider call that did not insert the row answers
\* PROVIDER_IN_FLIGHT, gate or no gate.
Count(r) ==
  /\ pc[r] = "count"
  /\ \/ Refuses(r) /\ Step(r, "limited") /\ UNCHANGED admitted
     \/ /\ ~Refuses(r) /\ RouteOf[r] = "provider" /\ ~fresh[r]
        /\ Step(r, "inflight") /\ UNCHANGED admitted
     \/ /\ ~Refuses(r) /\ RouteOf[r] = "submit"
        /\ Step(r, "refused") /\ UNCHANGED admitted
     \/ /\ ~Refuses(r) /\ (RouteOf[r] = "provider" => fresh[r])
        /\ Step(r, IF RouteOf[r] = "provider" THEN "mark" ELSE "create")
        /\ admitted' = admitted \union {IdOf[r]}
  /\ UNCHANGED <<rows, edits, fresh, seen, launched>>

\* createBatch; a failure is ambiguous
Create(r) ==
  /\ pc[r] = "create"
  /\ \/ launched' = launched \union {IdOf[r]} /\ Step(r, "stamp")
     \/ /\ Step(r, "unconfirmed")
        /\ launched' \in {launched, launched \union {IdOf[r]}}
  /\ UNCHANGED <<rows, edits, fresh, seen, admitted>>

Stamp(r) ==
  /\ pc[r] = "stamp"
  /\ \/ /\ dispatched' = [dispatched EXCEPT ![IdOf[r]] = TRUE]
        /\ Step(r, "accepted")
     \/ Step(r, "unconfirmed") /\ UNCHANGED dispatched
  /\ UNCHANGED <<row, edits, fresh, seen, admitted, launched>>

\* Mutant: the UPDATE without its WHERE status = 'Pending'.
MarkUnfenced(r) ==
  /\ pc[r] = "mark" /\ Step(r, "inline")
  /\ row' = [row EXCEPT ![IdOf[r]] = "Running"]
  /\ dispatched' = [dispatched EXCEPT ![IdOf[r]] = TRUE]
  /\ launched' = launched \union {IdOf[r]}
  /\ UNCHANGED <<edits, fresh, seen, admitted>>

\* runProvider marks Running and dispatched in one fenced UPDATE
Mark(r) ==
  /\ pc[r] = "mark"
  /\ IF row[IdOf[r]] = "Pending"
     THEN /\ row' = [row EXCEPT ![IdOf[r]] = "Running"]
          /\ dispatched' = [dispatched EXCEPT ![IdOf[r]] = TRUE]
          /\ launched' = launched \union {IdOf[r]}
          /\ Step(r, "inline")
     ELSE /\ Step(r, IF row[IdOf[r]] \in {"Cancelling", "Cancelled"}
                     THEN "refused" ELSE "accepted")
          /\ UNCHANGED <<rows, launched>>
  /\ UNCHANGED <<edits, fresh, seen, admitted>>

\* the Action ends inside the request: any terminal checkpoint, fenced
Inline(r) ==
  /\ pc[r] = "inline" /\ Step(r, "accepted")
  /\ row' = [row EXCEPT ![IdOf[r]] = IF @ \in {"Pending", "Running"} THEN "Done" ELSE @]
  /\ UNCHANGED <<dispatched, edits, fresh, seen, admitted, launched>>

(***************************************************************************)
(* storeSagaPolicy: the body merges over the row it loaded.                *)
(***************************************************************************)
EditLoad(o) ==
  /\ edit[o] = "idle" /\ edit' = [edit EXCEPT ![o] = "version"]
  /\ base' = [base EXCEPT ![o].policy = policy]
  /\ UNCHANGED <<rows, policy, version, calls, admitted, launched>>

EditVersion(o) ==
  /\ edit[o] = "version" /\ edit' = [edit EXCEPT ![o] = "write"]
  /\ base' = [base EXCEPT ![o].version = version]
  /\ UNCHANGED <<rows, policy, version, calls, admitted, launched>>

\* Mutant: the body's limit is taken as a change of the stored one.
MergedAdds(o) == IF EditOf[o].field = "enabled"
                 THEN [base[o].policy EXCEPT !.enabled = EditOf[o].to]
                 ELSE [base[o].policy EXCEPT !.limit = @ + EditOf[o].to]

Merged(o) == IF EditOf[o].field = "enabled"
             THEN [base[o].policy EXCEPT !.enabled = EditOf[o].to]
             ELSE [base[o].policy EXCEPT !.limit = EditOf[o].to]

\* no version seen: INSERT, which the primary key refuses if one came first
EditWrite(o) ==
  /\ edit[o] = "write" /\ edit' = [edit EXCEPT ![o] = "done"]
  /\ IF base[o].version = 0 /\ version > 0
     THEN UNCHANGED <<policy, version>>
     ELSE policy' = Merged(o) /\ version' = base[o].version + 1
  /\ UNCHANGED <<rows, base, calls, admitted, launched>>

(***************************************************************************)
(* What happens to the rows elsewhere (module Executions).                 *)
(***************************************************************************)
\* the Workflow's prepare step, and any of its terminal checkpoints
RunMarks(e) ==
  /\ e \in launched /\ row[e] = "Pending"
  /\ row' = [row EXCEPT ![e] = "Running"]
  /\ UNCHANGED <<dispatched, edits, calls, admitted, launched>>

RunEnds(e) ==
  /\ e \in launched /\ row[e] \in {"Pending", "Running"}
  /\ row' = [row EXCEPT ![e] = "Done"]
  /\ UNCHANGED <<dispatched, edits, calls, admitted, launched>>

\* an owner cancel or a repair: marker, confirmation, roll back
CancelMarks(e) ==
  /\ row[e] \in {"Pending", "Running"}
  /\ row' = [row EXCEPT ![e] = "Cancelling"]
  /\ UNCHANGED <<dispatched, edits, calls, admitted, launched>>

CancelEnds(e) ==
  /\ row[e] = "Cancelling"
  /\ \E status \in {"Cancelled", "Pending"} \union (IF e \in launched THEN {"Running"} ELSE {}) :
       row' = [row EXCEPT ![e] = status]
  /\ UNCHANGED <<dispatched, edits, calls, admitted, launched>>

RequestNext(r) ==
  \/ Insert(r) \/ Read(r) \/ LoadPolicy(r) \/ Count(r)
  \/ Create(r) \/ Stamp(r) \/ Mark(r) \/ Inline(r)
EditNext(o) == EditLoad(o) \/ EditVersion(o) \/ EditWrite(o)
RowNext(e) == RunMarks(e) \/ RunEnds(e) \/ CancelMarks(e) \/ CancelEnds(e)

Next ==
  \/ \E r \in Requests : RequestNext(r)
  \/ \E o \in Operators : EditNext(o)
  \/ \E e \in Ids : RowNext(e)

Spec == Init /\ [][Next]_vars

(***************************************************************************)
(* Properties                                                              *)
(***************************************************************************)
\* Every variable keeps its type; a policy never leaves its bounds.
TypeOK ==
  /\ row \in [Ids -> RowStates] /\ dispatched \in [Ids -> BOOLEAN]
  /\ policy \in Policies /\ version \in Nat
  /\ pc \in [Requests -> Steps \union Answers]
  /\ fresh \in [Requests -> BOOLEAN] /\ seen \in [Requests -> Policies]
  /\ edit \in [Operators -> EditSteps]
  /\ base \in [Operators -> [policy : Policies, version : Nat]]
  /\ admitted \subseteq Ids /\ launched \subseteq Ids

\* Whatever the routes, the retries and the policy edits, never more
\* Executions are under way than the largest limit: inserting the receipt
\* before the count makes any two racing requests see each other.
WithinLimit == Cardinality({e \in launched : row[e] \in ActiveRows}) <= MaxLimit

\* A confirmed cancel is final on every route: no insert, mark or inline
\* checkpoint of a request already past its read brings the row back.
CancelledNeverMarks ==
  [][\A e \in Ids : row[e] = "Cancelled" => row'[e] = "Cancelled"]_vars

\* For a key that is only ever sent to the provider route, a provider call
\* never runs the Action again once its work has been started, not even after
\* a cancel rolled the row back to the Pending it had read.
ProviderKey(e) == \A r \in Requests : IdOf[r] = e => RouteOf[r] = "provider"
ProviderRunsOnce ==
  [][\A r \in Requests :
       ProviderKey(IdOf[r]) /\ pc[r] = "mark" /\ pc'[r] = "inline"
         => IdOf[r] \notin launched]_vars

\* Each row is an ExecutionRow.
Row(e) == INSTANCE ExecutionRow WITH
  status <- row[e], launched <- e \in launched, dispatched <- dispatched[e]

\* Whatever the three routes do at once to a row, it is what module Executions
\* knows: its work is started after its receipt, an inline provider call takes
\* a Pending row and ends an active one, and nothing brings a cancelled or
\* finished row back.
ImplementsRows ==
  /\ \A e \in Ids : Row(e)!Init
  /\ [][\A e \in Ids : [Row(e)!Next]_(Row(e)!vars)]_vars

=============================================================================
