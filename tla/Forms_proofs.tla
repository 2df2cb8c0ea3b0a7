---------------------------- MODULE Forms_proofs ----------------------------
(***************************************************************************)
(* Proofs about Forms, for any number of sessions, submissions, keys and   *)
(* re-binds.                                                               *)
(***************************************************************************)
EXTENDS Forms, TLAPS

USE DEF tables

(***************************************************************************)
(* Type correctness                                                        *)
(***************************************************************************)
\* who starts a session, and what an outsider's start has read
Starts == \A h \in Handles :
  /\ start[h].at # "refused" => start[h].who \in Principals
  /\ start[h].at = "insert" => start[h].under \in Declarations
  /\ start[h].at \in {"form", "insert"} /\ start[h].who \in Externals =>
       grant[start[h].who] # None
  /\ start[h].at = "insert" /\ start[h].who \in Externals => start[h].under = start[h].to

\* a capability in use exists, and a row only once it was inserted
Rows == \A h \in Handles :
  session[h] # None => /\ start[h].at \in {"sweep", "done"}
                       /\ session[h].user \in Externals => grant[session[h].user] # None

\* what a re-bind has read
Binds == \A r \in Rebinds :
  /\ rebind[r].at \in {"idle", "grant", "write", "invalidate"} => rebind[r].who \in Externals
  /\ rebind[r].at \in {"grant", "write", "invalidate"} => rebind[r].to \in Declarations
  /\ rebind[r].at \in {"write", "invalidate"} => grant[rebind[r].who] # None

Early == {"idle", "form", "peek", "reserve", "claim", "admit"}

\* what a submission asks, and the Execution it has admitted
Submitted == \A s \in Submits :
  /\ sub[s].at # "dead" \/ sub[s].admitted => sub[s].ask \in Asks
  /\ sub[s].at \in Early => ~sub[s].admitted
  /\ sub[s].at \in {"launch", "mark", "consume", "spend", "verify", "unconfirmed"} => sub[s].admitted
  /\ sub[s].admitted => execution[Id(s)] # None /\ execution[Id(s)].input = sub[s].ask.input
  /\ sub[s].at \in {"launch", "mark"} => ~sub[s].ask.input.later
  /\ sub[s].at \notin {"idle", "form", "stale", "dead"} => sub[s].to \in Declarations

TypeInv == TypeOK /\ Starts /\ Rows /\ Binds /\ Submitted

\* the initial state
LEMMA TypeInit == Init => TypeInv
<1> SUFFICES ASSUME Init PROVE TypeInv
  OBVIOUS
<1> PICK cast \in Casts : Init!(cast)
  BY DEF Init
<1>1. /\ cast.starts \in [Handles -> Principals \union {None}]
      /\ cast.subs \in [Submits -> Asks \union {None}]
      /\ cast.rebinds \in [Rebinds -> Externals \union {None}]
      /\ cast.granted \subseteq Externals /\ cast.form \in Declarations /\ cast.acts \in Nat
  BY FormsAssumption
<1>2. [to |-> form, enabled |-> TRUE] \in Grants
  BY <1>1 DEF Grants
<1>3. TypeOK
  <2>1. start \in [Handles -> [at : StartAt, who : Principals \union {None},
                               to : Declarations \union {None}, under : Declarations \union {None}]]
    BY <1>1 DEF StartAt
  <2>2. sub \in [Submits -> [at : {"idle"} \union InFlight \union Answers, ask : Asks \union {None},
                             to : Declarations \union {None}, under : Declarations \union {None},
                             admitted : BOOLEAN, fault : BOOLEAN, excuses : SUBSET Excuses]]
    BY <1>1 DEF InFlight, Answers
  <2>3. rebind \in [Rebinds -> [at : RebindAt, who : Externals \union {None},
                                to : Declarations \union {None}, from : Declarations \union {None}]]
    BY <1>1 DEF RebindAt
  <2> QED
    BY <1>1, <1>2, <2>1, <2>2, <2>3 DEF TypeOK
<1>4. Starts /\ Rows /\ Binds
  BY <1>1 DEF Starts, Rows, Binds
<1>5. Submitted
  BY <1>1 DEF Submitted, Early
<1> QED
  BY <1>3, <1>4, <1>5 DEF TypeInv

LEMMA GrantType ==
  ASSUME TypeOK, NEW p \in Externals, grant[p] # None
  PROVE  grant[p] \in Grants /\ grant[p].to \in Declarations /\ grant[p].enabled \in BOOLEAN
BY DEF TypeOK, Grants

LEMMA RowType ==
  ASSUME TypeOK, NEW h \in Handles, session[h] # None
  PROVE  /\ session[h] \in Sessions
         /\ session[h].user \in Principals /\ session[h].under \in Declarations
         /\ session[h].claimed \in Keys \union {None} /\ session[h].used \in BOOLEAN
         /\ session[h].expired \in BOOLEAN /\ session[h].loose \in SUBSET Excuses
BY DEF TypeOK, Sessions

\* the steps of the designer
LEMMA DesignerType ==
  ASSUME TypeInv, Designer
  PROVE  TypeInv'
<1> USE DEF TypeInv
<1>1. CASE SaveForm \/ DeleteForm
  <2>1. TypeOK'
    BY <1>1 DEF SaveForm, DeleteForm, TypeOK
  <2> QED
    BY <1>1, <2>1 DEF SaveForm, DeleteForm, Starts, Rows, Binds, Submitted, Id, Who, Key
<1>2. ASSUME NEW p \in Externals, Issue(p) \/ Disable(p)
      PROVE  TypeInv'
  <2>1. PICK g \in Grants : grant' = [grant EXCEPT ![p] = g]
    <3>1. CASE Issue(p)
      <4>1. [to |-> form, enabled |-> TRUE] \in Grants
        BY <3>1 DEF Issue, TypeOK, Grants
      <4> QED
        BY <3>1, <4>1 DEF Issue
    <3>2. CASE Disable(p)
      <4>1. [grant[p] EXCEPT !.enabled = FALSE] \in Grants
        BY <3>2, GrantType DEF Disable, Grants
      <4> QED
        BY <3>2, <4>1 DEF Disable
    <3> QED
      BY <1>2, <3>1, <3>2
  <2>2. \A q \in Externals : grant[q] # None => grant'[q] # None
    BY <2>1, FormsAssumption DEF TypeOK
  <2>3. TypeOK'
    BY <1>2, <2>1 DEF Issue, Disable, TypeOK
  <2>4. UNCHANGED <<form, session, execution, launched, start, sub, rebind, via>>
    BY <1>2 DEF Issue, Disable
  <2>5. Starts'
    BY <2>2, <2>4 DEF Starts
  <2>6. Rows'
    BY <2>2, <2>4 DEF Rows
  <2>7. Binds'
    BY <2>2, <2>4 DEF Binds
  <2>8. Submitted'
    BY <2>4 DEF Submitted, Id, Who, Key
  <2> QED
    BY <2>3, <2>5, <2>6, <2>7, <2>8
<1> QED
  BY <1>1, <1>2 DEF Designer

\* sessions that outlive a re-bind keep all but the reason
LEMMA OutliveType ==
  ASSUME TypeOK, NEW p, NEW d
  PROVE  /\ Outlive(p, d) \in [Handles -> Sessions \union {None}]
         /\ \A h \in Handles :
              /\ Outlive(p, d)[h] = None <=> session[h] = None
              /\ session[h] # None => /\ Outlive(p, d)[h].user = session[h].user
                                      /\ Outlive(p, d)[h].under = session[h].under
                                      /\ Outlive(p, d)[h].used = session[h].used
                                      /\ Outlive(p, d)[h].claimed = session[h].claimed
                                      /\ session[h].loose \subseteq Outlive(p, d)[h].loose
                                      /\ session[h].user = p /\ session[h].under # d =>
                                           Outlive(p, d)[h].loose # {}
<1>1. ASSUME NEW h \in Handles, session[h] # None
      PROVE  [session[h] EXCEPT !.loose = @ \union {"kept"}] \in Sessions
  BY <1>1, RowType DEF Sessions, Excuses
<1>2. \A h \in Handles : session[h] # None => session[h] \in Sessions
  BY DEF TypeOK
<1>3. Outlive(p, d) \in [Handles -> Sessions \union {None}]
  BY <1>1, <1>2 DEF Outlive
<1>4. ASSUME NEW h \in Handles
      PROVE  /\ Outlive(p, d)[h] = None <=> session[h] = None
             /\ session[h] # None => /\ Outlive(p, d)[h].user = session[h].user
                                     /\ Outlive(p, d)[h].under = session[h].under
                                     /\ Outlive(p, d)[h].used = session[h].used
                                     /\ Outlive(p, d)[h].claimed = session[h].claimed
                                     /\ session[h].loose \subseteq Outlive(p, d)[h].loose
                                     /\ session[h].user = p /\ session[h].under # d =>
                                          Outlive(p, d)[h].loose # {}
  BY <1>1, <1>2, FormsAssumption DEF Outlive, Sessions
<1> QED
  BY <1>3, <1>4

\* the steps of a re-bind
LEMMA RebinderType ==
  ASSUME TypeInv, NEW r \in Rebinds, Rebinder(r)
  PROVE  TypeInv'
<1> USE DEF TypeInv
<1> DEFINE Kinds == [at : RebindAt, who : Externals \union {None},
                     to : Declarations \union {None}, from : Declarations \union {None}]
<1>0. rebind \in [Rebinds -> Kinds]
  BY DEF TypeOK
<1>1. rebind' \in [Rebinds -> Kinds]
  <2>1. CASE RebindForm(r)
    <3>1. form \in Declarations /\ rebind[r] \in Kinds
      BY <1>0, <2>1 DEF RebindForm, TypeOK
    <3>2. [rebind[r] EXCEPT !.at = "grant", !.to = form] \in Kinds
      BY <3>1 DEF RebindAt
    <3>3. rebind' = [rebind EXCEPT ![r] = [rebind[r] EXCEPT !.at = "grant", !.to = form]]
      BY <1>0, <2>1 DEF RebindForm
    <3> HIDE DEF Kinds
    <3> QED
      BY <1>0, <3>2, <3>3
  <2>2. CASE RebindGrant(r)
    <3>1. grant[rebind[r].who] # None => grant[rebind[r].who].to \in Declarations
      BY <2>2, GrantType DEF RebindGrant, Binds
    <3> QED
      BY <1>0, <2>2, <3>1 DEF RebindGrant, RebindAt
  <2>3. CASE RebindWrite(r) \/ Invalidate(r) \/ InvalidateFails(r) \/ RebindFails(r)
    <3>1. PICK place \in {"invalidate", "done", "failed"} : rebind' = [rebind EXCEPT ![r].at = place]
      BY <2>3 DEF RebindWrite, Invalidate, InvalidateFails, RebindFails
    <3> QED
      BY <1>0, <3>1 DEF RebindAt
  <2> QED
    BY <2>1, <2>2, <2>3 DEF Rebinder
<1>2. /\ grant' \in [Externals -> Grants \union {None}]
      /\ \A q \in Externals : grant[q] # None => grant'[q] # None
  <2>1. CASE RebindWrite(r)
    <3>1. /\ rebind[r].who \in Externals /\ rebind[r].to \in Declarations
          /\ grant[rebind[r].who] # None
      BY <2>1 DEF RebindWrite, Binds
    <3>2. PICK on \in BOOLEAN : grant' = [grant EXCEPT ![rebind[r].who] = [to |-> rebind[r].to, enabled |-> on]]
      BY <2>1, <3>1, GrantType DEF RebindWrite
    <3>3. [to |-> rebind[r].to, enabled |-> on] \in Grants
      BY <3>1 DEF Grants
    <3> QED
      BY <3>2, <3>3, <3>1, FormsAssumption DEF TypeOK
  <2>2. CASE ~RebindWrite(r)
    BY <2>2 DEF Rebinder, RebindForm, RebindGrant, Invalidate, InvalidateFails, RebindFails, TypeOK
  <2> QED
    BY <2>1, <2>2
<1>3. /\ session' \in [Handles -> Sessions \union {None}]
      /\ \A h \in Handles : session'[h] # None =>
           session[h] # None /\ session'[h].user = session[h].user
  <2>1. CASE RebindWrite(r) \/ InvalidateFails(r)
    <3>1. session' = session \/ session' = Outlive(rebind[r].who, rebind[r].to)
      BY <2>1 DEF RebindWrite, InvalidateFails
    <3>2. CASE session' = session
      BY <3>2 DEF TypeOK
    <3>3. CASE session' = Outlive(rebind[r].who, rebind[r].to)
      BY <3>3, OutliveType
    <3> QED
      BY <3>1, <3>2, <3>3
  <2>2. CASE ~RebindWrite(r) /\ ~InvalidateFails(r)
    BY <2>2 DEF Rebinder, RebindForm, RebindGrant, Invalidate, RebindFails, TypeOK
  <2> QED
    BY <2>1, <2>2
<1>4. UNCHANGED <<form, acts, execution, launched, start, sub, via>>
  BY DEF Rebinder, RebindForm, RebindGrant, RebindWrite, Invalidate, InvalidateFails, RebindFails
<1>5. TypeOK'
  BY <1>1, <1>2, <1>3, <1>4 DEF TypeOK
<1>6. Starts'
  BY <1>2, <1>4 DEF Starts
<1>7. Rows'
  BY <1>2, <1>3, <1>4 DEF Rows
<1>8. Submitted'
  BY <1>4 DEF Submitted, Id, Who, Key
<1>9. Binds'
  <2>1. CASE RebindForm(r)
    BY <1>0, <1>2, <2>1 DEF RebindForm, Binds, TypeOK
  <2>2. CASE RebindGrant(r)
    BY <1>0, <1>2, <2>2 DEF RebindGrant, Binds
  <2>3. CASE RebindWrite(r) \/ Invalidate(r) \/ InvalidateFails(r) \/ RebindFails(r)
    <3>1. PICK place \in {"invalidate", "done", "failed"} : rebind' = [rebind EXCEPT ![r].at = place]
      BY <2>3 DEF RebindWrite, Invalidate, InvalidateFails, RebindFails
    <3>2. place = "invalidate" => rebind[r].at = "write"
      BY <1>0, <2>3, <3>1 DEF RebindWrite, Invalidate, InvalidateFails, RebindFails
    <3> QED
      BY <1>0, <1>2, <3>1, <3>2 DEF Binds
  <2> QED
    BY <2>1, <2>2, <2>3 DEF Rebinder
<1> QED
  BY <1>5, <1>6, <1>7, <1>8, <1>9

\* the steps of a startup
LEMMA StartupType ==
  ASSUME TypeInv, NEW h \in Handles, Startup(h)
  PROVE  TypeInv'
<1> USE DEF TypeInv
<1> DEFINE Kinds == [at : StartAt, who : Principals \union {None},
                     to : Declarations \union {None}, under : Declarations \union {None}]
<1>0. start \in [Handles -> Kinds]
  BY DEF TypeOK
<1>1. start' \in [Handles -> Kinds]
  <2>1. CASE StartGrant(h)
    <3>1. start[h].who \in Externals => grant[start[h].who].to \in Declarations
      BY <2>1, GrantType DEF StartGrant
    <3> QED
      <4>1. PICK to \in Declarations \union {None} : start' = [start EXCEPT ![h].at = "form", ![h].to = to]
        BY <2>1, <3>1 DEF StartGrant
      <4>2. [start[h] EXCEPT !.at = "form", !.to = to] \in Kinds
        BY <1>0 DEF StartAt
      <4>3. start' = [start EXCEPT ![h] = [start[h] EXCEPT !.at = "form", !.to = to]]
        BY <1>0, <4>1
      <4> HIDE DEF Kinds
      <4> QED
        BY <1>0, <4>2, <4>3
  <2>2. CASE StartForm(h)
    <3>1. [start[h] EXCEPT !.at = "refused"] \in Kinds
      BY <1>0 DEF StartAt
    <3>2. form # None => [start[h] EXCEPT !.at = "insert", !.under = form] \in Kinds
      <4>1. form # None => form \in Declarations
        BY DEF TypeOK
      <4> QED
        BY <1>0, <4>1 DEF StartAt
    <3>3. \/ start' = [start EXCEPT ![h] = [start[h] EXCEPT !.at = "refused"]]
          \/ form # None /\ start' = [start EXCEPT ![h] = [start[h] EXCEPT !.at = "insert", !.under = form]]
      BY <1>0, <2>2 DEF StartForm
    <3> HIDE DEF Kinds
    <3> QED
      BY <1>0, <3>1, <3>2, <3>3
  <2>3. CASE InsertSession(h) \/ Sweep(h) \/ Expire(h)
    BY <1>0, <2>3 DEF InsertSession, Sweep, Expire, StartAt
  <2> QED
    BY <2>1, <2>2, <2>3 DEF Startup
<1>2. UNCHANGED <<form, acts, grant, execution, launched, sub, rebind, via>>
  BY DEF Startup, StartGrant, StartForm, InsertSession, Sweep, Expire
<1>3. session' \in [Handles -> Sessions \union {None}]
  <2>1. CASE InsertSession(h)
    <3>1. start[h].who \in Principals /\ start[h].under \in Declarations
      BY <2>1 DEF InsertSession, Starts
    <3>2. [user |-> start[h].who, under |-> start[h].under, expired |-> FALSE, used |-> FALSE, claimed |-> None,
           loose |-> IF start[h].who \in Externals /\ grant[start[h].who].to # start[h].under
                     THEN {"late"} ELSE {}] \in Sessions
      BY <3>1 DEF Sessions, Excuses
    <3> QED
      BY <2>1, <3>2 DEF InsertSession, TypeOK
  <2>2. CASE Expire(h)
    <3>1. [session[h] EXCEPT !.expired = TRUE] \in Sessions
      BY <2>2, RowType DEF Expire, Sessions
    <3> QED
      BY <2>2, <3>1 DEF Expire, TypeOK
  <2>3. CASE StartGrant(h) \/ StartForm(h) \/ Sweep(h)
    BY <2>3 DEF StartGrant, StartForm, Sweep, TypeOK
  <2> QED
    BY <2>1, <2>2, <2>3 DEF Startup
<1>4. TypeOK'
  BY <1>1, <1>2, <1>3 DEF TypeOK
<1>5. Binds' /\ Submitted'
  BY <1>2 DEF Binds, Submitted, Id, Who, Key
<1>6. Starts'
  <2>1. CASE StartGrant(h)
    BY <1>0, <1>2, <2>1 DEF StartGrant, Starts
  <2>2. CASE StartForm(h)
    BY <1>0, <1>2, <2>2 DEF StartForm, Starts, TypeOK
  <2>3. CASE InsertSession(h) \/ Sweep(h) \/ Expire(h)
    BY <1>0, <1>2, <2>3 DEF InsertSession, Sweep, Expire, Starts
  <2> QED
    BY <2>1, <2>2, <2>3 DEF Startup
<1>7. Rows'
  <2>1. CASE StartGrant(h) \/ StartForm(h)
    BY <1>0, <1>2, <2>1 DEF StartGrant, StartForm, Rows
  <2>2. CASE InsertSession(h)
    BY <1>0, <1>2, <2>2 DEF InsertSession, Rows, Starts, TypeOK
  <2>3. CASE Sweep(h)
    BY <1>0, <1>2, <2>3 DEF Sweep, Rows, TypeOK
  <2>4. CASE Expire(h)
    BY <1>0, <1>2, <2>4, RowType DEF Expire, Rows, TypeOK, Sessions
  <2> QED
    BY <2>1, <2>2, <2>3, <2>4 DEF Startup
<1> QED
  BY <1>4, <1>5, <1>6, <1>7

SubRows == [at : {"idle"} \union InFlight \union Answers, ask : Asks \union {None},
            to : Declarations \union {None}, under : Declarations \union {None},
            admitted : BOOLEAN, fault : BOOLEAN, excuses : SUBSET Excuses]

\* what a submission may be, whatever became of it
Fits(rec) ==
  /\ rec \in SubRows
  /\ rec.at # "dead" \/ rec.admitted => rec.ask \in Asks
  /\ rec.at \in Early => ~rec.admitted
  /\ rec.at \in {"launch", "mark", "consume", "spend", "verify", "unconfirmed"} => rec.admitted
  /\ rec.at \in {"launch", "mark"} => ~rec.ask.input.later
  /\ rec.at \notin {"idle", "form", "stale", "dead"} => rec.to \in Declarations

\* Executions keep their input
Keeps == \A x \in Principals \X Keys :
  execution[x] # None => execution'[x] # None /\ execution'[x].input = execution[x].input

LEMMA IdType ==
  ASSUME TypeInv, NEW s \in Submits, sub[s].at # "dead" \/ sub[s].admitted
  PROVE  /\ sub[s].ask \in Asks /\ Id(s) \in Principals \X Keys
         /\ Who(s) \in Principals /\ Key(s) \in Keys /\ sub[s].ask.handle \in Handles
         /\ sub[s].ask.input \in Inputs
BY DEF TypeInv, Submitted, Id, Who, Key, Asks

LEMMA StepFits ==
  ASSUME TypeInv, NEW s \in Submits, NEW rec, Fits(rec), Keeps,
         sub' = [sub EXCEPT ![s] = rec], rec.ask = sub[s].ask,
         rec.admitted => execution'[Id(s)] # None /\ execution'[Id(s)].input = sub[s].ask.input
  PROVE  sub' \in [Submits -> SubRows] /\ Submitted'
<1>0. sub \in [Submits -> SubRows]
  BY DEF TypeInv, TypeOK, SubRows
<1>1. sub' \in [Submits -> SubRows]
  BY <1>0 DEF Fits
<1>2. ASSUME NEW q \in Submits
      PROVE  Submitted!(q)'
  <2>1. CASE q = s
    BY <1>0, <2>1 DEF Fits, Id, Who, Key
  <2>2. CASE q # s
    <3>1. sub'[q] = sub[q]
      BY <1>0, <2>2
    <3>2. sub[q].admitted => Id(q) \in Principals \X Keys
      BY IdType
    <3> QED
      BY <3>1, <3>2 DEF TypeInv, Submitted, Keeps, Id, Who, Key
  <2> QED
    BY <2>1, <2>2
<1> QED
  BY <1>1, <1>2 DEF Submitted

\* a submission that only goes elsewhere
LEMMA MoveFits ==
  ASSUME TypeInv, NEW s \in Submits, NEW place, Move(s, place), Keeps,
         sub[s].at # "dead",
         \/ place \in {"stale", "dead"}
         \/ place \in {"form"} /\ sub[s].at \in Early
         \/ /\ sub[s].to \in Declarations
            /\ \/ sub[s].at \in Early /\ place \in {"peek", "reserve", "claim", "refused"}
               \/ sub[s].admitted /\ place \in {"consume", "spend", "verify", "accepted", "unconfirmed"}
               \/ sub[s].admitted /\ place = "mark" /\ sub[s].at = "launch"
  PROVE  sub' \in [Submits -> SubRows] /\ Submitted'
<1> DEFINE rec == [sub[s] EXCEPT !.at = place]
<1>0. sub[s] \in SubRows
  BY DEF TypeInv, TypeOK, SubRows
<1>1. sub' = [sub EXCEPT ![s] = rec]
  BY DEF Move, TypeInv, TypeOK
<1>2. rec \in SubRows
  BY <1>0 DEF SubRows, InFlight, Answers
<1>3. /\ rec.at = place /\ rec.ask = sub[s].ask /\ rec.admitted = sub[s].admitted
      /\ rec.to = sub[s].to
  BY <1>0 DEF SubRows
<1>4. Submitted!(s)
  BY DEF TypeInv, Submitted
<1>5. Fits(rec)
  <2> HIDE DEF rec
  <2> QED
    BY <1>2, <1>3, <1>4 DEF Fits, Early
<1>6. rec.admitted => execution'[Id(s)] # None /\ execution'[Id(s)].input = sub[s].ask.input
  BY <1>3, <1>4, IdType DEF Keeps
<1> HIDE DEF rec
<1> QED
  BY <1>1, <1>3, <1>5, <1>6, StepFits

\* steps that touch nothing but the submission
Reads(s) == Present(s) \/ LoadForm(s) \/ Peek(s) \/ ReservePeek(s) \/ ConsumePeek(s) \/ StorageFails(s) \/ Die(s)

LEMMA ReadsFit ==
  ASSUME TypeInv, NEW s \in Submits, Reads(s)
  PROVE  sub' \in [Submits -> SubRows] /\ Submitted'
<1>0. UNCHANGED <<tables, start, rebind, via>> /\ Keeps
  BY DEF Reads, Present, LoadForm, Peek, ReservePeek, ConsumePeek, StorageFails, Die, Keeps
<1>1. Submitted!(s) /\ sub[s] \in SubRows
  BY DEF TypeInv, TypeOK, Submitted, SubRows
<1>2. CASE Present(s)
  <2>1. sub[s].at = "idle"
    BY <1>2 DEF Present
  <2>2. CASE \E place \in {"form", "stale"} : Move(s, place)
    BY <1>0, <1>1, <2>1, <2>2, MoveFits DEF Early
  <2>3. CASE ~\E place \in {"form", "stale"} : Move(s, place)
    <3>1. /\ Who(s) \in Externals /\ grant[Who(s)] # None
          /\ sub' = [sub EXCEPT ![s].at = "form", ![s].to = grant[Who(s)].to]
      BY <1>2, <2>1, <2>3, IdType DEF Present, Principals
    <3> DEFINE rec == [sub[s] EXCEPT !.at = "form", !.to = grant[Who(s)].to]
    <3>2. grant[Who(s)].to \in Declarations
      BY <3>1, GrantType DEF TypeInv
    <3>3. sub' = [sub EXCEPT ![s] = rec]
      BY <3>1 DEF TypeInv, TypeOK
    <3>4. rec \in SubRows
      BY <1>1, <3>2 DEF SubRows, InFlight
    <3>5. rec.at = "form" /\ rec.ask = sub[s].ask /\ rec.admitted = sub[s].admitted
      BY <1>1 DEF SubRows
    <3> HIDE DEF rec
    <3>6. Fits(rec) /\ ~rec.admitted
      BY <1>1, <2>1, <3>4, <3>5 DEF Fits, Early
    <3> QED
      BY <1>0, <3>3, <3>5, <3>6, StepFits
  <2> QED
    BY <2>2, <2>3
<1>3. CASE LoadForm(s)
  <2>1. sub[s].at = "form"
    BY <1>3 DEF LoadForm
  <2>2. CASE Move(s, "stale")
    BY <1>0, <1>1, <2>1, <2>2, MoveFits
  <2>3. CASE ~Move(s, "stale")
    <3>1. form # None /\ sub' = [sub EXCEPT ![s].at = "peek", ![s].to = form]
      BY <1>3, <2>3 DEF LoadForm, Move
    <3> DEFINE rec == [sub[s] EXCEPT !.at = "peek", !.to = form]
    <3>2. form \in Declarations
      BY <3>1 DEF TypeInv, TypeOK
    <3>3. sub' = [sub EXCEPT ![s] = rec]
      BY <3>1 DEF TypeInv, TypeOK
    <3>4. rec \in SubRows
      BY <1>1, <3>2 DEF SubRows, InFlight
    <3>5. rec.at = "peek" /\ rec.ask = sub[s].ask /\ rec.admitted = sub[s].admitted /\ rec.to = form
      BY <1>1 DEF SubRows
    <3> HIDE DEF rec
    <3>6. Fits(rec) /\ ~rec.admitted
      BY <1>1, <2>1, <3>2, <3>4, <3>5 DEF Fits, Early
    <3> QED
      BY <1>0, <3>3, <3>5, <3>6, StepFits
  <2> QED
    BY <2>2, <2>3
<1>4. CASE Peek(s)
  <2>1. PICK place \in {"reserve", "refused", "stale"} : Move(s, place)
    BY <1>4 DEF Peek
  <2>2. sub[s].at = "peek"
    BY <1>4 DEF Peek
  <2> QED
    BY <1>0, <1>1, <2>1, <2>2, MoveFits DEF Early
<1>5. CASE ReservePeek(s)
  <2>1. PICK place \in {"claim", "stale"} : Move(s, place)
    BY <1>5 DEF ReservePeek
  <2>2. sub[s].at = "reserve"
    BY <1>5 DEF ReservePeek
  <2> QED
    BY <1>0, <1>1, <2>1, <2>2, MoveFits DEF Early
<1>6. CASE ConsumePeek(s)
  <2>1. PICK place \in {"spend", "verify"} : Move(s, place)
    BY <1>6 DEF ConsumePeek, ConsumeStale
  <2>2. sub[s].at = "consume"
    BY <1>6 DEF ConsumePeek
  <2> QED
    BY <1>0, <1>1, <2>1, <2>2, MoveFits
<1>7. CASE StorageFails(s)
  <2>1. CASE sub[s].at \in {"consume", "spend"} /\ Move(s, ConsumeStale)
    BY <1>0, <1>1, <2>1, MoveFits DEF ConsumeStale
  <2>2. CASE /\ sub[s].at \in {"peek", "reserve", "claim", "verify"}
             /\ sub' = [sub EXCEPT ![s].at = "stale", ![s].fault = TRUE]
    <3> DEFINE rec == [sub[s] EXCEPT !.at = "stale", !.fault = TRUE]
    <3>1. sub' = [sub EXCEPT ![s] = rec]
      BY <2>2 DEF TypeInv, TypeOK
    <3>2. rec \in SubRows
      BY <1>1 DEF SubRows, Answers
    <3>3. rec.at = "stale" /\ rec.ask = sub[s].ask /\ rec.admitted = sub[s].admitted
      BY <1>1 DEF SubRows
    <3> HIDE DEF rec
    <3>4. Fits(rec)
      BY <1>1, <2>2, <3>2, <3>3 DEF Fits, Early
    <3> QED
      BY <1>0, <1>1, <3>1, <3>3, <3>4, StepFits
  <2> QED
    BY <1>7, <2>1, <2>2 DEF StorageFails
<1>8. CASE Die(s)
  <2>1. sub[s].at # "dead" /\ Move(s, "dead")
    BY <1>8 DEF Die, InFlight
  <2> QED
    BY <1>0, <2>1, MoveFits
<1> QED
  BY <1>2, <1>3, <1>4, <1>5, <1>6, <1>7, <1>8 DEF Reads

Claiming(s) == Claim(s) \/ Spend(s) \/ VerifyOwn(s)

\* a row that is taken or spent
Taken(old, row, k) ==
  /\ row \in Sessions /\ row.claimed = k
  /\ row.user = old.user /\ row.under = old.under /\ row.loose = old.loose

LEMMA TakenRow ==
  ASSUME TypeOK, NEW h \in Handles, session[h] # None, NEW k \in Keys
  PROVE  /\ Taken(session[h], [session[h] EXCEPT !.claimed = k], k)
         /\ Taken(session[h], [session[h] EXCEPT !.used = TRUE, !.claimed = k], k)
<1>1. session[h] \in Sessions
  BY RowType
<1> QED
  BY <1>1 DEF Taken, Sessions

\* what these steps do to the rows
LEMMA ClaimsRow ==
  ASSUME TypeInv, NEW s \in Submits, Claiming(s)
  PROVE  \/ session' = session /\ \E place \in {"stale", "verify"} : Move(s, place)
         \/ /\ Row(s) # None /\ Row(s).claimed \in {None, Key(s)}
            /\ \E row : Taken(Row(s), row, Key(s)) /\ session' = [session EXCEPT ![sub[s].ask.handle] = row]
<1> DEFINE h == sub[s].ask.handle
<1>1. sub[s].at # "dead"
  BY DEF Claiming, Claim, Spend, VerifyOwn
<1>2. h \in Handles /\ Key(s) \in Keys
  BY <1>1, IdType
<1>3. session \in [Handles -> Sessions \union {None}]
  BY DEF TypeInv, TypeOK
<1>4. session[h] # None => /\ Taken(session[h], [session[h] EXCEPT !.claimed = Key(s)], Key(s))
                           /\ Taken(session[h], [session[h] EXCEPT !.used = TRUE, !.claimed = Key(s)], Key(s))
  BY <1>2, TakenRow DEF TypeInv
<1>5. CASE session' = session /\ \E place \in {"stale", "verify"} : Move(s, place)
  BY <1>5
<1>6. CASE ~(session' = session /\ \E place \in {"stale", "verify"} : Move(s, place))
  <2>1. /\ session[h] # None /\ session[h].claimed \in {None, Key(s)}
        /\ \/ session' = [session EXCEPT ![h] = [session[h] EXCEPT !.claimed = Key(s)]]
           \/ session' = [session EXCEPT ![h] = [session[h] EXCEPT !.used = TRUE, !.claimed = Key(s)]]
    BY <1>2, <1>3, <1>6 DEF Claiming, Claim, Takes, Spend, VerifyOwn, ConsumeStale
  <2> QED
    BY <1>4, <2>1 DEF Row
<1> QED
  BY <1>5, <1>6

LEMMA ClaimingType ==
  ASSUME TypeInv, NEW s \in Submits, Claiming(s)
  PROVE  /\ sub' \in [Submits -> SubRows] /\ Submitted'
         /\ session' \in [Handles -> Sessions \union {None}]
         /\ \A g \in Handles : session'[g] = None <=> session[g] = None
         /\ \A g \in Handles : session[g] # None => session'[g].user = session[g].user
<1>0. UNCHANGED <<form, acts, grant, execution, launched, start, rebind, via>> /\ Keeps
  BY DEF Claiming, Claim, Spend, VerifyOwn, Keeps
<1>1. Submitted!(s) /\ sub[s] \in SubRows /\ sub[s].at \in {"claim", "spend", "verify"}
  BY DEF TypeInv, TypeOK, Submitted, SubRows, Claiming, Claim, Spend, VerifyOwn
<1>2. sub[s].ask.handle \in Handles /\ Key(s) \in Keys
  BY <1>1, IdType
<1>3. /\ session' \in [Handles -> Sessions \union {None}]
      /\ \A g \in Handles : session'[g] = None <=> session[g] = None
      /\ \A g \in Handles : session[g] # None => session'[g].user = session[g].user
  <2>1. CASE session' = session
    BY <2>1 DEF TypeInv, TypeOK
  <2>2. CASE session' # session
    <3>1. PICK row : /\ Taken(Row(s), row, Key(s)) /\ Row(s) # None
                     /\ session' = [session EXCEPT ![sub[s].ask.handle] = row]
      BY <2>2, ClaimsRow
    <3>2. session \in [Handles -> Sessions \union {None}] /\ row \in Sessions /\ row # None
      BY <3>1, FormsAssumption DEF TypeInv, TypeOK, Taken
    <3> QED
      BY <1>2, <3>1, <3>2 DEF Row, Taken
  <2> QED
    BY <2>1, <2>2
<1>4. CASE \E place \in {"stale", "accepted", "verify"} :
             Move(s, place) /\ (place = "stale" \/ sub[s].at \in {"spend", "verify"})
  BY <1>0, <1>1, <1>3, <1>4, MoveFits
<1>5. CASE /\ sub[s].at = "claim" /\ Row(s) # None
           /\ sub' = [sub EXCEPT ![s].at = "admit", ![s].under = Row(s).under,
                                 ![s].excuses = Row(s).loose \union
                                   {e \in {"between"} : Pending(Who(s), Row(s).under)}]
  <2> DEFINE why == Row(s).loose \union {e \in {"between"} : Pending(Who(s), Row(s).under)}
             rec == [sub[s] EXCEPT !.at = "admit", !.under = Row(s).under, !.excuses = why]
  <2>1. sub' = [sub EXCEPT ![s] = rec]
    BY <1>5 DEF TypeInv, TypeOK
  <2>2. Row(s).under \in Declarations /\ why \in SUBSET Excuses
    BY <1>2, <1>5, RowType DEF TypeInv, Row, Excuses
  <2> HIDE DEF why
  <2>3. rec \in SubRows
    BY <1>1, <2>2 DEF SubRows, InFlight
  <2>4. /\ rec.at = "admit" /\ rec.ask = sub[s].ask /\ rec.admitted = sub[s].admitted
        /\ rec.to = sub[s].to
    BY <1>1 DEF SubRows
  <2> HIDE DEF rec
  <2>5. Fits(rec) /\ ~rec.admitted
    BY <1>1, <1>5, <2>3, <2>4 DEF Fits, Early
  <2> QED
    BY <1>0, <1>3, <2>1, <2>4, <2>5, StepFits
<1> QED
  BY <1>3, <1>4, <1>5 DEF Claiming, Claim, Spend, VerifyOwn, Takes, Row, ConsumeStale

\* the steps of the dispatch
Dispatching(s) == Admit(s) \/ Launch(s) \/ Mark(s)

\* what an admission does
LEMMA AdmitRow ==
  ASSUME TypeInv, NEW s \in Submits, Admit(s)
  PROVE  /\ \E now \in Executions :
              /\ execution[Id(s)] # None => now = execution[Id(s)]
              /\ execution' = [execution EXCEPT ![Id(s)] = now]
              /\ \/ /\ now.input = sub[s].ask.input
                    /\ via' = [via EXCEPT ![sub[s].ask.handle] = @ \union {Key(s)}]
                    /\ \E place \in {"refused", "consume", "launch"} :
                         /\ place = "launch" => ~sub[s].ask.input.later
                         /\ sub' = [sub EXCEPT ![s] = [sub[s] EXCEPT !.at = place, !.admitted = TRUE]]
                 \/ via' = via /\ Move(s, "refused")
         /\ Keeps
<1> DEFINE x == Id(s)
           now == IF execution[x] = None THEN [input |-> sub[s].ask.input, dispatched |-> FALSE] ELSE execution[x]
<1>1. sub[s].at = "admit" /\ x \in Principals \X Keys /\ sub[s].ask.input \in Inputs
  BY IdType DEF Admit
<1>2. now \in Executions
  BY <1>1 DEF TypeInv, TypeOK, Executions
<1>3. execution' = [execution EXCEPT ![x] = now]
  BY DEF Admit
<1>4. Keeps
  BY <1>1, <1>2, <1>3, FormsAssumption DEF Keeps, TypeInv, TypeOK
<1>5. CASE now.input = sub[s].ask.input
  <2>1. PICK place \in Onward(s, now.dispatched) : sub' = [sub EXCEPT ![s].at = place, ![s].admitted = TRUE]
    BY <1>5 DEF Admit
  <2>2. sub' = [sub EXCEPT ![s] = [sub[s] EXCEPT !.at = place, !.admitted = TRUE]]
    BY <2>1 DEF TypeInv, TypeOK
  <2>3. place \in {"refused", "consume", "launch"} /\ (place = "launch" => ~sub[s].ask.input.later)
    BY <2>1 DEF Onward
  <2>4. via' = [via EXCEPT ![sub[s].ask.handle] = @ \union {Key(s)}]
    BY <1>5 DEF Admit
  <2> HIDE DEF now
  <2> QED
    BY <1>2, <1>3, <1>4, <1>5, <2>2, <2>3, <2>4 DEF now
<1>6. CASE now.input # sub[s].ask.input
  <2>1. via' = via /\ Move(s, "refused")
    BY <1>6 DEF Admit
  <2> QED
    BY <1>2, <1>3, <1>4, <2>1
<1> QED
  BY <1>5, <1>6

LEMMA DispatchingType ==
  ASSUME TypeInv, NEW s \in Submits, Dispatching(s)
  PROVE  TypeInv'
<1> USE DEF TypeInv
<1>0. UNCHANGED <<form, acts, grant, session, start, rebind>>
  BY DEF Dispatching, Admit, Launch, Mark
<1>1. Submitted!(s) /\ sub[s] \in SubRows /\ sub[s].at \in {"admit", "launch", "mark"}
  BY DEF TypeOK, Submitted, SubRows, Dispatching, Admit, Launch, Mark
<1>2. sub[s].ask.handle \in Handles /\ Key(s) \in Keys /\ Id(s) \in Principals \X Keys
  BY <1>1, IdType
<1>3. Starts' /\ Rows' /\ Binds'
  BY <1>0 DEF Starts, Rows, Binds
<1>4. CASE Admit(s)
  <2>1. PICK now \in Executions :
          /\ execution[Id(s)] # None => now = execution[Id(s)]
          /\ execution' = [execution EXCEPT ![Id(s)] = now]
          /\ \/ /\ now.input = sub[s].ask.input
                /\ via' = [via EXCEPT ![sub[s].ask.handle] = @ \union {Key(s)}]
                /\ \E place \in {"refused", "consume", "launch"} :
                     /\ place = "launch" => ~sub[s].ask.input.later
                     /\ sub' = [sub EXCEPT ![s] = [sub[s] EXCEPT !.at = place, !.admitted = TRUE]]
             \/ via' = via /\ Move(s, "refused")
    BY <1>4, AdmitRow
  <2>2. Keeps
    BY <1>4, AdmitRow
  <2>3. execution' \in [Principals \X Keys -> Executions \union {None}] /\ UNCHANGED launched
    <3>1. execution \in [Principals \X Keys -> Executions \union {None}] /\ UNCHANGED launched
      BY <1>4 DEF TypeOK, Admit
    <3>2. execution' = [execution EXCEPT ![Id(s)] = now]
      BY <2>1
    <3> QED
      BY <3>1, <3>2
  <2>4. launched \subseteq {x \in Principals \X Keys : execution'[x] # None /\ ~execution'[x].input.later}
    BY <2>2 DEF TypeOK, Keeps
  <2>5. via' \in [Handles -> SUBSET Keys]
    BY <1>2, <2>1 DEF TypeOK
  <2>6. sub' \in [Submits -> SubRows] /\ Submitted'
    <3>1. CASE Move(s, "refused")
      <4>1. sub[s].at = "admit"
        BY <1>4 DEF Admit
      <4> QED
        BY <1>1, <2>2, <3>1, <4>1, MoveFits DEF Early
    <3>2. CASE now.input = sub[s].ask.input /\ \E place \in {"refused", "consume", "launch"} :
                     /\ place = "launch" => ~sub[s].ask.input.later
                     /\ sub' = [sub EXCEPT ![s] = [sub[s] EXCEPT !.at = place, !.admitted = TRUE]]
      <4>1. PICK place \in {"refused", "consume", "launch"} :
                     /\ place = "launch" => ~sub[s].ask.input.later
                     /\ sub' = [sub EXCEPT ![s] = [sub[s] EXCEPT !.at = place, !.admitted = TRUE]]
        BY <3>2
      <4> DEFINE rec == [sub[s] EXCEPT !.at = place, !.admitted = TRUE]
      <4>2. rec \in SubRows
        BY <1>1 DEF SubRows, InFlight, Answers
      <4>3. rec.at = place /\ rec.ask = sub[s].ask /\ rec.admitted = TRUE /\ rec.to = sub[s].to
        BY <1>1 DEF SubRows
      <4>4. sub' = [sub EXCEPT ![s] = rec]
        BY <4>1
      <4> HIDE DEF rec
      <4>5. Fits(rec)
        BY <1>1, <4>1, <4>2, <4>3 DEF Fits, Early
      <4>6. execution'[Id(s)] # None /\ execution'[Id(s)].input = sub[s].ask.input
        BY <1>2, <2>1, <3>2, FormsAssumption DEF TypeOK
      <4> QED
        BY <2>2, <4>3, <4>4, <4>5, <4>6, StepFits
    <3> QED
      BY <2>1, <3>1, <3>2
  <2> QED
    BY <1>0, <1>3, <2>3, <2>4, <2>5, <2>6 DEF TypeOK, SubRows
<1>5. CASE Launch(s)
  <2>1. PICK place \in {"mark", "unconfirmed"} : Move(s, place)
    BY <1>5 DEF Launch
  <2>2. sub[s].at = "launch" /\ UNCHANGED <<execution, via>> /\ Keeps
    BY <1>5 DEF Launch, Keeps
  <2>3. sub' \in [Submits -> SubRows] /\ Submitted'
    BY <1>1, <2>1, <2>2, MoveFits
  <2>4. launched' \subseteq {x \in Principals \X Keys : execution[x] # None /\ ~execution[x].input.later}
    BY <1>1, <1>2, <1>5, <2>2 DEF Launch, TypeOK
  <2> QED
    BY <1>0, <1>3, <2>2, <2>3, <2>4 DEF TypeOK, SubRows
<1>6. CASE Mark(s)
  <2>1. PICK place \in {"consume", "unconfirmed"} : Move(s, place)
    BY <1>6 DEF Mark
  <2>2. sub[s].at = "mark" /\ UNCHANGED <<launched, via>>
    BY <1>6 DEF Mark
  <2>3. /\ execution[Id(s)] \in Executions
        /\ [execution[Id(s)] EXCEPT !.dispatched = TRUE] \in Executions
        /\ [execution[Id(s)] EXCEPT !.dispatched = TRUE].input = execution[Id(s)].input
    <3>1. execution[Id(s)] \in Executions
      BY <1>1, <1>2, <2>2 DEF TypeOK
    <3> QED
      BY <3>1 DEF Executions
  <2>4. \/ execution' = execution
        \/ execution' = [execution EXCEPT ![Id(s)] = [execution[Id(s)] EXCEPT !.dispatched = TRUE]]
    BY <1>6 DEF Mark, TypeOK
  <2>5. execution' \in [Principals \X Keys -> Executions \union {None}] /\ Keeps
    <3>1. execution \in [Principals \X Keys -> Executions \union {None}]
      BY DEF TypeOK
    <3>2. CASE execution' = execution
      BY <3>1, <3>2 DEF Keeps
    <3>3. CASE execution' = [execution EXCEPT ![Id(s)] = [execution[Id(s)] EXCEPT !.dispatched = TRUE]]
      <4> DEFINE now == [execution[Id(s)] EXCEPT !.dispatched = TRUE]
      <4>1. now \in Executions /\ now.input = execution[Id(s)].input /\ now # None
        BY <2>3, FormsAssumption
      <4>2. execution' = [execution EXCEPT ![Id(s)] = now]
        BY <3>3
      <4> HIDE DEF now
      <4> QED
        BY <1>2, <3>1, <4>1, <4>2 DEF Keeps
    <3> QED
      BY <2>4, <3>2, <3>3
  <2>6. sub' \in [Submits -> SubRows] /\ Submitted'
    BY <1>1, <2>1, <2>2, <2>5, MoveFits
  <2>7. launched' \subseteq {x \in Principals \X Keys : execution'[x] # None /\ ~execution'[x].input.later}
    BY <2>2, <2>5 DEF TypeOK, Keeps
  <2> QED
    BY <1>0, <1>3, <2>2, <2>5, <2>6, <2>7 DEF TypeOK, SubRows
<1> QED
  BY <1>4, <1>5, <1>6 DEF Dispatching

LEMMA SubmissionSteps ==
  ASSUME NEW s \in Submits, Submission(s)
  PROVE  Reads(s) \/ Claiming(s) \/ Dispatching(s)
BY DEF Submission, Reads, Claiming, Dispatching

LEMMA SubmissionType ==
  ASSUME TypeInv, NEW s \in Submits, Submission(s)
  PROVE  TypeInv'
<1> USE DEF TypeInv
<1>1. CASE Reads(s)
  <2>1. UNCHANGED <<tables, start, rebind, via>>
    BY <1>1 DEF Reads, Present, LoadForm, Peek, ReservePeek, ConsumePeek, StorageFails, Die
  <2> QED
    BY <1>1, <2>1, ReadsFit DEF TypeOK, SubRows, Starts, Rows, Binds
<1>2. CASE Claiming(s)
  <2>1. UNCHANGED <<form, acts, grant, execution, launched, start, rebind, via>>
    BY <1>2 DEF Claiming, Claim, Spend, VerifyOwn
  <2>2. /\ sub' \in [Submits -> SubRows] /\ Submitted'
        /\ session' \in [Handles -> Sessions \union {None}]
        /\ \A g \in Handles : session'[g] = None <=> session[g] = None
        /\ \A g \in Handles : session[g] # None => session'[g].user = session[g].user
    BY <1>2, ClaimingType
  <2>3. TypeOK'
    BY <2>1, <2>2 DEF TypeOK, SubRows
  <2>4. Starts' /\ Binds'
    BY <2>1 DEF Starts, Binds
  <2>5. Rows'
    BY <2>1, <2>2 DEF Rows
  <2> QED
    BY <2>2, <2>3, <2>4, <2>5
<1> QED
  BY <1>1, <1>2, DispatchingType, SubmissionSteps

LEMMA TypeNext == TypeInv /\ [Next]_vars => TypeInv'
<1> SUFFICES ASSUME TypeInv, [Next]_vars PROVE TypeInv'
  OBVIOUS
<1>1. CASE UNCHANGED vars
  BY <1>1 DEF vars, TypeInv, TypeOK, Starts, Rows, Binds, Submitted, Id, Who, Key
<1> QED
  BY <1>1, DesignerType, RebinderType, StartupType, SubmissionType DEF Next

\* Every variable keeps its type, and only rows of immediate submissions have
\* a Workflow instance (src/forms.ts, src/index.ts runFormSubmit).
THEOREM TypeCorrect == Spec => []TypeOK
<1>1. TypeInv => TypeOK
  BY DEF TypeInv
<1> QED
  BY <1>1, TypeInit, TypeNext, PTL DEF Spec

(***************************************************************************)
(* The fence.  A submission past the reservation holds its handle, and     *)
(* whoever holds a handle or was admitted through it has one key, the one  *)
(* the row is bound to as long as there is a row.                          *)
(***************************************************************************)
Begun(h) == start[h].at \in {"sweep", "done"}
Holds(s) == sub[s].at \in {"admit", "launch", "mark", "consume", "spend", "verify"} \/ sub[s].admitted

Fence ==
  /\ \A s \in Submits : Holds(s) => Begun(sub[s].ask.handle)
  /\ \A h \in Handles : via[h] # {} => Begun(h)
  /\ \A h \in Handles : session[h] # None => \A k \in via[h] : session[h].claimed = k
  /\ \A s \in Submits : Holds(s) /\ Row(s) # None => Row(s).claimed = Key(s)
  /\ \A s, o \in Submits : Holds(s) /\ Holds(o) /\ sub[s].ask.handle = sub[o].ask.handle => Key(s) = Key(o)
  /\ \A s \in Submits : Holds(s) => \A k \in via[sub[s].ask.handle] : k = Key(s)

FenceInv == TypeInv /\ Fence /\ OneExecutionPerHandle /\ AdmittedIsNotStale

LEMMA FenceInit == Init => Fence /\ OneExecutionPerHandle /\ AdmittedIsNotStale
BY DEF Init, Fence, OneExecutionPerHandle, AdmittedIsNotStale, Holds

\* steps after which nobody new holds a handle and no row is bound anew
LEMMA FenceKeeps ==
  ASSUME FenceInv, via' = via,
         \A h \in Handles : Begun(h) => Begun(h)',
         \A s \in Submits : Holds(s)' => Holds(s) /\ sub'[s].ask = sub[s].ask,
         \A h \in Handles : session'[h] # None =>
            \/ session[h] # None /\ session'[h].claimed = session[h].claimed
            \/ ~Begun(h)
  PROVE  Fence'
<1> USE DEF FenceInv
<1>1. \A s \in Submits : Holds(s) => sub[s].ask.handle \in Handles
  BY IdType DEF Holds
<1>2. \A s \in Submits : Holds(s)' => /\ sub'[s].ask = sub[s].ask /\ Key(s)' = Key(s)
                                       /\ sub[s].ask.handle \in Handles /\ Holds(s)
  BY <1>1 DEF Key
<1>3. \A h \in Handles : Begun(h) => start'[h].at \in {"sweep", "done"}
  BY DEF Begun
<1>4. \A h \in Handles : session'[h] # None => \A k \in via[h] : session'[h].claimed = k
  BY DEF Fence
<1>5. \A s \in Submits : Holds(s)' /\ Row(s)' # None => Row(s)'.claimed = Key(s)'
  BY <1>2 DEF Fence, Row
<1>6. \A s, o \in Submits : Holds(s)' /\ Holds(o)' /\ sub'[s].ask.handle = sub'[o].ask.handle => Key(s)' = Key(o)'
  BY <1>2 DEF Fence
<1>7. \A s \in Submits : Holds(s)' => \A k \in via[sub'[s].ask.handle] : k = Key(s)'
  BY <1>2 DEF Fence
<1>8. \A s \in Submits : Holds(s)' => start'[sub'[s].ask.handle].at \in {"sweep", "done"}
  BY <1>2, <1>3 DEF Fence
<1>9. \A h \in Handles : via[h] # {} => Begun(h)'
  BY DEF Fence
<1> QED
  BY <1>4, <1>5, <1>6, <1>7, <1>8, <1>9 DEF Fence, Row, Begun

\* steps after which no submission that was admitted is newly stale
LEMMA StaleKeeps ==
  ASSUME FenceInv,
         \A h \in Handles : Begun(h) /\ session[h] = None => session'[h] = None,
         \A s \in Submits : sub'[s].at = "stale" /\ sub'[s].admitted /\ ~sub'[s].fault =>
            /\ sub'[s].ask = sub[s].ask /\ Holds(s)
            /\ (sub[s].at = "stale" /\ sub[s].admitted /\ ~sub[s].fault) \/ Row(s) = None
  PROVE  AdmittedIsNotStale'
<1> USE DEF FenceInv
<1>1. \A s \in Submits : Holds(s) => sub[s].ask.handle \in Handles
  BY IdType DEF Holds
<1> QED
  BY <1>1 DEF AdmittedIsNotStale, Fence, Row

LEMMA FenceStart ==
  ASSUME FenceInv, NEW h \in Handles, Startup(h)
  PROVE  Fence' /\ AdmittedIsNotStale'
<1> USE DEF FenceInv, TypeInv
<1>1. sub' = sub /\ via' = via
  BY DEF Startup, StartGrant, StartForm, InsertSession, Sweep, Expire
<1>2. /\ start \in [Handles -> [at : StartAt, who : Principals \union {None},
                             to : Declarations \union {None}, under : Declarations \union {None}]]
      /\ session \in [Handles -> Sessions \union {None}]
  BY DEF TypeOK
<1>3. \A g \in Handles : Begun(g) => Begun(g)'
  BY <1>2 DEF Begun, Startup, StartGrant, StartForm, InsertSession, Sweep, Expire
<1>4. \A g \in Handles : session'[g] # None =>
            \/ session[g] # None /\ session'[g].claimed = session[g].claimed
            \/ ~Begun(g)
  <2>1. CASE StartGrant(h) \/ StartForm(h) \/ Sweep(h)
    BY <1>2, <2>1 DEF StartGrant, StartForm, Sweep
  <2>2. CASE InsertSession(h)
    BY <1>2, <2>2 DEF InsertSession, Begun
  <2>3. CASE Expire(h)
    <3>1. session[h] \in Sessions /\ session' = [session EXCEPT ![h] = [session[h] EXCEPT !.expired = TRUE]]
      BY <1>2, <2>3 DEF Expire
    <3>2. [session[h] EXCEPT !.expired = TRUE].claimed = session[h].claimed
      BY <3>1 DEF Sessions
    <3> QED
      BY <1>2, <2>3, <3>1, <3>2 DEF Expire
  <2> QED
    BY <2>1, <2>2, <2>3 DEF Startup
<1>5. Fence'
  BY <1>1, <1>3, <1>4, FenceKeeps DEF Holds
<1>6. AdmittedIsNotStale'
  BY <1>1, <1>4, StaleKeeps DEF Holds
<1> QED
  BY <1>5, <1>6

LEMMA FenceAdmin ==
  ASSUME FenceInv, Designer \/ \E r \in Rebinds : Rebinder(r)
  PROVE  Fence' /\ AdmittedIsNotStale'
<1> USE DEF FenceInv, TypeInv
<1>1. sub' = sub /\ via' = via /\ start' = start
  BY DEF Designer, SaveForm, DeleteForm, Issue, Disable,
         Rebinder, RebindForm, RebindGrant, RebindWrite, Invalidate, InvalidateFails, RebindFails
<1>2. \A g \in Handles : session'[g] # None => session[g] # None /\ session'[g].claimed = session[g].claimed
  <2>1. session' = session \/ \E r \in Rebinds : RebindWrite(r) \/ InvalidateFails(r) \/ Invalidate(r)
    BY DEF Designer, SaveForm, DeleteForm, Issue, Disable, Rebinder, RebindForm, RebindGrant, RebindFails
  <2>2. ASSUME NEW r \in Rebinds, RebindWrite(r) \/ InvalidateFails(r), session' # session
        PROVE  session' = Outlive(rebind[r].who, rebind[r].to)
    BY <2>2 DEF RebindWrite, InvalidateFails
  <2>3. ASSUME NEW r \in Rebinds, Invalidate(r)
        PROVE  \A g \in Handles : session'[g] # None => session'[g] = session[g]
    BY <2>3 DEF Invalidate
  <2> QED
    BY <2>1, <2>2, <2>3, OutliveType
<1>3. Fence'
  BY <1>1, <1>2, FenceKeeps DEF Holds, Begun
<1>4. AdmittedIsNotStale'
  BY <1>1, <1>2, StaleKeeps DEF Holds
<1> QED
  BY <1>3, <1>4

LEMMA AdmitShape ==
  ASSUME TypeInv, NEW s \in Submits, Admit(s)
  PROVE  \E rec : /\ sub' = [sub EXCEPT ![s] = rec] /\ rec.ask = sub[s].ask
                  /\ rec.at \in {"refused", "consume", "launch"}
                  /\ rec.to = sub[s].to /\ rec.under = sub[s].under /\ rec.excuses = sub[s].excuses
<1>1. sub[s] \in SubRows
  BY DEF TypeInv, TypeOK, SubRows
<1>2. CASE Move(s, "refused")
  <2>1. sub' = [sub EXCEPT ![s] = [sub[s] EXCEPT !.at = "refused"]]
    BY <1>2 DEF Move, TypeInv, TypeOK
  <2> DEFINE rec == [sub[s] EXCEPT !.at = "refused"]
  <2>2. /\ rec.ask = sub[s].ask /\ rec.at = "refused"
        /\ rec.to = sub[s].to /\ rec.under = sub[s].under /\ rec.excuses = sub[s].excuses
    BY <1>1 DEF SubRows
  <2>3. sub' = [sub EXCEPT ![s] = rec]
    BY <2>1
  <2> HIDE DEF rec
  <2> QED
    BY <2>2, <2>3
<1>3. ASSUME NEW place \in {"refused", "consume", "launch"},
             sub' = [sub EXCEPT ![s] = [sub[s] EXCEPT !.at = place, !.admitted = TRUE]]
      PROVE  \E rec : /\ sub' = [sub EXCEPT ![s] = rec] /\ rec.ask = sub[s].ask
                  /\ rec.at \in {"refused", "consume", "launch"}
                  /\ rec.to = sub[s].to /\ rec.under = sub[s].under /\ rec.excuses = sub[s].excuses
  <2> DEFINE rec == [sub[s] EXCEPT !.at = place, !.admitted = TRUE]
  <2>1. /\ rec.ask = sub[s].ask /\ rec.at = place
        /\ rec.to = sub[s].to /\ rec.under = sub[s].under /\ rec.excuses = sub[s].excuses
    BY <1>1 DEF SubRows
  <2>2. sub' = [sub EXCEPT ![s] = rec]
    BY <1>3
  <2> HIDE DEF rec
  <2> QED
    BY <2>1, <2>2
<1> QED
  BY <1>2, <1>3, AdmitRow

\* what a submission's step leaves alone
LEMMA StepShape ==
  ASSUME TypeInv, NEW s \in Submits, Submission(s)
  PROVE  /\ \A q \in Submits : sub'[q].ask = sub[q].ask /\ (q # s => sub'[q] = sub[q])
         /\ start' = start
         /\ ~Admit(s) => via' = via /\ sub'[s].admitted = sub[s].admitted
<1>1. sub \in [Submits -> SubRows]
  BY DEF TypeInv, TypeOK, SubRows
<1>2. CASE Reads(s)
  BY <1>1, <1>2 DEF Reads, Present, LoadForm, Peek, ReservePeek, ConsumePeek, StorageFails, Die, Move, SubRows
<1>3. CASE Claiming(s)
  <2>1. CASE Claim(s)
    BY <1>1, <2>1 DEF Claim, Move, SubRows
  <2>2. CASE Spend(s)
    BY <1>1, <2>2 DEF Spend, Move, SubRows
  <2>3. CASE VerifyOwn(s)
    BY <1>1, <2>3 DEF VerifyOwn, Move, SubRows
  <2> QED
    BY <1>3, <2>1, <2>2, <2>3 DEF Claiming
<1>4. CASE Launch(s) \/ Mark(s)
  BY <1>1, <1>4 DEF Launch, Mark, Move, SubRows
<1>5. CASE Admit(s)
  <2>1. start' = start
    BY <1>5 DEF Admit
  <2> QED
    BY <1>1, <1>5, <2>1, AdmitShape
<1> QED
  BY <1>2, <1>3, <1>4, <1>5, SubmissionSteps DEF Dispatching

LEMMA FenceReads ==
  ASSUME FenceInv, NEW s \in Submits, Submission(s), Reads(s) \/ Launch(s) \/ Mark(s)
  PROVE  Fence' /\ AdmittedIsNotStale' /\ via' = via
<1> USE DEF FenceInv, TypeInv
<1>1. sub \in [Submits -> SubRows] /\ Submitted!(s)
  BY DEF TypeOK, SubRows, Submitted
<1>2. /\ session' = session /\ start' = start /\ via' = via
      /\ \A q \in Submits : sub'[q].ask = sub[q].ask /\ (q # s => sub'[q] = sub[q])
      /\ sub'[s].admitted = sub[s].admitted
  <2>1. session' = session
    BY DEF Reads, Present, LoadForm, Peek, ReservePeek, ConsumePeek, StorageFails, Die, Launch, Mark
  <2>2. via' = via /\ sub'[s].admitted = sub[s].admitted
    BY <1>1 DEF Reads, Present, LoadForm, Peek, ReservePeek, ConsumePeek, StorageFails, Die, Launch, Mark, Move, SubRows
  <2> QED
    BY <2>1, <2>2, StepShape
<1>3. Holds(s)' => Holds(s)
  BY <1>1, <1>2 DEF Holds, Reads, Present, LoadForm, Peek, ReservePeek, ConsumePeek, StorageFails, Die,
                    Launch, Mark, Move, SubRows
<1>4. sub'[s].at = "stale" /\ sub'[s].admitted => sub'[s].fault
  BY <1>1, <1>2 DEF Reads, Present, LoadForm, Peek, ReservePeek, ConsumePeek, StorageFails, Die,
                    Launch, Mark, Move, SubRows, Early, ConsumeStale
<1>5. Fence'
  BY <1>2, <1>3, FenceKeeps DEF Holds, Begun
<1>6. AdmittedIsNotStale'
  BY <1>2, <1>4, StaleKeeps DEF Holds
<1> QED
  BY <1>2, <1>5, <1>6

LEMMA FenceClaiming ==
  ASSUME FenceInv, NEW s \in Submits, Submission(s), Claiming(s)
  PROVE  Fence' /\ AdmittedIsNotStale' /\ via' = via
<1> DEFINE h == sub[s].ask.handle
           k == Key(s)
<1> USE DEF FenceInv, TypeInv
<1>1. sub \in [Submits -> SubRows] /\ Submitted!(s) /\ session \in [Handles -> Sessions \union {None}]
  BY DEF TypeOK, SubRows, Submitted
<1>2. /\ start' = start /\ via' = via
      /\ \A q \in Submits : sub'[q].ask = sub[q].ask /\ (q # s => sub'[q] = sub[q])
      /\ sub'[s].admitted = sub[s].admitted
  <2>1. ~Admit(s)
    BY DEF Claiming, Claim, Spend, VerifyOwn, Admit
  <2> QED
    BY <2>1, StepShape
<1>3. sub[s].at \in {"claim", "spend", "verify"} /\ h \in Handles /\ k \in Keys
  BY IdType DEF Claiming, Claim, Spend, VerifyOwn
<1>4. Fence'
  <2>1. CASE session' = session /\ \E place \in {"stale", "verify"} : Move(s, place)
    <3>1. Holds(s)' => Holds(s)
      BY <1>1, <1>2, <2>1 DEF Holds, Claiming, Claim, Spend, VerifyOwn, Move, SubRows
    <3> QED
      BY <1>2, <2>1, <3>1, FenceKeeps DEF Holds, Begun
  <2>2. CASE /\ Row(s) # None /\ Row(s).claimed \in {None, k}
             /\ \E row : Taken(Row(s), row, k) /\ session' = [session EXCEPT ![h] = row]
    <3>1. PICK row : row.claimed = k /\ session' = [session EXCEPT ![h] = row]
      BY <2>2 DEF Taken
    <3>2. session[h] # None /\ session[h].claimed \in {None, k} /\ Begun(h)
      BY <1>3, <2>2 DEF Row, Rows, Begun
    <3>3. \A q \in Submits : Holds(q)' /\ q # s => Holds(q) /\ q # s
      BY <1>2 DEF Holds
    <3>4. \A q \in Submits : Holds(q)' => sub[q].ask.handle \in Handles /\ Key(q) \in Keys
      BY <1>3, <3>3, IdType DEF Holds
    <3>5. \A q \in Submits : Holds(q) /\ sub[q].ask.handle = h => Key(q) = k
      <4>1. \A q \in Submits : Holds(q) => Key(q) \in Keys
        BY IdType DEF Holds
      <4> QED
        BY <3>2, <4>1, FormsAssumption DEF Fence, Row
    <3>6. \A l \in via[h] : l = k
      <4>1. via[h] \subseteq Keys
        BY <1>3 DEF TypeOK
      <4> QED
        BY <1>3, <3>2, <4>1, FormsAssumption DEF Fence
    <3>7. \A q \in Submits : Key(q)' = Key(q) /\ sub'[q].ask = sub[q].ask
      BY <1>2 DEF Key
    <3>8. \A q \in Submits : Holds(q)' => Begun(sub[q].ask.handle)
      BY <3>2, <3>3 DEF Fence
    <3>9. \A g \in Handles : session'[g] # None => \A l \in via[g] : session'[g].claimed = l
      <4> TAKE g \in Handles
      <4>1. CASE g = h
        BY <1>1, <1>3, <3>1, <3>6, <4>1
      <4>2. CASE g # h
        BY <1>1, <3>1, <4>2 DEF Fence
      <4> QED
        BY <4>1, <4>2
    <3>10. \A q \in Submits : Holds(q)' /\ session'[sub[q].ask.handle] # None => session'[sub[q].ask.handle].claimed = Key(q)
      <4> SUFFICES ASSUME NEW q \in Submits, Holds(q)', session'[sub[q].ask.handle] # None
                   PROVE  session'[sub[q].ask.handle].claimed = Key(q)
        OBVIOUS
      <4>1. CASE sub[q].ask.handle = h
        BY <1>1, <1>3, <3>1, <3>3, <3>5, <4>1
      <4>2. CASE sub[q].ask.handle # h
        BY <1>1, <3>1, <3>3, <3>4, <4>2 DEF Fence, Row
      <4> QED
        BY <4>1, <4>2
    <3>11. \A q, o \in Submits : Holds(q)' /\ Holds(o)' /\ sub[q].ask.handle = sub[o].ask.handle => Key(q) = Key(o)
      BY <3>3, <3>5 DEF Fence
    <3>12. \A q \in Submits : Holds(q)' => \A l \in via[sub[q].ask.handle] : l = Key(q)
      BY <3>3, <3>6 DEF Fence
    <3>13. \A g \in Handles : via[g] # {} => Begun(g)
      BY DEF Fence
    <3> QED
      BY <1>2, <3>7, <3>8, <3>9, <3>10, <3>11, <3>12, <3>13 DEF Fence, Row, Begun
  <2> QED
    BY <2>1, <2>2, ClaimsRow
<1>5. sub'[s].at = "stale" /\ sub'[s].admitted => Holds(s) /\ Row(s) = None
  <2>1. Holds(s) /\ Row(s) # None => Row(s).claimed = k
    BY DEF Fence
  <2> QED
    BY <1>1, <1>2, <2>1 DEF Holds, Claiming, Claim, Spend, VerifyOwn, Move, SubRows, Early, ConsumeStale, Row
<1>6. AdmittedIsNotStale'
  <2>1. \A g \in Handles : session[g] = None => session'[g] = None
    BY ClaimingType
  <2> QED
    BY <1>2, <1>5, <2>1, StaleKeeps DEF Holds
<1> QED
  BY <1>2, <1>4, <1>6

LEMMA FenceAdmit ==
  ASSUME FenceInv, NEW s \in Submits, Submission(s), Admit(s)
  PROVE  Fence' /\ AdmittedIsNotStale' /\ OneExecutionPerHandle'
<1> DEFINE h == sub[s].ask.handle
           k == Key(s)
<1> USE DEF FenceInv, TypeInv
<1>1. sub \in [Submits -> SubRows] /\ via \in [Handles -> SUBSET Keys]
  BY DEF TypeOK, SubRows
<1>2. /\ start' = start /\ session' = session
      /\ \A q \in Submits : sub'[q].ask = sub[q].ask /\ (q # s => sub'[q] = sub[q])
  BY StepShape DEF Admit
<1>3. sub[s].at = "admit" /\ Holds(s) /\ h \in Handles /\ k \in Keys
  BY IdType DEF Admit, Holds
<1>4. \/ via' = [via EXCEPT ![h] = @ \union {k}]
      \/ via' = via
  BY AdmitRow
<1>5. sub'[s].at # "stale"
  BY <1>1, AdmitShape
<1>6. \A g \in Handles : \A l \in via'[g] : l \in via[g] \/ (g = h /\ l = k)
  BY <1>1, <1>3, <1>4
<1>7. \A q \in Submits : Key(q)' = Key(q) /\ sub'[q].ask = sub[q].ask /\ (Holds(q)' => Holds(q))
  BY <1>2, <1>3 DEF Key, Holds
<1>8. \A q \in Submits : Holds(q) => sub[q].ask.handle \in Handles
  BY IdType DEF Holds
<1>9. \A l \in via[h] : l = k
  BY <1>3 DEF Fence
<1>10. Fence'
  <2>1. \A g \in Handles : via'[g] # {} => Begun(g)
    BY <1>3, <1>6 DEF Fence
  <2>2. \A g \in Handles : session[g] # None => \A l \in via'[g] : session[g].claimed = l
    BY <1>3, <1>6 DEF Fence, Row
  <2>3. \A q \in Submits : Holds(q) => \A l \in via'[sub[q].ask.handle] : l = Key(q)
    BY <1>3, <1>6, <1>8 DEF Fence
  <2>4. \A q \in Submits : Holds(q) => Begun(sub[q].ask.handle)
    BY DEF Fence
  <2>5. \A q \in Submits : Holds(q) /\ session[sub[q].ask.handle] # None => session[sub[q].ask.handle].claimed = Key(q)
    BY DEF Fence, Row
  <2>6. \A q, o \in Submits : Holds(q) /\ Holds(o) /\ sub[q].ask.handle = sub[o].ask.handle => Key(q) = Key(o)
    BY DEF Fence
  <2> QED
    BY <1>2, <1>7, <2>1, <2>2, <2>3, <2>4, <2>5, <2>6 DEF Fence, Row, Begun
<1>11. OneExecutionPerHandle'
  BY <1>6, <1>9 DEF OneExecutionPerHandle
<1>12. AdmittedIsNotStale'
  BY <1>2, <1>5, <1>7, StaleKeeps DEF Holds
<1> QED
  BY <1>10, <1>11, <1>12

LEMMA FenceNext == FenceInv /\ [Next]_vars => FenceInv'
<1> SUFFICES ASSUME FenceInv, [Next]_vars PROVE FenceInv'
  OBVIOUS
<1>1. TypeInv'
  BY TypeNext DEF FenceInv
<1>2. CASE UNCHANGED vars
  BY <1>1, <1>2 DEF vars, FenceInv, Fence, OneExecutionPerHandle, AdmittedIsNotStale, Holds, Begun, Row, Key
<1>3. CASE Designer \/ \E r \in Rebinds : Rebinder(r)
  <2>1. via' = via
    BY <1>3 DEF Designer, SaveForm, DeleteForm, Issue, Disable,
                Rebinder, RebindForm, RebindGrant, RebindWrite, Invalidate, InvalidateFails, RebindFails
  <2> QED
    BY <1>1, <1>3, <2>1, FenceAdmin DEF FenceInv, OneExecutionPerHandle
<1>4. ASSUME NEW h \in Handles, Startup(h)
      PROVE  FenceInv'
  <2>1. via' = via
    BY <1>4 DEF Startup, StartGrant, StartForm, InsertSession, Sweep, Expire
  <2> QED
    BY <1>1, <1>4, <2>1, FenceStart DEF FenceInv, OneExecutionPerHandle
<1>5. ASSUME NEW s \in Submits, Submission(s)
      PROVE  FenceInv'
  <2>1. CASE Admit(s)
    BY <1>1, <1>5, <2>1, FenceAdmit DEF FenceInv
  <2>2. CASE Claiming(s)
    BY <1>1, <1>5, <2>2, FenceClaiming DEF FenceInv, OneExecutionPerHandle
  <2>3. CASE Reads(s) \/ Launch(s) \/ Mark(s)
    BY <1>1, <1>5, <2>3, FenceReads DEF FenceInv, OneExecutionPerHandle
  <2> QED
    BY <1>5, <2>1, <2>2, <2>3, SubmissionSteps DEF Dispatching
<1> QED
  BY <1>2, <1>3, <1>4, <1>5 DEF Next

LEMMA FenceAlways == Spec => []FenceInv
<1>1. Init => FenceInv
  BY TypeInit, FenceInit DEF FenceInv
<1> QED
  BY <1>1, FenceNext, PTL DEF Spec

\* Whatever races, is retried, expires or fails, a handle admits Executions of
\* one key (src/forms.ts reserveStartupHandle).
THEOREM HandleAdmitsOnce == Spec => []OneExecutionPerHandle
<1>1. FenceInv => OneExecutionPerHandle
  BY DEF FenceInv
<1> QED
  BY <1>1, FenceAlways, PTL

\* An admitted submission is not told that its handle is stale, unless the row
\* was deleted or D1 failed (src/forms.ts consumeAfterAdmission).
THEOREM AdmittedIsAnswered == Spec => []AdmittedIsNotStale
<1>1. FenceInv => AdmittedIsNotStale
  BY DEF FenceInv
<1> QED
  BY <1>1, FenceAlways, PTL

(***************************************************************************)
(* The binding.  A session that is there was minted under the declaration  *)
(* its grant names, or is excused, or a re-bind is about to delete it; and *)
(* a submission that was let in names the declaration of its session with  *)
(* the same exceptions.                                                    *)
(***************************************************************************)
Excused(h) == session[h].loose # {} \/ Pending(session[h].user, session[h].under)

Minted == \A h \in Handles :
  session[h] # None /\ session[h].user \in Externals =>
    session[h].under = grant[session[h].user].to \/ Excused(h)

Presented == \A s \in Submits, h \in Handles :
  sub[s].at \in {"form", "peek", "reserve", "claim"} /\ Who(s) \in Externals /\ sub[s].ask.handle = h =>
    /\ Begun(h)
    /\ session[h] # None => /\ session[h].user = Who(s)
                            /\ sub[s].to = session[h].under \/ Excused(h)

BindInv == TypeInv /\ Minted /\ Presented /\ AdmittedUnderOwn

LEMMA BindInit == Init => Minted /\ Presented /\ AdmittedUnderOwn
BY DEF Init, Minted, Presented, AdmittedUnderOwn, Reserved

\* rows that are there and keep what they were minted under
Kept(h) ==
  /\ session[h] # None
  /\ session'[h].user = session[h].user /\ session'[h].under = session[h].under
  /\ Excused(h) => Excused(h)'

\* steps in which no submission moves
LEMMA BindKeeps ==
  ASSUME BindInv, sub' = sub,
         \A h \in Handles : Begun(h) => Begun(h)',
         \A h \in Handles : session'[h] # None /\ Begun(h) => Kept(h)
  PROVE  Presented' /\ AdmittedUnderOwn'
<1>1. \A s \in Submits : Who(s)' = Who(s)
  BY DEF Who
<1>2. AdmittedUnderOwn'
  BY <1>1 DEF BindInv, AdmittedUnderOwn
<1>3. Presented'
  <2> SUFFICES ASSUME NEW s \in Submits, NEW h \in Handles,
                      sub[s].at \in {"form", "peek", "reserve", "claim"}, Who(s) \in Externals, sub[s].ask.handle = h
               PROVE  /\ Begun(h)'
                      /\ session'[h] # None => /\ session'[h].user = Who(s)
                                               /\ sub[s].to = session'[h].under \/ Excused(h)'
    BY <1>1 DEF Presented
  <2>1. /\ Begun(h)
        /\ session[h] # None => session[h].user = Who(s) /\ (sub[s].to = session[h].under \/ Excused(h))
    BY DEF BindInv, Presented
  <2> QED
    BY <2>1 DEF Kept
<1> QED
  BY <1>2, <1>3

LEMMA BindDesigner ==
  ASSUME BindInv, Designer
  PROVE  Minted' /\ Presented' /\ AdmittedUnderOwn'
<1> USE DEF BindInv, TypeInv
<1>1. UNCHANGED <<session, start, sub, rebind>>
  BY DEF Designer, SaveForm, DeleteForm, Issue, Disable
<1>2. \A h \in Handles : Excused(h)' <=> Excused(h)
  BY <1>1 DEF Excused, Pending
<1>3. \A p \in Externals : grant[p] # None => grant'[p].to = grant[p].to
  <2>1. CASE SaveForm \/ DeleteForm
    BY <2>1 DEF SaveForm, DeleteForm
  <2>2. ASSUME NEW q \in Externals, Issue(q)
        PROVE  \A p \in Externals : grant[p] # None => grant'[p].to = grant[p].to
    BY <2>2 DEF Issue, TypeOK
  <2>3. ASSUME NEW q \in Externals, Disable(q)
        PROVE  \A p \in Externals : grant[p] # None => grant'[p].to = grant[p].to
    <3>1. grant' = [grant EXCEPT ![q] = [grant[q] EXCEPT !.enabled = FALSE]] /\ grant[q] \in Grants
      BY <2>3, GrantType DEF Disable, TypeOK
    <3>2. [grant[q] EXCEPT !.enabled = FALSE].to = grant[q].to
      BY <3>1 DEF Grants
    <3> QED
      BY <3>1, <3>2 DEF TypeOK
  <2> QED
    BY <2>1, <2>2, <2>3 DEF Designer
<1>4. Minted'
  BY <1>1, <1>2, <1>3 DEF Minted, Rows
<1>5. \A h \in Handles : session'[h] # None => Kept(h)
  BY <1>1, <1>2 DEF Kept
<1> QED
  BY <1>1, <1>4, <1>5, BindKeeps DEF Begun

LEMMA BindStart ==
  ASSUME BindInv, NEW h \in Handles, Startup(h)
  PROVE  Minted' /\ Presented' /\ AdmittedUnderOwn'
<1> USE DEF BindInv, TypeInv
<1>1. UNCHANGED <<grant, sub, rebind>>
  BY DEF Startup, StartGrant, StartForm, InsertSession, Sweep, Expire
<1>2. /\ start \in [Handles -> [at : StartAt, who : Principals \union {None},
                             to : Declarations \union {None}, under : Declarations \union {None}]]
      /\ session \in [Handles -> Sessions \union {None}]
  BY DEF TypeOK
<1>3. \A g \in Handles : Begun(g) => Begun(g)'
  BY <1>2 DEF Begun, Startup, StartGrant, StartForm, InsertSession, Sweep, Expire
<1>4. \A p, d : Pending(p, d)' <=> Pending(p, d)
  BY <1>1 DEF Pending
<1>5. \A g \in Handles : session'[g] # None =>
        \/ Kept(g)
        \/ /\ InsertSession(h) /\ g = h
           /\ session'[g].user \in Externals =>
                session'[g].under = grant[session'[g].user].to \/ session'[g].loose # {}
  <2>1. CASE StartGrant(h) \/ StartForm(h) \/ Sweep(h)
    <3>1. \A g \in Handles : session'[g] # None => session'[g] = session[g]
      BY <1>2, <2>1 DEF StartGrant, StartForm, Sweep
    <3> QED
      BY <1>4, <3>1 DEF Kept, Excused
  <2>2. CASE InsertSession(h)
    <3> DEFINE p == start[h].who
               row == [user |-> p, under |-> start[h].under, expired |-> FALSE, used |-> FALSE, claimed |-> None,
                       loose |-> IF p \in Externals /\ grant[p].to # start[h].under THEN {"late"} ELSE {}]
    <3>1. session' = [session EXCEPT ![h] = row]
      BY <2>2 DEF InsertSession
    <3>2. row.user \in Externals => row.under = grant[row.user].to \/ row.loose # {}
      OBVIOUS
    <3> HIDE DEF row
    <3>3. \A g \in Handles : g # h => session'[g] = session[g]
      BY <1>2, <3>1
    <3>4. session'[h] = row
      BY <1>2, <3>1
    <3> QED
      BY <1>4, <2>2, <3>2, <3>3, <3>4 DEF Kept, Excused
  <2>3. CASE Expire(h)
    <3>1. session[h] \in Sessions /\ session' = [session EXCEPT ![h] = [session[h] EXCEPT !.expired = TRUE]]
      BY <1>2, <2>3 DEF Expire
    <3>2. /\ [session[h] EXCEPT !.expired = TRUE].user = session[h].user
          /\ [session[h] EXCEPT !.expired = TRUE].under = session[h].under
          /\ [session[h] EXCEPT !.expired = TRUE].loose = session[h].loose
      BY <3>1 DEF Sessions
    <3>3. \A g \in Handles : g # h => session'[g] = session[g]
      BY <1>2, <3>1
    <3>4. session[h] # None
      BY <2>3 DEF Expire
    <3> QED
      BY <1>2, <1>4, <3>1, <3>2, <3>3, <3>4 DEF Kept, Excused
  <2> QED
    BY <2>1, <2>2, <2>3 DEF Startup
<1>6. Minted'
  <2> SUFFICES ASSUME NEW g \in Handles, session'[g] # None, session'[g].user \in Externals
               PROVE  session'[g].under = grant'[session'[g].user].to \/ Excused(g)'
    BY DEF Minted
  <2>1. CASE Kept(g)
    BY <1>1, <2>1 DEF Kept, Minted
  <2>2. CASE session'[g].under = grant[session'[g].user].to \/ session'[g].loose # {}
    BY <1>1, <2>2 DEF Excused
  <2> QED
    BY <1>5, <2>1, <2>2
<1>7. \A g \in Handles : session'[g] # None /\ Begun(g) => Kept(g)
  BY <1>5 DEF InsertSession, Begun
<1> QED
  BY <1>1, <1>3, <1>6, <1>7, BindKeeps

LEMMA BindRebinder ==
  ASSUME BindInv, NEW r \in Rebinds, Rebinder(r)
  PROVE  Minted' /\ Presented' /\ AdmittedUnderOwn'
<1> DEFINE p == rebind[r].who
<1> USE DEF BindInv, TypeInv
<1>1. sub' = sub /\ start' = start
  BY DEF Rebinder, RebindForm, RebindGrant, RebindWrite, Invalidate, InvalidateFails, RebindFails
<1>2. \A q \in Rebinds : q # r => rebind'[q] = rebind[q]
  BY DEF Rebinder, RebindForm, RebindGrant, RebindWrite, Invalidate, InvalidateFails, RebindFails, TypeOK
<1>3. ASSUME NEW u, NEW d, Pending(u, d), rebind[r].at # "invalidate" \/ p # u \/ rebind[r].to = d
      PROVE  Pending(u, d)'
  BY <1>2, <1>3 DEF Pending
<1>4. CASE RebindForm(r) \/ RebindGrant(r) \/ RebindFails(r)
  <2>1. UNCHANGED <<session, grant>> /\ rebind[r].at # "invalidate"
    BY <1>4 DEF RebindForm, RebindGrant, RebindFails
  <2>2. \A h \in Handles : session'[h] # None => Kept(h)
    BY <1>3, <2>1 DEF Kept, Excused
  <2>3. Minted'
    BY <2>1, <2>2 DEF Minted, Kept
  <2> QED
    BY <1>1, <2>2, <2>3, BindKeeps DEF Begun
<1>5. CASE RebindWrite(r)
  <2>1. /\ p \in Externals /\ grant[p] # None /\ rebind[r].at # "invalidate"
        /\ session' = session \/ session' = Outlive(p, rebind[r].to)
    BY <1>5 DEF RebindWrite, Binds
  <2>2. \A h \in Handles : session'[h] # None =>
          /\ session[h] # None /\ session'[h].user = session[h].user /\ session'[h].under = session[h].under
          /\ session[h].loose \subseteq session'[h].loose
    BY <2>1, OutliveType
  <2>3. \A h \in Handles : session'[h] # None => Kept(h)
    BY <1>3, <2>1, <2>2 DEF Kept, Excused
  <2>4. /\ grant'[p].to = rebind[r].to
        /\ \A q \in Externals : q # p => grant'[q] = grant[q]
    BY <1>5, <2>1 DEF RebindWrite, TypeOK
  <2>5. ASSUME NEW h \in Handles, session'[h] # None, session[h].user = p, session[h].under # rebind[r].to
        PROVE  Excused(h)'
    <3>1. CASE Changes(r)
      <4>1. rebind'[r].at = "invalidate" /\ rebind'[r].who = p /\ rebind'[r].to = rebind[r].to
        BY <1>5, <3>1 DEF RebindWrite, TypeOK
      <4> QED
        BY <2>2, <2>5, <4>1 DEF Excused, Pending
    <3>2. CASE ~Changes(r) /\ grant[p].to # rebind[r].from
      BY <1>5, <2>2, <2>5, <3>2, OutliveType DEF RebindWrite, Excused
    <3>3. CASE ~Changes(r) /\ grant[p].to = rebind[r].from
      <4>1. session[h].under # grant[p].to
        BY <2>5, <3>3 DEF Changes
      <4>2. Excused(h)
        BY <2>1, <2>2, <2>5, <4>1 DEF Minted
      <4> QED
        BY <2>3, <2>5, <4>2 DEF Kept
    <3> QED
      BY <3>1, <3>2, <3>3
  <2>6. Minted'
    <3> SUFFICES ASSUME NEW h \in Handles, session'[h] # None, session'[h].user \in Externals
                 PROVE  session'[h].under = grant'[session'[h].user].to \/ Excused(h)'
      BY DEF Minted
    <3>1. CASE session[h].user = p
      BY <2>2, <2>4, <2>5, <3>1
    <3>2. CASE session[h].user # p
      BY <2>2, <2>3, <2>4, <3>2 DEF Minted, Kept
    <3> QED
      BY <3>1, <3>2
  <2> QED
    BY <1>1, <2>3, <2>6, BindKeeps DEF Begun
<1>6. CASE Invalidate(r)
  <2>1. grant' = grant /\ \A h \in Handles : session'[h] # None => session'[h] = session[h] /\ session[h].user # p
    BY <1>6 DEF Invalidate
  <2>2. \A h \in Handles : session'[h] # None => Kept(h)
    BY <1>3, <2>1 DEF Kept, Excused
  <2>3. Minted'
    BY <2>1, <2>2 DEF Minted, Kept
  <2> QED
    BY <1>1, <2>2, <2>3, BindKeeps DEF Begun
<1>7. CASE InvalidateFails(r)
  <2>1. grant' = grant /\ session' = Outlive(p, rebind[r].to)
    BY <1>7 DEF InvalidateFails
  <2>2. \A h \in Handles : session'[h] # None =>
          /\ session[h] # None /\ session'[h].user = session[h].user /\ session'[h].under = session[h].under
          /\ session[h].loose \subseteq session'[h].loose
          /\ session[h].user = p /\ session[h].under # rebind[r].to => session'[h].loose # {}
    BY <2>1, OutliveType
  <2>3. \A h \in Handles : session'[h] # None => Kept(h)
    BY <1>3, <2>2 DEF Kept, Excused
  <2>4. Minted'
    BY <2>1, <2>3 DEF Minted, Kept
  <2> QED
    BY <1>1, <2>3, <2>4, BindKeeps DEF Begun
<1> QED
  BY <1>4, <1>5, <1>6, <1>7 DEF Rebinder

LEMMA BindMoves ==
  ASSUME TypeInv, NEW s \in Submits, Submission(s)
  PROVE  /\ sub'[s].at \in {"form", "peek", "reserve", "claim"} =>
              \/ Present(s) \/ LoadForm(s)
              \/ sub[s].at \in {"peek", "reserve", "claim"} /\ sub'[s].to = sub[s].to
         /\ sub'[s].at \in Reserved =>
              \/ Claim(s) /\ sub[s].at = "claim" /\ sub'[s].to = sub[s].to /\ sub'[s].under = Row(s).under /\ Row(s) # None
                 /\ sub'[s].excuses = Row(s).loose \union {e \in {"between"} : Pending(Who(s), Row(s).under)}
              \/ /\ sub[s].at \in Reserved
                 /\ sub'[s].to = sub[s].to /\ sub'[s].under = sub[s].under /\ sub'[s].excuses = sub[s].excuses
<1>1. sub \in [Submits -> SubRows]
  BY DEF TypeInv, TypeOK, SubRows
<1>2. CASE Present(s) \/ LoadForm(s)
  <2>1. sub'[s].at \in {"form", "peek", "stale"}
    BY <1>1, <1>2 DEF Present, LoadForm, Move, SubRows
  <2> QED
    BY <1>2, <2>1 DEF Reserved
<1>3. CASE Peek(s) \/ ReservePeek(s) \/ ConsumePeek(s) \/ StorageFails(s) \/ Die(s) \/ Launch(s) \/ Mark(s)
  <2>1. \/ \E place : /\ sub' = [sub EXCEPT ![s].at = place]
                      /\ place \in {"reserve", "claim"} => sub[s].at \in {"peek", "reserve"}
                      /\ place \in Reserved => sub[s].at \in Reserved
                      /\ place \notin {"form", "peek"}
        \/ sub' = [sub EXCEPT ![s].at = "stale", ![s].fault = TRUE]
    BY <1>3 DEF Peek, ReservePeek, ConsumePeek, StorageFails, Die, Launch, Mark, Move, Reserved, ConsumeStale
  <2> QED
    BY <1>1, <2>1 DEF SubRows, Reserved
<1>4. CASE Claim(s)
  <2>1. CASE Move(s, "stale")
    BY <1>1, <2>1 DEF Move, SubRows, Reserved
  <2>2. CASE ~Move(s, "stale")
    <3> DEFINE why == Row(s).loose \union {e \in {"between"} : Pending(Who(s), Row(s).under)}
               rec == [sub[s] EXCEPT !.at = "admit", !.under = Row(s).under, !.excuses = why]
    <3>1. sub[s].at = "claim" /\ Row(s) # None /\ sub' = [sub EXCEPT ![s] = rec]
      BY <1>1, <1>4, <2>2 DEF Claim, Takes, Row
    <3>2. rec.at = "admit" /\ rec.to = sub[s].to /\ rec.under = Row(s).under /\ rec.excuses = why
      BY <1>1 DEF SubRows
    <3> HIDE DEF rec
    <3>3. sub'[s] = rec
      BY <1>1, <3>1
    <3> QED
      BY <1>4, <3>1, <3>2, <3>3
  <2> QED
    BY <2>1, <2>2
<1>5. CASE Spend(s) \/ VerifyOwn(s)
  <2>1. PICK place \in {"accepted", "stale", "verify"} : Move(s, place)
    BY <1>5 DEF Spend, VerifyOwn, ConsumeStale
  <2>2. sub[s].at \in Reserved
    BY <1>5 DEF Spend, VerifyOwn, Reserved
  <2> QED
    BY <1>1, <2>1, <2>2 DEF Move, SubRows
<1>6. CASE Admit(s)
  <2>1. sub[s].at \in Reserved
    BY <1>6 DEF Admit, Reserved
  <2> QED
    BY <1>1, <1>6, <2>1, AdmitShape
<1> QED
  BY <1>2, <1>3, <1>4, <1>5, <1>6 DEF Submission

LEMMA BindSubmission ==
  ASSUME BindInv, NEW s \in Submits, Submission(s)
  PROVE  Minted' /\ Presented' /\ AdmittedUnderOwn'
<1> USE DEF BindInv, TypeInv
<1>1. /\ UNCHANGED <<grant, rebind, start>>
      /\ \A q \in Submits : sub'[q].ask = sub[q].ask /\ (q # s => sub'[q] = sub[q])
  <2>1. UNCHANGED <<grant, rebind>>
    BY DEF Submission, Present, LoadForm, Peek, ReservePeek, Claim, Admit, Launch, Mark,
           ConsumePeek, Spend, VerifyOwn, StorageFails, Die
  <2> QED
    BY <2>1, StepShape
<1>2. \A h \in Handles : session'[h] # None =>
        /\ session[h] # None /\ session'[h].user = session[h].user
        /\ session'[h].under = session[h].under /\ session'[h].loose = session[h].loose
  <2>1. CASE Claiming(s)
    <3>1. sub[s].ask.handle \in Handles /\ session \in [Handles -> Sessions \union {None}]
      BY <2>1, IdType DEF Claiming, Claim, Spend, VerifyOwn, TypeOK
    <3>2. session' = session \/ /\ Row(s) # None
                                /\ \E row : Taken(Row(s), row, Key(s)) /\ session' = [session EXCEPT ![sub[s].ask.handle] = row]
      BY <2>1, ClaimsRow
    <3> QED
      BY <3>1, <3>2 DEF Taken, Row
  <2>2. CASE Reads(s) \/ Dispatching(s)
    BY <2>2 DEF Reads, Present, LoadForm, Peek, ReservePeek, ConsumePeek, StorageFails, Die, Dispatching, Admit, Launch, Mark
  <2> QED
    BY <2>1, <2>2, SubmissionSteps
<1>3. \A h \in Handles : session'[h] # None => Kept(h)
  BY <1>1, <1>2 DEF Kept, Excused, Pending
<1>4. Minted'
  BY <1>1, <1>3 DEF Minted, Kept
<1>5. \A q \in Submits : Who(q)' = Who(q)
  BY <1>1 DEF Who
<1>6. Presented'
  <2> SUFFICES ASSUME NEW q \in Submits, NEW h \in Handles,
                      sub'[q].at \in {"form", "peek", "reserve", "claim"}, Who(q) \in Externals, sub[q].ask.handle = h
               PROVE  /\ Begun(h)
                      /\ session'[h] # None => /\ session[h].user = Who(q)
                                               /\ sub'[q].to = session[h].under \/ Excused(h)
    BY <1>1, <1>3, <1>5 DEF Presented, Kept, Begun
  <2>1. CASE q # s
    BY <1>1, <1>3, <2>1 DEF Presented, Kept
  <2>2. CASE q = s /\ sub[s].at \in {"peek", "reserve", "claim"} /\ sub'[s].to = sub[s].to
    BY <1>3, <2>2 DEF Presented, Kept
  <2>3. CASE q = s /\ LoadForm(s)
    <3>1. sub[s].at = "form" /\ sub'[s].to = sub[s].to
      <4>1. sub \in [Submits -> SubRows]
        BY DEF TypeOK, SubRows
      <4> QED
        BY <2>3, <4>1 DEF LoadForm, Move, SubRows
    <3> QED
      BY <1>3, <2>3, <3>1 DEF Presented, Kept
  <2>4. CASE q = s /\ Present(s)
    <3>1. sub \in [Submits -> SubRows]
      BY DEF TypeOK, SubRows
    <3>2. start[h].at = "done" /\ Who(s) \notin Operators
      BY <2>4, FormsAssumption DEF Present
    <3>3. Row(s) # None /\ Row(s).user = Who(s) /\ sub'[s].to = grant[Who(s)].to
      <4>1. ~Move(s, "stale")
        BY <2>4, <3>1 DEF Move, SubRows
      <4>2. Row(s) # None /\ Row(s).user = Who(s) /\ sub' = [sub EXCEPT ![s].at = "form", ![s].to = grant[Who(s)].to]
        BY <2>4, <3>2, <4>1 DEF Present
      <4> DEFINE rec == [sub[s] EXCEPT !.at = "form", !.to = grant[Who(s)].to]
      <4>3. sub' = [sub EXCEPT ![s] = rec]
        BY <3>1, <4>2
      <4>4. rec.to = grant[Who(s)].to
        BY <3>1 DEF SubRows
      <4> HIDE DEF rec
      <4> QED
        BY <3>1, <4>2, <4>3, <4>4
    <3> QED
      BY <2>4, <3>2, <3>3 DEF Minted, Row, Begun
  <2> QED
    BY <2>1, <2>2, <2>3, <2>4, BindMoves
<1>7. AdmittedUnderOwn'
  <2> SUFFICES ASSUME NEW q \in Submits, sub'[q].at \in Reserved, Who(q) \in Externals
               PROVE  sub'[q].to = sub'[q].under \/ sub'[q].excuses # {}
    BY <1>5 DEF AdmittedUnderOwn
  <2>1. CASE q # s
    BY <1>1, <2>1 DEF AdmittedUnderOwn
  <2>2. CASE /\ q = s /\ sub[s].at \in Reserved
             /\ sub'[s].to = sub[s].to /\ sub'[s].under = sub[s].under /\ sub'[s].excuses = sub[s].excuses
    BY <2>2 DEF AdmittedUnderOwn
  <2>3. CASE /\ q = s /\ sub[s].at = "claim" /\ sub'[s].to = sub[s].to /\ sub'[s].under = Row(s).under /\ Row(s) # None
             /\ sub'[s].excuses = Row(s).loose \union {e \in {"between"} : Pending(Who(s), Row(s).under)}
    <3> DEFINE h == sub[s].ask.handle
    <3>1. h \in Handles
      BY <2>3, IdType
    <3>2. session[h].user = Who(s) /\ (sub[s].to = session[h].under \/ Excused(h))
      BY <2>3, <3>1 DEF Presented, Row
    <3> QED
      BY <2>3, <3>2 DEF Excused, Row
  <2> QED
    BY <2>1, <2>2, <2>3, BindMoves
<1> QED
  BY <1>4, <1>6, <1>7

LEMMA BindNext == BindInv /\ [Next]_vars => BindInv'
<1> SUFFICES ASSUME BindInv, [Next]_vars PROVE BindInv'
  OBVIOUS
<1>1. TypeInv'
  BY TypeNext DEF BindInv
<1>2. CASE UNCHANGED vars
  BY <1>1, <1>2 DEF vars, BindInv, Minted, Presented, AdmittedUnderOwn, Excused, Pending, Begun, Who
<1> QED
  BY <1>1, <1>2, BindDesigner, BindRebinder, BindStart, BindSubmission DEF Next, BindInv

\* An outsider's submission is admitted against the declaration his session was
\* minted under, with the exceptions that are named (src/forms.ts
\* invalidateFormSessions, src/embeds.ts rotateEmbedGrant).
THEOREM AdmissionKeepsDeclaration == Spec => []AdmittedUnderOwn
<1>1. Init => BindInv
  BY TypeInit, BindInit DEF BindInv
<1>2. BindInv => AdmittedUnderOwn
  BY DEF BindInv
<1> QED
  BY <1>1, <1>2, BindNext, PTL DEF Spec

(***************************************************************************)
(* Each key's row is a receipt                                             *)
(***************************************************************************)
\* a step admits an Execution, or marks it dispatched, or leaves it
LEMMA ReceiptMove ==
  ASSUME TypeInv, [Next]_vars, NEW x \in Principals \X Keys
  PROVE  [Receipt(x)!Next]_(Receipt(x)!vars)
<1> USE DEF Receipt!vars
<1>r. /\ execution \in [Principals \X Keys -> Executions \union {None}]
      /\ None \notin Executions
  BY FormsAssumption DEF TypeInv, TypeOK
<1>0. CASE execution'[x] = execution[x]
  BY <1>0
<1>1. ASSUME NEW s \in Submits, Admit(s) PROVE [Receipt(x)!Next]_(Receipt(x)!vars)
  <2>1. Id(s) \in Principals \X Keys /\ sub[s].ask.input \in Inputs
    BY <1>1, IdType DEF Admit
  <2>2. CASE x # Id(s) \/ execution[x] # None
    <3>1. execution'[x] = execution[x]
      BY <1>r, <1>1, <2>1, <2>2 DEF Admit
    <3> QED
      BY <1>0, <3>1
  <2>3. CASE x = Id(s) /\ execution[x] = None
    <3> DEFINE now == [input |-> sub[s].ask.input, dispatched |-> FALSE]
    <3>1. execution'[x] = now
      BY <1>r, <1>1, <2>1, <2>3 DEF Admit
    <3>2. now \in Executions /\ ~now.dispatched
      BY <2>1 DEF Executions
    <3> HIDE DEF now
    <3>3. execution'[x] # None /\ ~execution'[x].dispatched
      BY <1>r, <3>1, <3>2
    <3> QED
      BY <2>3, <3>3 DEF Receipt!Next, Receipt!Receive
  <2> QED
    BY <2>2, <2>3
<1>2. ASSUME NEW s \in Submits, Mark(s) PROVE [Receipt(x)!Next]_(Receipt(x)!vars)
  <2>1. Id(s) \in Principals \X Keys /\ execution[Id(s)] # None
    BY <1>2, IdType DEF Mark, TypeInv, Submitted
  <2>2. CASE x # Id(s) \/ execution' = execution
    <3>1. execution'[x] = execution[x]
      BY <1>r, <1>2, <2>1, <2>2 DEF Mark
    <3> QED
      BY <1>0, <3>1
  <2>3. CASE x = Id(s) /\ execution' = [execution EXCEPT ![x].dispatched = TRUE]
    <3>1. execution[x] \in Executions
      BY <1>r, <2>1, <2>3
    <3>2. execution'[x] = [execution[x] EXCEPT !.dispatched = TRUE]
      BY <1>r, <2>3
    <3>3. /\ execution'[x] \in Executions /\ execution'[x].dispatched
          /\ execution'[x].input = execution[x].input
      BY <3>1, <3>2 DEF Executions
    <3>4. execution'[x] # None /\ execution[x] # None
      BY <1>r, <3>1, <3>3
    <3>5. CASE execution[x].dispatched
      BY <3>3, <3>4, <3>5
    <3>6. CASE ~execution[x].dispatched
      BY <3>3, <3>4, <3>6 DEF Receipt!Next, Receipt!Dispatch
    <3> QED
      BY <3>5, <3>6
  <2> QED
    BY <1>2, <2>2, <2>3 DEF Mark
<1>3. CASE UNCHANGED execution
  BY <1>0, <1>3
<1>4. ASSUME NEW s \in Submits, Submission(s), ~Admit(s), ~Mark(s) PROVE UNCHANGED execution
  BY <1>4 DEF Submission, Present, LoadForm, Peek, ReservePeek, Claim, Launch, ConsumePeek, Spend,
     VerifyOwn, StorageFails, Die
<1>5. ASSUME NEW h \in Handles, Startup(h) PROVE UNCHANGED execution
  BY <1>5 DEF Startup, StartGrant, StartForm, InsertSession, Sweep, Expire
<1>6. ASSUME NEW r \in Rebinds, Rebinder(r) PROVE UNCHANGED execution
  BY <1>6 DEF Rebinder, RebindForm, RebindGrant, RebindWrite, Invalidate, InvalidateFails, RebindFails
<1>7. CASE Designer \/ UNCHANGED vars
  BY <1>3, <1>7 DEF Designer, SaveForm, DeleteForm, Issue, Disable, vars
<1> QED
  BY <1>1, <1>2, <1>3, <1>4, <1>5, <1>6, <1>7 DEF Next

\* However submissions race, are retried and deferred, each user's key has one
\* receipt, of the kind module Executions is proved to keep.
THEOREM SubmissionsAreReceipts == Spec => ImplementsReceipts
<1>1. Init => \A x \in Principals \X Keys : Receipt(x)!Init
  BY DEF Init, Receipt!Init
<1>2. TypeInv /\ [Next]_vars
        => [\A x \in Principals \X Keys : [Receipt(x)!Next]_(Receipt(x)!vars)]_vars
  BY ReceiptMove
<1> QED
  BY <1>1, <1>2, TypeInit, TypeNext, PTL DEF Spec, ImplementsReceipts

=============================================================================
