-------------------------- MODULE Executions_proofs --------------------------
(***************************************************************************)
(* Proofs about Executions, for any number of submits, cancels and repairs *)
(* and any retry policy.                                                   *)
(***************************************************************************)
EXTENDS Executions, TLAPS

USE DEF Active, Terminal, Statuses, OpNames, OpStatus, PreparePoints,
        VendorPoints, Checkpoints, Points, SubmitStates, CancelStates, RepairStates, Engines

(***************************************************************************)
(* Type correctness                                                        *)
(***************************************************************************)
LEMMA AbandonType ==
  ASSUME NEW p \in Points, late \subseteq Points, Abandon(p)
  PROVE  late' \subseteq Points
BY DEF Abandon

\* Whatever terminate() answers, the engine's state and the late points keep their types.
LEMMA TerminateType ==
  ASSUME TypeOK, NEW o, Terminate(o)
  PROVE  /\ engine' \in Engines /\ late' \subseteq Points
         /\ UNCHANGED <<launches, run, tries, failure>>
<1>1. CASE StopInstance
  BY <1>1, AbandonType DEF StopInstance, TypeOK
<1>2. CASE UNCHANGED instance
  BY <1>2 DEF instance, TypeOK
<1> QED
  BY <1>1, <1>2 DEF Terminate

\* A D1 statement of a step keeps the types of the columns it may write.
LEMMA StatementType ==
  ASSUME TypeOK, NEW p, D1Statement(p)
  PROVE  /\ status' \in Statuses /\ started' \in BOOLEAN
         /\ op' \in [OpNames -> OpStatus]
<1> USE DEF TypeOK
<1>1. CASE p = "p.mark" /\ MarkRunning
  <2>1. started' \in BOOLEAN
    BY <1>1 DEF MarkRunning
  <2> QED
    BY <1>1, <2>1 DEF MarkRunning
<1>2. ASSUME NEW name \in OpNames, BeginOperation(name) \/ FinishOperation(name)
      PROVE  /\ status' \in Statuses /\ started' \in BOOLEAN
             /\ op' \in [OpNames -> OpStatus]
  BY <1>2 DEF BeginOperation, FinishOperation
<1>3. CASE PersistRunSuccess
  BY <1>3 DEF PersistRunSuccess
<1>4. CASE FailExecution(failure) \/ FailExecution("Failed")
  BY <1>4 DEF FailExecution, OpsFailed
<1> QED
  BY <1>1, <1>2, <1>3, <1>4 DEF D1Statement

\* Moving the run to a point keeps the types of its position and attempts.
LEMMA GoToType ==
  ASSUME TypeOK, NEW p \in Points, GoTo(p)
  PROVE  /\ run' \in Points /\ tries' \in 0..2
         /\ UNCHANGED <<engine, launches, late>>
<1>1. CASE StepOf(p) = StepOf(run)
  BY <1>1 DEF GoTo, TypeOK
<1>2. CASE StepOf(p) # StepOf(run)
  BY <1>2 DEF GoTo, TypeOK
<1> QED
  BY <1>1, <1>2

\* The cancel batch (cancelExecution) keeps the types of both rows.
LEMMA CancelExecutionType ==
  ASSUME TypeOK, CancelExecution
  PROVE  /\ status' \in Statuses /\ started' \in BOOLEAN
         /\ op' \in [OpNames -> OpStatus]
BY DEF TypeOK, CancelExecution, OpsFailed

\* Whatever the cast, no request has been handled yet.
LEMMA InitRequests ==
  ASSUME Init
  PROVE  /\ sub \in [Submitters -> {"absent", "idle"}]
         /\ can \in [Cancellers -> {"absent", "idle"}]
         /\ rep \in [Repairers -> {"absent", "idle"}]
<1>1. ASSUME NEW sent, NEW cast PROVE Arrives(sent, cast) \in [sent -> {"absent", "idle"}]
  BY DEF Arrives
<1> QED
  BY <1>1 DEF Init

\* The initial state is well typed.
LEMMA TypeInit == Init => TypeOK
<1> SUFFICES ASSUME Init PROVE TypeOK
  OBVIOUS
<1>1. /\ started \in BOOLEAN /\ dispatched \in BOOLEAN /\ expired \in BOOLEAN
  BY DEF Init
<1>2. prior \in [Cancellers -> [status : Active, dispatched : BOOLEAN]]
  BY DEF Init
<1>3. /\ sub \in [Submitters -> SubmitStates] /\ can \in [Cancellers -> CancelStates]
      /\ rep \in [Repairers -> RepairStates] /\ op \in [OpNames -> OpStatus]
  <2>1. op \in [OpNames -> OpStatus]
    BY DEF Init
  <2> QED
    BY <2>1, InitRequests DEF SubmitStates, CancelStates, RepairStates
<1> QED
  BY <1>1, <1>2, <1>3 DEF Init, TypeOK

\* Every action of a request, of the run or of the environment preserves the types.
LEMMA TypeStep == TypeOK /\ [Next]_vars => TypeOK'
<1> SUFFICES ASSUME TypeOK, [Next]_vars PROVE TypeOK'
  OBVIOUS
<1>1. ASSUME NEW s \in Submitters, SubmitInsert(s) PROVE TypeOK'
  BY <1>1 DEF SubmitInsert, TypeOK, Inputs, instance
<1>2. ASSUME NEW s \in Submitters, SubmitRead(s) PROVE TypeOK'
  BY <1>2 DEF SubmitRead, TypeOK, row, instance
<1>3. ASSUME NEW s \in Submitters, SubmitGate(s) PROVE TypeOK'
  BY <1>3 DEF SubmitGate, TypeOK, row, instance
<1>4. ASSUME NEW s \in Submitters, SubmitCreate(s) PROVE TypeOK'
  <2>1. Launch \/ UNCHANGED instance
    BY <1>4 DEF SubmitCreate
  <2>2. /\ engine' \in Engines /\ launches' \in Nat /\ run' \in Points
        /\ tries' \in 0..2 /\ failure' \in {"Failed", "TimedOut"} /\ late' \subseteq Points
    <3>1. CASE UNCHANGED instance
      BY <3>1 DEF instance, TypeOK
    <3>2. CASE Launch /\ engine = "absent"
      <4>1. /\ engine' = "live" /\ launches' = launches + 1 /\ run' = "p.read"
            /\ tries' = 0 /\ failure' = failure /\ late' = late
        BY <3>2 DEF Launch
      <4> QED
        BY <4>1 DEF TypeOK
    <3> QED
      BY <2>1, <3>1, <3>2 DEF Launch
  <2> QED
    BY <1>4, <2>2 DEF SubmitCreate, TypeOK, row
<1>5. ASSUME NEW s \in Submitters, SubmitStamp(s) PROVE TypeOK'
  <2>1. dispatched' \in BOOLEAN
    BY <1>5 DEF SubmitStamp, TypeOK
  <2>2. sub' \in [Submitters -> SubmitStates]
    BY <1>5 DEF SubmitStamp, TypeOK
  <2> QED
    BY <1>5, <2>1, <2>2 DEF SubmitStamp, TypeOK, instance
<1>6. ASSUME NEW c \in Cancellers, CancelRead(c) PROVE TypeOK'
  BY <1>6 DEF CancelRead, TypeOK, row, instance
<1>7. ASSUME NEW c \in Cancellers, CancelMark(c) PROVE TypeOK'
  BY <1>7 DEF CancelMark, TypeOK, instance
<1>8. ASSUME NEW c \in Cancellers, CancelTerminate(c) PROVE TypeOK'
  BY <1>8, TerminateType DEF CancelTerminate, TypeOK, row
<1>9. ASSUME NEW c \in Cancellers, CancelConfirm(c) PROVE TypeOK'
  BY <1>9, CancelExecutionType DEF CancelConfirm, TypeOK, instance
<1>10. ASSUME NEW c \in Cancellers, CancelRollback(c) PROVE TypeOK'
  BY <1>10 DEF CancelRollback, TypeOK, instance
<1>11. ASSUME NEW r \in Repairers, RepairMark(r) PROVE TypeOK'
  BY <1>11 DEF RepairMark, TypeOK, instance
<1>12. ASSUME NEW r \in Repairers, RepairTerminate(r) PROVE TypeOK'
  BY <1>12, TerminateType DEF RepairTerminate, TypeOK, row
<1>13. ASSUME NEW r \in Repairers, RepairConfirm(r) PROVE TypeOK'
  BY <1>13, CancelExecutionType DEF RepairConfirm, TypeOK, instance
<1>14. ASSUME RunRead PROVE TypeOK'
  <2>1. PICK p \in {"fail", "p.mark"} : GoTo(p) /\ UNCHANGED failure
    BY <1>14 DEF RunRead
  <2> QED
    BY <1>14, <2>1, GoToType DEF RunRead, TypeOK, row, requests
<1>15. ASSUME RunStatement PROVE TypeOK'
  <2>1. NextPoint[run] \in Points
    BY <1>15 DEF RunStatement, NextPoint
  <2> QED
    BY <1>15, <2>1, StatementType, GoToType DEF RunStatement, TypeOK, requests
<1>16. ASSUME RunVendorCall PROVE TypeOK'
  <2>1. PICK p \in {"reject", "v.finish"} : GoTo(p) /\ failure' \in {"Failed", "TimedOut"}
    BY <1>16 DEF RunVendorCall, TypeOK
  <2> QED
    BY <1>16, <2>1, GoToType DEF RunVendorCall, TypeOK, row, requests
<1>17. ASSUME RunCheckpoint PROVE TypeOK'
  BY <1>17, StatementType DEF RunCheckpoint, TypeOK, requests
<1>18. ASSUME RunAttemptFails PROVE TypeOK'
  <2>1. late' \subseteq Points
    BY <1>18, AbandonType DEF RunAttemptFails, TypeOK
  <2>2. FirstPoint(run) \in Points /\ RetryLimitForStep(run) \in 0..2
    BY ConstantsAssumption DEF FirstPoint, RetryLimitForStep, TypeOK
  <2>3. /\ engine' \in Engines /\ run' \in Points /\ tries' \in 0..2
        /\ failure' \in {"Failed", "TimedOut"} /\ launches' = launches
    BY <1>18, <2>2 DEF RunAttemptFails, TypeOK
  <2> QED
    BY <1>18, <2>1, <2>3 DEF RunAttemptFails, TypeOK, row, requests
<1>19. ASSUME RunStartFails PROVE TypeOK'
  BY <1>19 DEF RunStartFails, TypeOK, row, requests
<1>20. ASSUME NEW p \in Points, LatePoint(p) PROVE TypeOK'
  <2>1. late' \subseteq Points
    BY <1>20 DEF LatePoint, TypeOK, NextPoint
  <2>2. /\ status' \in Statuses /\ started' \in BOOLEAN
        /\ op' \in [OpNames -> OpStatus]
    BY <1>20, StatementType DEF LatePoint, TypeOK
  <2> QED
    BY <1>20, <2>1, <2>2 DEF LatePoint, TypeOK, requests
<1>21. ASSUME WindowCloses PROVE TypeOK'
  BY <1>21 DEF WindowCloses, TypeOK, instance, requests
<1>22. ASSUME EnginePurge PROVE TypeOK'
  BY <1>22 DEF EnginePurge, TypeOK, row, requests
<1>23. ASSUME RequestDies PROVE TypeOK'
  BY <1>23 DEF RequestDies, TypeOK, row, instance
<1>24. CASE UNCHANGED vars
  BY <1>24 DEF vars, row, instance, requests, TypeOK
<1> QED
  BY <1>1, <1>2, <1>3, <1>4, <1>5, <1>6, <1>7, <1>8, <1>9, <1>10, <1>11, <1>12,
     <1>13, <1>14, <1>15, <1>16, <1>17, <1>18, <1>19, <1>20, <1>21, <1>22, <1>23,
     <1>24
     DEF Next, SubmitNext, CancelNext, RepairNext, RunNext

\* Every variable keeps its type through every step of the code.
THEOREM TypeCorrect == Spec => []TypeOK
BY TypeInit, TypeStep, PTL DEF Spec

(***************************************************************************)
(* What each group of actions may do to the row.                           *)
(***************************************************************************)
\* the run, its faults, late statements, time and the engine's retention
RunSide == \/ RunNext \/ RunAttemptFails \/ RunStartFails
           \/ \E p \in Points : LatePoint(p)
           \/ WindowCloses \/ EnginePurge

\* A checkpoint changes only an active row, and never into Cancelling or Cancelled.
LEMMA StatementRow ==
  ASSUME TypeOK, NEW p, D1Statement(p)
  PROVE  /\ status \notin Active => status' = status
         /\ status \in Active => status' \in Active \union {"Succeeded", "Failed", "TimedOut"}
BY DEF D1Statement, MarkRunning, BeginOperation, FinishOperation,
       PersistRunSuccess, FailExecution, TypeOK

\* The run, its late attempts and the clock touch no request and no marked row.
LEMMA RunSideRow ==
  ASSUME TypeOK, RunSide
  PROVE  /\ UNCHANGED <<sub, can, rep, prior, input, dispatched>>
         /\ status \notin Active => status' = status
         /\ status \in Active => status' \in Active \union {"Succeeded", "Failed", "TimedOut"}
<1>1. CASE RunStatement \/ RunCheckpoint
  BY <1>1, StatementRow DEF RunStatement, RunCheckpoint, requests
<1>2. CASE RunRead \/ RunVendorCall \/ RunAttemptFails \/ RunStartFails \/ EnginePurge
  BY <1>2 DEF RunRead, RunVendorCall, RunAttemptFails, RunStartFails, EnginePurge,
              row, requests
<1>3. ASSUME NEW p \in Points, LatePoint(p)
      PROVE  /\ UNCHANGED <<sub, can, rep, prior, input, dispatched>>
             /\ status \notin Active => status' = status
             /\ status \in Active => status' \in Active \union {"Succeeded", "Failed", "TimedOut"}
  BY <1>3, StatementRow DEF LatePoint, requests
<1>4. CASE WindowCloses
  BY <1>4 DEF WindowCloses, requests
<1> QED
  BY <1>1, <1>2, <1>3, <1>4 DEF RunSide, RunNext

\* A submit only creates the row: it leaves an existing one as it finds it.
LEMMA SubmitRow ==
  ASSUME NEW s \in Submitters, SubmitNext(s)
  PROVE  /\ UNCHANGED <<can, rep, prior>>
         /\ status # "None" => UNCHANGED <<status, input>>
         /\ status = "None" => status' \in {"None", "Pending"}
BY DEF SubmitNext, SubmitInsert, SubmitRead, SubmitGate, SubmitCreate, SubmitStamp, row

(***************************************************************************)
(* The terminal status is final.                                           *)
(***************************************************************************)
LEMMA StatusStep ==
  ASSUME TypeOK, [Next]_vars
  PROVE  /\ status \in Terminal => status' = status
         /\ status # "None" => status' # "None" /\ input' = input
<1>1. ASSUME NEW s \in Submitters, SubmitNext(s)
      PROVE  status # "None" => UNCHANGED <<status, input>>
  BY <1>1, SubmitRow
<1>2. ASSUME NEW c \in Cancellers, CancelNext(c)
      PROVE  /\ status \in Terminal => status' = status
             /\ status # "None" => status' # "None" /\ input' = input
  <2>1. CASE CancelRead(c) \/ CancelTerminate(c)
    BY <2>1 DEF CancelRead, CancelTerminate, row
  <2>2. CASE CancelMark(c)
    BY <2>2 DEF CancelMark
  <2>3. CASE CancelConfirm(c)
    BY <2>3 DEF CancelConfirm, CancelExecution
  <2>4. CASE CancelRollback(c)
    <3>1. prior[c].status \in Active
      BY DEF TypeOK
    <3> QED
      BY <2>4, <3>1 DEF CancelRollback
  <2> QED
    BY <1>2, <2>1, <2>2, <2>3, <2>4 DEF CancelNext
<1>3. ASSUME NEW r \in Repairers, RepairNext(r)
      PROVE  /\ status \in Terminal => status' = status
             /\ status # "None" => status' # "None" /\ input' = input
  BY <1>3 DEF RepairNext, RepairMark, RepairTerminate, RepairConfirm, CancelExecution, row
<1>4. CASE RunSide
  BY <1>4, RunSideRow DEF TypeOK
<1>5. CASE RequestDies \/ UNCHANGED vars
  BY <1>5 DEF RequestDies, vars, row
<1> QED
  BY <1>1, <1>2, <1>3, <1>4, <1>5 DEF Next, RunSide

\* No step of any request, of the run or of an abandoned attempt rewrites a
\* terminal status: the conditional checkpoints of src/executions.ts.
THEOREM TerminalIsForever == Spec => TerminalForever
<1>1. TypeOK /\ [Next]_vars => [(status \in Terminal) => status' = status]_status
  BY StatusStep
<1> QED
  BY <1>1, TypeCorrect, PTL DEF Spec, TerminalForever

(***************************************************************************)
(* One request at a time holds the Cancelling marker, and what it answers  *)
(* stays true.                                                             *)
(***************************************************************************)
CancelInv == TypeOK /\ CancelOwnership /\ AckedCancelSticks

\* The cancel invariant is inductive: only the elected request moves a marked row.
LEMMA CancelInvStep == CancelInv /\ [Next]_vars => CancelInv'
<1> SUFFICES ASSUME CancelInv, [Next]_vars PROVE CancelOwnership' /\ AckedCancelSticks'
  BY TypeStep DEF CancelInv
<1> USE DEF CancelInv, CancelOwnership, OwnerHolders, RepairHolders
<1>1. status = "Cancelled" => status' = "Cancelled"
  BY StatusStep
<1>2. ASSUME UNCHANGED <<can, rep>>, status = "Cancelling" => status' = "Cancelling"
      PROVE  CancelOwnership' /\ AckedCancelSticks'
  BY <1>1, <1>2 DEF AckedCancelSticks, CancelAcked
<1>3. ASSUME NEW s \in Submitters, SubmitNext(s)
      PROVE  CancelOwnership' /\ AckedCancelSticks'
  BY <1>2, <1>3, SubmitRow
<1>4. CASE RunSide
  BY <1>2, <1>4, RunSideRow
<1>5. ASSUME NEW c \in Cancellers, CancelNext(c)
      PROVE  CancelOwnership' /\ AckedCancelSticks'
  <2> can \in [Cancellers -> CancelStates]
    BY DEF TypeOK
  <2>1. CASE CancelRead(c)
    BY <2>1 DEF CancelRead, row, AckedCancelSticks, CancelAcked
  <2>2. CASE CancelMark(c)
    BY <2>2 DEF CancelMark, AckedCancelSticks, CancelAcked
  <2>3. CASE CancelTerminate(c)
    BY <2>3 DEF CancelTerminate, row, AckedCancelSticks, CancelAcked
  <2>4. CASE CancelConfirm(c)
    <3>1. status = "Cancelling" /\ status' = "Cancelled"
      BY <2>4 DEF CancelConfirm, CancelExecution
    <3> QED
      BY <2>4, <3>1 DEF CancelConfirm, AckedCancelSticks, CancelAcked
  <2>5. CASE CancelRollback(c)
    BY <2>5, <1>1 DEF CancelRollback, AckedCancelSticks, CancelAcked
  <2> QED
    BY <1>5, <2>1, <2>2, <2>3, <2>4, <2>5 DEF CancelNext
<1>6. ASSUME NEW r \in Repairers, RepairNext(r)
      PROVE  CancelOwnership' /\ AckedCancelSticks'
  <2> rep \in [Repairers -> RepairStates]
    BY DEF TypeOK
  <2>1. CASE RepairMark(r)
    BY <2>1 DEF RepairMark, AckedCancelSticks, CancelAcked
  <2>2. CASE RepairTerminate(r)
    BY <2>2 DEF RepairTerminate, row, AckedCancelSticks, CancelAcked
  <2>3. CASE RepairConfirm(r)
    <3>1. status = "Cancelling" /\ status' = "Cancelled"
      BY <2>3 DEF RepairConfirm, CancelExecution
    <3> QED
      BY <2>3, <3>1 DEF RepairConfirm, AckedCancelSticks, CancelAcked
  <2> QED
    BY <1>6, <2>1, <2>2, <2>3 DEF RepairNext
<1>7. CASE RequestDies
  BY <1>7 DEF RequestDies, row, AckedCancelSticks, CancelAcked, TypeOK
<1>8. CASE UNCHANGED vars
  BY <1>2, <1>8 DEF vars, row, requests
<1> QED
  BY <1>3, <1>4, <1>5, <1>6, <1>7, <1>8 DEF Next, RunSide

\* Cancel ownership and the finality of an acknowledged cancel hold in every state.
THEOREM CancelSafe == Spec => []CancelInv
<1>1. Init => CancelInv
  <2>1. ASSUME Init PROVE CancelOwnership /\ AckedCancelSticks
    BY <2>1, InitRequests DEF CancelOwnership, OwnerHolders, RepairHolders,
                AckedCancelSticks, CancelAcked
  <2> QED
    BY <2>1, TypeInit DEF CancelInv
<1> QED
  BY <1>1, CancelInvStep, PTL DEF Spec

\* The marker elects one owner among any number of cancels and repairs.
THEOREM OneCancelOwner == Spec => []CancelOwnership
BY CancelSafe, PTL DEF CancelInv

\* cancelled:true is never taken back.
THEOREM AckedCancelsStick == Spec => []AckedCancelSticks
BY CancelSafe, PTL DEF CancelInv

(***************************************************************************)
(* What an accepted submit asked for is what runs.                         *)
(***************************************************************************)
\* strengthened: from its second read of the row on, a submit knows the input
SubmitInv ==
  \A s \in Submitters :
    /\ sub[s] \notin {"absent", "idle"} => status # "None"
    /\ sub[s] \in {"gate", "create", "stamp", "accepted"} => input = InputOf[s]

\* The input a submit has compared stays the input of the row.
LEMMA SubmitInvStep == TypeOK /\ SubmitInv /\ [Next]_vars => SubmitInv'
<1> SUFFICES ASSUME TypeOK, SubmitInv, [Next]_vars PROVE SubmitInv'
  OBVIOUS
<1> USE DEF SubmitInv
<1>1. status # "None" => status' # "None" /\ input' = input
  BY StatusStep
<1>2. ASSUME UNCHANGED sub PROVE SubmitInv'
  BY <1>1, <1>2
<1>3. ASSUME NEW s \in Submitters, SubmitNext(s) PROVE SubmitInv'
  <2> sub \in [Submitters -> SubmitStates]
    BY DEF TypeOK
  <2>1. CASE SubmitInsert(s)
    BY <2>1, <1>1 DEF SubmitInsert
  <2>2. CASE SubmitRead(s)
    BY <2>2, <1>1 DEF SubmitRead, row
  <2>3. CASE SubmitGate(s) \/ SubmitCreate(s)
    BY <2>3, <1>1 DEF SubmitGate, SubmitCreate, row
  <2>4. CASE SubmitStamp(s)
    BY <2>4, <1>1 DEF SubmitStamp
  <2> QED
    BY <1>3, <2>1, <2>2, <2>3, <2>4 DEF SubmitNext
<1>4. ASSUME NEW c \in Cancellers, CancelNext(c) PROVE SubmitInv'
  BY <1>2, <1>4 DEF CancelNext, CancelRead, CancelMark, CancelTerminate,
                    CancelConfirm, CancelRollback
<1>5. ASSUME NEW r \in Repairers, RepairNext(r) PROVE SubmitInv'
  BY <1>2, <1>5 DEF RepairNext, RepairMark, RepairTerminate, RepairConfirm
<1>6. CASE RunSide
  BY <1>2, <1>6, RunSideRow
<1>7. CASE RequestDies
  <2>1. UNCHANGED <<status, input>>
    BY <1>7 DEF RequestDies, row
  <2>2. \A s \in Submitters : sub'[s] = sub[s] \/ (sub[s] \notin {"absent", "idle"} /\ sub'[s] = "dead")
    BY <1>7 DEF RequestDies, TypeOK
  <2> QED
    BY <2>1, <2>2
<1>8. CASE UNCHANGED vars
  BY <1>2, <1>8 DEF vars, requests
<1> QED
  BY <1>3, <1>4, <1>5, <1>6, <1>7, <1>8 DEF Next, RunSide

\* Under any interleaving of submits that share the key, the accepted ones
\* are those whose input the row holds.
THEOREM AcceptedInput == Spec => []AcceptedRunsMyInput
<1>1. Init => SubmitInv
  BY InitRequests DEF Init, SubmitInv
<1>2. SubmitInv => AcceptedRunsMyInput
  BY DEF SubmitInv, AcceptedRunsMyInput
<1> QED
  BY <1>1, <1>2, SubmitInvStep, TypeCorrect, PTL DEF Spec

(***************************************************************************)
(* The engine starts the work at most once.                                *)
(***************************************************************************)
\* strengthened: a launched instance is retained until the window has closed
\* and no submit is still past its window test
LaunchInv ==
  /\ launches \in {0, 1}
  /\ launches = 0 => engine = "absent" /\ run = "p.read" /\ late = {}
  /\ engine = "absent" /\ launches = 1
       => expired /\ \A s \in Submitters : sub[s] # "create"

\* the actions that leave the instance, the window and the creates alone
LEMMA LaunchFrame ==
  ASSUME LaunchInv, UNCHANGED <<engine, launches, expired>>,
         launches = 0 => UNCHANGED <<run, late>>,
         \A s \in Submitters : sub'[s] = "create" => sub[s] = "create" \/ ~expired
  PROVE  LaunchInv'
BY DEF LaunchInv

\* terminate() starts no instance and frees no retained ID.
LEMMA TerminateLaunch ==
  ASSUME LaunchInv, NEW o, Terminate(o), UNCHANGED <<expired, sub>>
  PROVE  LaunchInv'
<1>1. CASE StopInstance
  BY <1>1 DEF StopInstance, LaunchInv
<1>2. CASE UNCHANGED instance
  BY <1>2, LaunchFrame DEF instance
<1> QED
  BY <1>1, <1>2 DEF Terminate

\* An instance was launched once or not at all while its ID is retained or the window open.
LEMMA LaunchInvStep == TypeOK /\ LaunchInv /\ [Next]_vars => LaunchInv'
<1> SUFFICES ASSUME TypeOK, LaunchInv, [Next]_vars PROVE LaunchInv'
  OBVIOUS
<1>1. ASSUME NEW s \in Submitters, SubmitNext(s) PROVE LaunchInv'
  <2> sub \in [Submitters -> SubmitStates]
    BY DEF TypeOK
  <2>1. CASE SubmitInsert(s) \/ SubmitRead(s) \/ SubmitGate(s) \/ SubmitStamp(s)
    BY <2>1, LaunchFrame DEF SubmitInsert, SubmitRead, SubmitGate, SubmitStamp, row, instance
  <2>2. CASE SubmitCreate(s)
    <3>1. \A x \in Submitters : sub'[x] = "create" => sub[x] = "create"
      BY <2>2 DEF SubmitCreate
    <3>2. CASE UNCHANGED instance
      BY <2>2, <3>1, <3>2, LaunchFrame DEF SubmitCreate, row, instance
    <3>3. CASE Launch /\ engine = "absent"
      <4>1. launches = 0
        BY <2>2, <3>3 DEF SubmitCreate, LaunchInv
      <4>2. launches' = launches + 1 /\ engine' = "live"
        BY <3>3 DEF Launch
      <4> QED
        BY <4>1, <4>2 DEF LaunchInv
    <3> QED
      BY <2>2, <3>2, <3>3 DEF SubmitCreate, Launch
  <2> QED
    BY <1>1, <2>1, <2>2 DEF SubmitNext
<1>2. ASSUME NEW c \in Cancellers, CancelNext(c) PROVE LaunchInv'
  <2>1. CASE CancelTerminate(c)
    BY <2>1, TerminateLaunch DEF CancelTerminate, row
  <2>2. CASE CancelRead(c) \/ CancelMark(c) \/ CancelConfirm(c) \/ CancelRollback(c)
    BY <2>2, LaunchFrame DEF CancelRead, CancelMark, CancelConfirm, CancelRollback,
                             row, instance
  <2> QED
    BY <1>2, <2>1, <2>2 DEF CancelNext
<1>3. ASSUME NEW r \in Repairers, RepairNext(r) PROVE LaunchInv'
  <2>1. CASE RepairTerminate(r)
    BY <2>1, TerminateLaunch DEF RepairTerminate, row
  <2>2. CASE RepairMark(r) \/ RepairConfirm(r)
    BY <2>2, LaunchFrame DEF RepairMark, RepairConfirm, instance
  <2> QED
    BY <1>3, <2>1, <2>2 DEF RepairNext
<1>4. ASSUME engine = "live", engine' # "absent", UNCHANGED <<launches, expired, sub>>
      PROVE  LaunchInv'
  BY <1>4 DEF LaunchInv
<1>5. CASE RunRead \/ RunVendorCall \/ RunAttemptFails \/ RunStartFails
  BY <1>4, <1>5 DEF RunRead, RunVendorCall, RunAttemptFails, RunStartFails,
                    GoTo, row, requests
<1>6. CASE RunStatement \/ RunCheckpoint
  BY <1>4, <1>6 DEF RunStatement, RunCheckpoint, GoTo, requests
<1>7. ASSUME NEW p \in Points, LatePoint(p) PROVE LaunchInv'
  BY <1>7 DEF LatePoint, LaunchInv, requests
<1>8. CASE WindowCloses
  BY <1>8 DEF WindowCloses, LaunchInv, instance, requests
<1>9. CASE EnginePurge
  BY <1>9 DEF EnginePurge, LaunchInv, row, requests
<1>10. CASE RequestDies
  BY <1>10, LaunchFrame DEF RequestDies, row, instance, TypeOK
<1>11. CASE UNCHANGED vars
  BY <1>11, LaunchFrame DEF vars, row, instance, requests
<1> QED
  BY <1>1, <1>2, <1>3, <1>5, <1>6, <1>7, <1>8, <1>9, <1>10, <1>11 DEF Next, RunNext

\* Any number of retries of a lost submit start the Saga at most once.
THEOREM OneRun == Spec => []AtMostOneRun
<1>1. Init => LaunchInv
  BY DEF Init, LaunchInv
<1>2. LaunchInv => AtMostOneRun
  BY DEF LaunchInv, AtMostOneRun
<1> QED
  BY <1>1, <1>2, LaunchInvStep, TypeCorrect, PTL DEF Spec

(***************************************************************************)
(* A Succeeded Execution has a Succeeded vendor Operation.                 *)
(***************************************************************************)
\* strengthened: how far the vendor Operation is at each point of the run,
\* and which statements an abandoned attempt can still execute
BackedInv ==
  /\ SuccessIsBacked
  /\ "ok" \in late => run \in {"ok", "fail"}
  /\ "reject" \in late => run \in {"reject", "fail"}
  /\ "fail" \in late => run = "fail"
  /\ run \notin {"reject", "fail"} /\ op["vendor"] = "Failed" => status \in Terminal
  /\ run \in {"v.call", "v.finish"} => op["vendor"] # "none"
  /\ run = "ok" \/ "ok" \in late => op["vendor"] = "Succeeded" \/ status \in Terminal

\* A step that leaves the Operations and the run alone keeps every success backed.
LEMMA BackedFrame ==
  ASSUME BackedInv, UNCHANGED <<op, run, late>>,
         status \in Terminal => status' = status,
         status' = "Succeeded" => status = "Succeeded"
  PROVE  BackedInv'
BY DEF BackedInv, SuccessIsBacked

\* an abandoned attempt leaves its current point behind
LEMMA BackedAbandon ==
  ASSUME BackedInv, UNCHANGED <<op, status, run>>, Abandon(run)
  PROVE  BackedInv'
BY DEF BackedInv, SuccessIsBacked, Abandon

\* Stopping the instance, its attempt left running or not, keeps every success backed.
LEMMA TerminateBacked ==
  ASSUME BackedInv, NEW o, Terminate(o), UNCHANGED <<op, status>>
  PROVE  BackedInv'
<1>1. CASE StopInstance
  BY <1>1, BackedAbandon DEF StopInstance
<1>2. CASE UNCHANGED instance
  BY <1>2, BackedFrame DEF instance
<1> QED
  BY <1>1, <1>2 DEF Terminate

\* a confirmed cancel fails the Running Operations of a row it makes Cancelled
LEMMA ConfirmBacked ==
  ASSUME TypeOK, BackedInv, status = "Cancelling", CancelExecution, UNCHANGED instance
  PROVE  BackedInv'
<1>1. status' = "Cancelled"
  BY DEF CancelExecution
<1>2. op'["vendor"] = IF op["vendor"] = "Running" THEN "Failed" ELSE op["vendor"]
  BY DEF CancelExecution, OpsFailed
<1> QED
  BY <1>1, <1>2 DEF BackedInv, SuccessIsBacked, instance

\* The checkpoint of success is reached only over a Succeeded vendor Operation.
LEMMA BackedInvStep ==
  CancelInv /\ LaunchInv /\ BackedInv /\ [Next]_vars => BackedInv'
<1> SUFFICES ASSUME CancelInv, LaunchInv, BackedInv, [Next]_vars PROVE BackedInv'
  OBVIOUS
<1> TypeOK
  BY DEF CancelInv
<1> op \in [OpNames -> OpStatus]
  BY DEF TypeOK
<1>1. ASSUME NEW s \in Submitters, SubmitNext(s) PROVE BackedInv'
  <2>1. CASE SubmitInsert(s) \/ SubmitRead(s) \/ SubmitGate(s) \/ SubmitStamp(s)
    BY <2>1, BackedFrame DEF SubmitInsert, SubmitRead, SubmitGate, SubmitStamp, row, instance
  <2>2. CASE SubmitCreate(s) /\ UNCHANGED instance
    BY <2>2, BackedFrame DEF SubmitCreate, row, instance
  <2>3. CASE SubmitCreate(s) /\ engine = "absent" /\ Launch
    <3>1. launches = 0 /\ run = "p.read"
      BY <2>3 DEF SubmitCreate, LaunchInv
    <3>2. run' = run /\ late' = late
      BY <2>3, <3>1 DEF Launch
    <3> QED
      BY <2>3, <3>2, BackedFrame DEF SubmitCreate, row
  <2> QED
    BY <1>1, <2>1, <2>2, <2>3 DEF SubmitNext, SubmitCreate, Launch
<1>2. ASSUME NEW c \in Cancellers, CancelNext(c) PROVE BackedInv'
  <2>1. CASE CancelRead(c) \/ CancelMark(c)
    BY <2>1, BackedFrame DEF CancelRead, CancelMark, row, instance
  <2>2. CASE CancelTerminate(c)
    BY <2>2, TerminateBacked DEF CancelTerminate, row
  <2>3. CASE CancelConfirm(c)
    BY <2>3, ConfirmBacked DEF CancelConfirm, CancelInv, CancelOwnership, OwnerHolders
  <2>4. CASE CancelRollback(c)
    <3>1. prior[c].status \in Active
      BY DEF TypeOK
    <3> QED
      BY <2>4, <3>1, BackedFrame DEF CancelRollback, instance
  <2> QED
    BY <1>2, <2>1, <2>2, <2>3, <2>4 DEF CancelNext
<1>3. ASSUME NEW r \in Repairers, RepairNext(r) PROVE BackedInv'
  <2>1. CASE RepairMark(r)
    BY <2>1, BackedFrame DEF RepairMark, instance
  <2>2. CASE RepairTerminate(r)
    BY <2>2, TerminateBacked DEF RepairTerminate, row
  <2>3. CASE RepairConfirm(r)
    BY <2>3, ConfirmBacked DEF RepairConfirm, CancelInv, CancelOwnership, RepairHolders
  <2> QED
    BY <1>3, <2>1, <2>2, <2>3 DEF RepairNext
<1>4. CASE RunRead \/ RunVendorCall
  BY <1>4 DEF RunRead, RunVendorCall, GoTo, BackedInv, SuccessIsBacked, row
<1>5. CASE RunStatement
  <2> late' = late /\ run' = NextPoint[run] /\ D1Statement(run)
    BY <1>5 DEF RunStatement, GoTo
  <2>1. CASE run = "p.mark"
    BY <2>1 DEF D1Statement, MarkRunning, NextPoint, BackedInv, SuccessIsBacked
  <2>2. CASE run = "p.begin"
    BY <2>2 DEF D1Statement, BeginOperation, NextPoint, BackedInv, SuccessIsBacked
  <2>3. CASE run = "p.finish"
    BY <2>3 DEF D1Statement, FinishOperation, NextPoint, BackedInv, SuccessIsBacked
  <2>4. CASE run = "v.begin"
    BY <2>4 DEF D1Statement, BeginOperation, NextPoint, BackedInv, SuccessIsBacked
  <2>5. CASE run = "v.finish"
    BY <2>5 DEF D1Statement, FinishOperation, NextPoint, BackedInv, SuccessIsBacked
  <2> QED
    BY <1>5, <2>1, <2>2, <2>3, <2>4, <2>5 DEF RunStatement, NextPoint
<1>6. ASSUME NEW p, p \in Checkpoints, D1Statement(p), run' = run,
             p = run \/ p \in late, late' \subseteq late
      PROVE  BackedInv'
  <2>1. CASE p = "ok"
    BY <1>6, <2>1 DEF D1Statement, PersistRunSuccess, BackedInv, SuccessIsBacked
  <2>2. CASE p \in {"reject", "fail"}
    <3>1. op'["vendor"] = IF op["vendor"] = "Running" THEN "Failed" ELSE op["vendor"]
      BY <1>6, <2>2 DEF D1Statement, FailExecution, OpsFailed
    <3>2. status' # "Succeeded" \/ status = "Succeeded"
      BY <1>6, <2>2 DEF D1Statement, FailExecution, TypeOK
    <3>3. status \in Terminal => status' = status
      BY <1>6, <2>2 DEF D1Statement, FailExecution
    <3> QED
      BY <1>6, <2>2, <3>1, <3>2, <3>3 DEF BackedInv, SuccessIsBacked
  <2> QED
    BY <1>6, <2>1, <2>2
<1>7. CASE RunCheckpoint
  BY <1>7, <1>6 DEF RunCheckpoint
<1>8. CASE RunAttemptFails
  BY <1>8 DEF RunAttemptFails, Abandon, FirstPoint, BackedInv, SuccessIsBacked, row
<1>9. CASE RunStartFails \/ EnginePurge
  BY <1>9, BackedFrame DEF RunStartFails, EnginePurge, row
<1>10. ASSUME NEW p \in Points, LatePoint(p) PROVE BackedInv'
  <2> run' = run /\ p \in late
    BY <1>10 DEF LatePoint
  <2>1. CASE p \in Checkpoints
    BY <2>1, <1>10, <1>6 DEF LatePoint, NextPoint
  <2>2. CASE p \notin Checkpoints
    <3>1. late' \subseteq late \union {"p.mark", "p.begin", "p.finish", "v.call", "v.finish"}
      BY <2>2, <1>10 DEF LatePoint, NextPoint
    <3>2. status' = status \/ (status \in Active /\ status' \in Active)
      BY <2>2, <1>10 DEF LatePoint, D1Statement, MarkRunning, BeginOperation, FinishOperation
    <3>3. \/ op'["vendor"] = op["vendor"]
          \/ op["vendor"] \in {"none", "Running"} /\ op'["vendor"] \in {"Running", "Succeeded"}
      BY <2>2, <1>10 DEF LatePoint, D1Statement, MarkRunning, BeginOperation, FinishOperation
    <3> QED
      BY <3>1, <3>2, <3>3 DEF BackedInv, SuccessIsBacked
  <2> QED
    BY <2>1, <2>2
<1>11. CASE WindowCloses \/ RequestDies \/ UNCHANGED vars
  BY <1>11, BackedFrame DEF WindowCloses, RequestDies, vars, row, instance
<1> QED
  BY <1>1, <1>2, <1>3, <1>4, <1>5, <1>7, <1>8, <1>9, <1>10, <1>11 DEF Next, RunNext

\* No retry, late callback, failed checkpoint or cancel leaves a Succeeded
\* Execution without a Succeeded vendor Operation.
THEOREM SuccessBacked == Spec => []SuccessIsBacked
<1>1. Init => LaunchInv /\ BackedInv
  BY DEF Init, LaunchInv, BackedInv, SuccessIsBacked
<1>2. BackedInv => SuccessIsBacked
  BY DEF BackedInv
<1> QED
  BY <1>1, <1>2, BackedInvStep, LaunchInvStep, CancelSafe, TypeCorrect, PTL DEF Spec

(***************************************************************************)
(* A confirmed owner cancel stops the run before its next vendor step.     *)
(***************************************************************************)
Stopped(c) == can[c] \in {"confirm", "cancelled"}

\* strengthened: from the engine's answer that confirms an owner cancel on, an
\* instance that is live was launched later, and goes from its read of the row
\* to the failure checkpoint
StopInv == \A c \in Cancellers : Stopped(c) /\ engine = "live" => run \in {"p.read", "fail"}

\* The row of a cancel the engine's answer confirmed is marked or Cancelled.
LEMMA StoppedRow ==
  ASSUME CancelInv, NEW c \in Cancellers, Stopped(c)
  PROVE  status \in {"Cancelling", "Cancelled"}
BY DEF CancelInv, CancelOwnership, AckedCancelSticks, CancelAcked, OwnerHolders, Stopped

\* A step that confirms no cancel and starts or moves no live instance.
LEMMA StopFrame ==
  ASSUME StopInv, \A c \in Cancellers : Stopped(c)' => Stopped(c),
         engine' = "live" => engine = "live" /\ run' = run
  PROVE  StopInv'
BY DEF StopInv

\* terminate() keeps no instance live that it answers it stopped or did not find.
LEMMA TerminateStops ==
  ASSUME TypeOK, NEW o, Terminate(o), NEW before
  PROVE  /\ engine' = "live" => engine = "live" /\ run' = run
         /\ ShouldConfirmCancel(o, before) => engine' # "live"
<1>1. engine' = engine \/ engine' = "terminated"
  BY DEF Terminate, StopInstance, instance
<1>2. o \in {"stopped", "already-settled", "not-found"} => engine' # "live"
  BY DEF Terminate, StopInstance, instance
<1> QED
  BY <1>1, <1>2, TerminateType DEF ShouldConfirmCancel

\* Neither a later launch nor a retry takes the run past its read of the row.
LEMMA StopInvStep == CancelInv /\ StopInv /\ [Next]_vars => StopInv'
<1> SUFFICES ASSUME CancelInv, StopInv, [Next]_vars PROVE StopInv'
  OBVIOUS
<1> TypeOK
  BY DEF CancelInv
<1> /\ can \in [Cancellers -> CancelStates] /\ run \in Points
  BY DEF TypeOK
<1>1. ASSUME NEW s \in Submitters, SubmitNext(s) PROVE StopInv'
  <2> UNCHANGED can
    BY <1>1, SubmitRow
  <2>1. CASE UNCHANGED instance
    BY <2>1, StopFrame DEF Stopped, instance
  <2>2. CASE Launch /\ engine = "absent"
    BY <2>2 DEF Launch, StopInv
  <2> QED
    BY <1>1, <2>1, <2>2 DEF SubmitNext, SubmitInsert, SubmitRead, SubmitGate,
                            SubmitCreate, SubmitStamp, Launch
<1>2. ASSUME NEW c \in Cancellers, CancelNext(c) PROVE StopInv'
  <2>1. CASE CancelTerminate(c)
    <3>1. PICK o \in TerminateOutcomes :
            /\ Terminate(o)
            /\ can' = [can EXCEPT ![c] =
                 IF ShouldConfirmCancel(o, prior[c]) THEN "confirm" ELSE "rollback"]
      BY <2>1 DEF CancelTerminate
    <3>2. CASE ShouldConfirmCancel(o, prior[c])
      BY <3>1, <3>2, TerminateStops DEF StopInv
    <3>3. CASE ~ShouldConfirmCancel(o, prior[c])
      BY <3>1, <3>3, TerminateStops, StopFrame DEF Stopped
    <3> QED
      BY <3>2, <3>3
  <2>2. CASE CancelRead(c) \/ CancelMark(c) \/ CancelConfirm(c) \/ CancelRollback(c)
    BY <2>2, StopFrame DEF CancelRead, CancelMark, CancelConfirm, CancelRollback,
                           Stopped, instance
  <2> QED
    BY <1>2, <2>1, <2>2 DEF CancelNext
<1>3. ASSUME NEW r \in Repairers, RepairNext(r) PROVE StopInv'
  <2>1. CASE RepairTerminate(r)
    BY <2>1, TerminateStops, StopFrame DEF RepairTerminate, Stopped
  <2>2. CASE RepairMark(r) \/ RepairConfirm(r)
    BY <2>2, StopFrame DEF RepairMark, RepairConfirm, Stopped, instance
  <2> QED
    BY <1>3, <2>1, <2>2 DEF RepairNext
<1>4. CASE RunRead
  <2>1. \A c \in Cancellers : Stopped(c) => run' = "fail"
    BY <1>4, StoppedRow DEF RunRead, GoTo
  <2> QED
    BY <1>4, <2>1 DEF RunRead, StopInv, Stopped, requests
<1>5. CASE RunStatement \/ RunVendorCall
  <2>1. engine = "live" /\ run \notin {"p.read", "fail"} /\ UNCHANGED can
    BY <1>5 DEF RunStatement, RunVendorCall, NextPoint, requests
  <2> QED
    BY <2>1 DEF StopInv, Stopped
<1>6. CASE RunCheckpoint \/ RunStartFails \/ EnginePurge
  BY <1>6 DEF RunCheckpoint, RunStartFails, EnginePurge, StopInv
<1>7. CASE RunAttemptFails
  <2>1. engine = "live" /\ UNCHANGED can
    BY <1>7 DEF RunAttemptFails, requests
  <2>2. engine' = "live" => run' \in {FirstPoint(run), "fail"}
    BY <1>7 DEF RunAttemptFails
  <2>3. run \in {"p.read", "fail"} => FirstPoint(run) \in {"p.read", "fail"}
    BY DEF FirstPoint
  <2> QED
    BY <2>1, <2>2, <2>3 DEF StopInv, Stopped
<1>8. ASSUME NEW p \in Points, LatePoint(p) PROVE StopInv'
  BY <1>8, StopFrame DEF LatePoint, Stopped, requests
<1>9. CASE WindowCloses \/ RequestDies \/ UNCHANGED vars
  BY <1>9, StopFrame DEF WindowCloses, RequestDies, vars, instance, requests, Stopped
<1> QED
  BY <1>1, <1>2, <1>3, <1>4, <1>5, <1>6, <1>7, <1>8, <1>9 DEF Next, RunNext

\* Whatever is retried, launched again or lands late, no vendor step begins
\* once an owner was told that its cancel is confirmed.
THEOREM ConfirmedCancelStops == Spec => NoStepAfterConfirmedCancel
<1> DEFINE Step == (\E c \in Cancellers : can[c] = "cancelled")
                     => ~(run # "v.begin" /\ run' = "v.begin")
<1>1. Init => StopInv
  BY DEF Init, StopInv
<1>2. CancelInv /\ StopInv /\ [Next]_vars => [Step]_vars
  <2> SUFFICES ASSUME CancelInv, StopInv, Next, NEW c \in Cancellers, can[c] = "cancelled",
                      run # "v.begin", run' = "v.begin"
               PROVE  FALSE
    OBVIOUS
  <2>1. engine = "live" => run \in {"p.read", "fail"}
    BY DEF StopInv, Stopped
  <2>2. RunNext \/ RunAttemptFails \/ RunStartFails
    <3>1. ASSUME NEW o, Terminate(o) PROVE run' = run
      BY <3>1 DEF Terminate, StopInstance, instance
    <3>2. ASSUME NEW s \in Submitters, SubmitNext(s) PROVE run' # "v.begin"
      BY <3>2 DEF SubmitNext, SubmitInsert, SubmitRead, SubmitGate, SubmitCreate,
                  SubmitStamp, Launch, instance
    <3>3. ASSUME NEW d \in Cancellers, CancelNext(d) PROVE run' = run
      BY <3>1, <3>3 DEF CancelNext, CancelRead, CancelMark, CancelTerminate,
                        CancelConfirm, CancelRollback, instance
    <3>4. ASSUME NEW r \in Repairers, RepairNext(r) PROVE run' = run
      BY <3>1, <3>4 DEF RepairNext, RepairMark, RepairTerminate, RepairConfirm, instance
    <3>5. ASSUME NEW p \in Points, LatePoint(p) PROVE run' = run
      BY <3>5 DEF LatePoint
    <3>6. CASE WindowCloses \/ EnginePurge \/ RequestDies
      BY <3>6 DEF WindowCloses, EnginePurge, RequestDies, instance
    <3> QED
      BY <3>2, <3>3, <3>4, <3>5, <3>6 DEF Next
  <2> QED
    BY <2>1, <2>2 DEF RunNext, RunRead, RunStatement, RunVendorCall, RunCheckpoint,
                      RunAttemptFails, RunStartFails, GoTo, NextPoint, FirstPoint
<1> QED
  BY <1>1, <1>2, StopInvStep, CancelSafe, PTL DEF Spec, NoStepAfterConfirmedCancel

(***************************************************************************)
(* The instance's own success is recorded.                                 *)
(***************************************************************************)
\* strengthened: where the row is at each point of a live run nobody cancelled
RecordedInv ==
  /\ status \notin {"Cancelling", "Cancelled"}
  /\ launches = 0 => status \in {"None", "Pending"}
  /\ engine = "live" /\ run \in {"p.read", "p.mark"} => status \in Active
  /\ engine = "live" /\ run \in {"p.begin", "p.finish", "v.begin", "v.call", "v.finish"}
       => status = "Running"
  /\ engine = "live" /\ run = "ok" => status \in {"Running", "Succeeded"}
  /\ engine = "complete" => status = "Succeeded"

\* A request's step after which no marker was written found none and wrote none.
LEMMA UnmarkedRequests ==
  ASSUME TypeOK, Unmarked',
         \/ \E c \in Cancellers : CancelNext(c)
         \/ \E r \in Repairers : RepairNext(r)
         \/ RequestDies
  PROVE  Unmarked /\ UNCHANGED <<row, instance>>
<1> can \in [Cancellers -> CancelStates] /\ rep \in [Repairers -> RepairStates]
  BY DEF TypeOK
<1> USE DEF Unmarked
<1>1. ASSUME NEW c \in Cancellers, CancelNext(c) PROVE Unmarked /\ UNCHANGED <<row, instance>>
  <2>1. can'[c] \in {"absent", "idle", "mark", "refused"}
    OBVIOUS
  <2>2. CancelRead(c) \/ (CancelMark(c) /\ status \notin Active)
    BY <1>1, <2>1 DEF CancelNext, CancelMark, CancelTerminate, CancelConfirm, CancelRollback
  <2>3. UNCHANGED <<row, instance, rep>>
    BY <2>2 DEF CancelRead, CancelMark, row
  <2>4. can[c] \in {"idle", "mark"} /\ \A d \in Cancellers \ {c} : can'[d] = can[d]
    BY <2>2 DEF CancelRead, CancelMark
  <2> QED
    BY <2>3, <2>4
<1>2. ASSUME NEW r \in Repairers, RepairNext(r) PROVE Unmarked /\ UNCHANGED <<row, instance>>
  <2>1. rep'[r] \in {"absent", "idle"} \/ (rep'[r] = "refused" /\ r \notin ForeignRepairers)
    OBVIOUS
  <2>2. RepairMark(r) /\ status \notin Active
    BY <1>2, <2>1 DEF RepairNext, RepairMark, RepairTerminate, RepairConfirm
  <2>3. UNCHANGED <<row, instance, can>>
    BY <2>2 DEF RepairMark, row
  <2>4. rep[r] = "idle" /\ \A q \in Repairers \ {r} : rep'[q] = rep[q]
    BY <2>2 DEF RepairMark
  <2> QED
    BY <2>3, <2>4
<1>3. CASE RequestDies
  <2>1. UNCHANGED <<row, instance>>
    BY <1>3 DEF RequestDies
  <2>2. UNCHANGED <<can, rep>>
    BY <1>3 DEF RequestDies
  <2> QED
    BY <2>1, <2>2
<1> QED
  BY <1>1, <1>2, <1>3

\* A statement of an abandoned attempt moves the row no further than the run is.
LEMMA LateRecorded ==
  ASSUME TypeOK, LaunchInv, BackedInv, RecordedInv, NEW p \in Points, LatePoint(p)
  PROVE  RecordedInv'
<1> UNCHANGED <<engine, run, launches>> /\ p \in late /\ launches # 0
  BY DEF LatePoint, LaunchInv
<1>1. CASE UNCHANGED status
  BY <1>1 DEF RecordedInv
<1>2. CASE p = "p.mark" /\ MarkRunning
  BY <1>2 DEF MarkRunning, RecordedInv
<1>3. CASE p = "ok" /\ PersistRunSuccess
  BY <1>3 DEF PersistRunSuccess, RecordedInv, BackedInv
<1>4. CASE p \in {"reject", "fail"} /\ (FailExecution(failure) \/ FailExecution("Failed"))
  <2>1. run \in {"reject", "fail"}
    BY <1>4 DEF BackedInv
  <2>2. status' = status \/ (status \in Active /\ status' \in {"Failed", "TimedOut"})
    BY <1>4 DEF FailExecution, TypeOK
  <2> QED
    BY <2>1, <2>2 DEF RecordedInv
<1> QED
  BY <1>1, <1>2, <1>3, <1>4 DEF LatePoint, D1Statement, BeginOperation, FinishOperation

\* While nobody marks a cancel the row follows the run.
LEMMA RecordedInvStep ==
  /\ TypeOK /\ SubmitInv /\ LaunchInv /\ BackedInv
  /\ Unmarked => RecordedInv
  /\ [Next]_vars
  => (Unmarked => RecordedInv)'
<1> SUFFICES ASSUME TypeOK, SubmitInv, LaunchInv, BackedInv, Unmarked => RecordedInv,
                    [Next]_vars, Unmarked'
             PROVE  RecordedInv'
  OBVIOUS
<1> USE DEF RecordedInv
<1>1. CASE \/ \E c \in Cancellers : CancelNext(c)
           \/ \E r \in Repairers : RepairNext(r)
           \/ RequestDies
  BY <1>1, UnmarkedRequests DEF row, instance
<1>2. ASSUME UNCHANGED <<can, rep>> PROVE RecordedInv
  BY <1>2 DEF Unmarked
<1>3. ASSUME NEW s \in Submitters, SubmitNext(s) PROVE RecordedInv'
  <2> RecordedInv
    BY <1>2, <1>3, SubmitRow
  <2>1. CASE SubmitInsert(s)
    BY <2>1 DEF SubmitInsert, instance
  <2>2. CASE SubmitRead(s) \/ SubmitGate(s) \/ SubmitStamp(s) \/ (SubmitCreate(s) /\ UNCHANGED instance)
    BY <2>2 DEF SubmitRead, SubmitGate, SubmitStamp, SubmitCreate, row, instance
  <2>3. CASE SubmitCreate(s) /\ engine = "absent" /\ Launch
    <3>1. status = "Pending"
      BY <2>3 DEF SubmitCreate, SubmitInv, LaunchInv
    <3>2. launches' # 0 /\ engine' = "live" /\ run' = "p.read" /\ status' = status
      BY <2>3 DEF SubmitCreate, Launch, LaunchInv, row
    <3> QED
      BY <3>1, <3>2
  <2> QED
    BY <1>3, <2>1, <2>2, <2>3 DEF SubmitNext, SubmitCreate, Launch
<1>4. CASE RunSide
  <2> RecordedInv
    BY <1>2, <1>4, RunSideRow
  <2>1. CASE RunRead \/ RunVendorCall
    BY <2>1 DEF RunRead, RunVendorCall, GoTo, row
  <2>2. CASE RunStatement
    <3>1. status' = IF run = "p.mark" /\ status = "Pending" THEN "Running" ELSE status
      BY <2>2 DEF RunStatement, D1Statement, MarkRunning, BeginOperation, FinishOperation, NextPoint
    <3>2. UNCHANGED <<engine, launches>> /\ run' = NextPoint[run] /\ engine = "live"
      BY <2>2 DEF RunStatement, GoTo
    <3>3. run \in {"p.mark", "p.begin", "p.finish", "v.begin", "v.finish"} /\ launches # 0
      BY <2>2 DEF RunStatement, NextPoint, LaunchInv
    <3> QED
      BY <3>1, <3>2, <3>3 DEF NextPoint
  <2>3. CASE RunCheckpoint
    <3>1. UNCHANGED <<run, launches>> /\ launches # 0 /\ engine = "live"
      BY <2>3 DEF RunCheckpoint, LaunchInv
    <3>2. CASE run = "ok"
      BY <2>3, <3>1, <3>2 DEF RunCheckpoint, D1Statement, PersistRunSuccess
    <3>3. CASE run \in {"reject", "fail"}
      BY <2>3, <3>1, <3>3 DEF RunCheckpoint, D1Statement, FailExecution, TypeOK
    <3> QED
      BY <2>3, <3>2, <3>3 DEF RunCheckpoint
  <2>4. CASE RunAttemptFails
    <3>1. engine = "live" /\ UNCHANGED <<launches, status>>
      BY <2>4 DEF RunAttemptFails, row
    <3>2. \/ engine' = "live" /\ run' \in {FirstPoint(run), "fail"}
          \/ engine' = "errored"
      BY <2>4 DEF RunAttemptFails
    <3>3. run \in Points
      BY DEF TypeOK
    <3> QED
      BY <3>1, <3>2, <3>3 DEF FirstPoint
  <2>5. CASE \E p \in Points : LatePoint(p)
    BY <2>5, LateRecorded
  <2>6. CASE RunStartFails \/ WindowCloses \/ EnginePurge
    BY <2>6 DEF RunStartFails, WindowCloses, EnginePurge, row, instance
  <2> QED
    BY <1>4, <2>1, <2>2, <2>3, <2>4, <2>5, <2>6 DEF RunSide, RunNext
<1>5. CASE UNCHANGED vars
  BY <1>2, <1>5 DEF vars, row, instance, requests
<1> QED
  BY <1>1, <1>3, <1>4, <1>5 DEF Next, RunSide

\* Whatever is retried or lands late, an Execution nobody cancelled whose
\* instance completed is Succeeded.
THEOREM NativeSuccessRecorded == Spec => []NativeSuccessIsRecorded
<1>1. Init => SubmitInv /\ LaunchInv /\ BackedInv /\ (Unmarked => RecordedInv)
  <2>1. Init => SubmitInv
    BY InitRequests DEF Init, SubmitInv
  <2>2. Init => LaunchInv /\ BackedInv /\ RecordedInv
    BY DEF Init, LaunchInv, BackedInv, SuccessIsBacked, RecordedInv
  <2> QED
    BY <2>1, <2>2
<1>2. (Unmarked => RecordedInv) => NativeSuccessIsRecorded
  BY DEF RecordedInv, NativeSuccessIsRecorded
<1>3. CancelInv => TypeOK
  BY DEF CancelInv
<1> QED
  BY <1>1, <1>2, <1>3, RecordedInvStep, SubmitInvStep, LaunchInvStep, BackedInvStep,
     CancelSafe, PTL DEF Spec

(***************************************************************************)
(* A live run uses itself up.                                              *)
(***************************************************************************)
\* Effort is a natural number: it cannot be used up for ever.
LEMMA EffortType == TypeOK => Effort \in Nat
<1> SUFFICES ASSUME TypeOK PROVE Effort \in Nat
  OBVIOUS
<1>1. run \in Points /\ tries \in 0..2
  BY DEF TypeOK
<1>2. StepsAhead(run) \in 0..3 /\ PointsAhead(run) \in 0..3
  BY <1>1 DEF StepsAhead, PointsAhead
<1> QED
  BY <1>1, <1>2 DEF Effort

\* Going on to a point that is nearer the end of the run costs effort: another
\* step pays for the attempts it starts with.
LEMMA GoToCosts ==
  ASSUME TypeOK, NEW p \in Points, GoTo(p),
         \/ StepsAhead(p) < StepsAhead(run)
         \/ StepOf(p) = StepOf(run) /\ PointsAhead(p) < PointsAhead(run)
  PROVE  Effort' < Effort
<1>1. run \in Points /\ tries \in 0..2 /\ run' = p
  BY DEF TypeOK, GoTo
<1>2. StepsAhead(run) \in 0..3 /\ PointsAhead(run) \in 0..3
  BY <1>1 DEF StepsAhead, PointsAhead
<1>3. StepsAhead(p) \in 0..3 /\ PointsAhead(p) \in 0..3
  BY DEF StepsAhead, PointsAhead
<1>4. Effort' = 16 * StepsAhead(p) + 4 * (2 - tries') + PointsAhead(p)
  BY <1>1 DEF Effort
<1>5. CASE StepsAhead(p) < StepsAhead(run)
  <2>1. tries' \in 0..2
    BY <1>1 DEF GoTo
  <2> QED
    BY <1>1, <1>2, <1>3, <1>4, <1>5, <2>1 DEF Effort
<1>6. CASE StepOf(p) = StepOf(run) /\ PointsAhead(p) < PointsAhead(run)
  <2>1. tries' = tries
    BY <1>6 DEF GoTo
  <2>2. StepsAhead(p) = StepsAhead(run)
    BY <1>1, <1>6 DEF StepOf, StepsAhead
  <2> QED
    BY <1>1, <1>2, <1>3, <1>4, <1>6, <2>1, <2>2 DEF Effort
<1> QED
  BY <1>5, <1>6

\* A failed attempt costs effort too, whether the step or the catch comes next.
LEMMA RetryCosts ==
  ASSUME TypeOK, RunAttemptFails, engine' = "live"
  PROVE  Effort' < Effort
<1>1. run \in Points /\ tries \in 0..2 /\ RetryLimitForStep(run) \in 0..2
  BY ConstantsAssumption DEF TypeOK, RetryLimitForStep
<1>2. StepsAhead(run) \in 0..3 /\ PointsAhead(run) \in 0..3
  BY <1>1 DEF StepsAhead, PointsAhead
<1>3. CASE tries < RetryLimitForStep(run)
  <2>1. run' = FirstPoint(run) /\ tries' = tries + 1
    BY <1>3 DEF RunAttemptFails
  <2>2. /\ StepsAhead(FirstPoint(run)) = StepsAhead(run)
        /\ PointsAhead(FirstPoint(run)) \in PointsAhead(run)..(PointsAhead(run) + 3)
    BY <1>1 DEF FirstPoint, StepsAhead, PointsAhead
  <2>3. Effort' = 16 * StepsAhead(FirstPoint(run)) + 4 * (2 - (tries + 1))
                  + PointsAhead(FirstPoint(run))
    BY <2>1 DEF Effort
  <2> QED
    BY <1>1, <1>2, <2>2, <2>3 DEF Effort
<1>4. CASE ~(tries < RetryLimitForStep(run))
  <2>1. run # "fail" /\ run' = "fail" /\ tries' = 0
    BY <1>4 DEF RunAttemptFails
  <2>2. StepsAhead(run) > 0
    BY <1>1, <2>1 DEF StepsAhead
  <2>3. Effort' = 8
    BY <2>1 DEF Effort, StepsAhead, PointsAhead
  <2> QED
    BY <1>1, <1>2, <2>2, <2>3 DEF Effort
<1> QED
  BY <1>3, <1>4

\* No request, late statement or clock moves a live run, and its own moves all
\* cost effort.
THEOREM RunsEnd == Spec => RunNeverCircles
<1>1. ASSUME TypeOK, [Next]_vars, engine = "live", engine' = "live"
      PROVE  UNCHANGED <<run, tries>> \/ Effort' < Effort
  <2>1. ASSUME NEW s \in Submitters, SubmitNext(s) PROVE UNCHANGED <<run, tries>>
    BY <1>1, <2>1 DEF SubmitNext, SubmitInsert, SubmitRead, SubmitGate, SubmitCreate,
                      SubmitStamp, Launch, instance
  <2>2. ASSUME NEW c \in Cancellers, CancelNext(c) PROVE UNCHANGED <<run, tries>>
    BY <1>1, <2>2, TerminateType DEF CancelNext, CancelRead, CancelMark, CancelTerminate,
                                     CancelConfirm, CancelRollback, instance
  <2>3. ASSUME NEW r \in Repairers, RepairNext(r) PROVE UNCHANGED <<run, tries>>
    BY <1>1, <2>3, TerminateType DEF RepairNext, RepairMark, RepairTerminate, RepairConfirm,
                                     instance
  <2>4. CASE RunRead
    <3>1. PICK p \in {"fail", "p.mark"} : GoTo(p)
      BY <2>4 DEF RunRead
    <3>2. \/ StepsAhead(p) < StepsAhead(run)
          \/ StepOf(p) = StepOf(run) /\ PointsAhead(p) < PointsAhead(run)
      BY <2>4 DEF RunRead, StepsAhead, PointsAhead, StepOf
    <3> QED
      BY <1>1, <3>1, <3>2, GoToCosts
  <2>5. CASE RunStatement
    <3>1. /\ run \in {"p.mark", "p.begin", "p.finish", "v.begin", "v.finish"}
          /\ GoTo(NextPoint[run]) /\ NextPoint[run] \in Points
      BY <2>5 DEF RunStatement, NextPoint
    <3>2. \/ StepsAhead(NextPoint[run]) < StepsAhead(run)
          \/ /\ StepOf(NextPoint[run]) = StepOf(run)
             /\ PointsAhead(NextPoint[run]) < PointsAhead(run)
      BY <3>1 DEF NextPoint, StepsAhead, PointsAhead, StepOf
    <3> QED
      BY <1>1, <3>1, <3>2, GoToCosts
  <2>6. CASE RunVendorCall
    <3>1. PICK p \in {"v.finish", "reject"} : GoTo(p)
      BY <2>6 DEF RunVendorCall
    <3>2. \/ StepsAhead(p) < StepsAhead(run)
          \/ StepOf(p) = StepOf(run) /\ PointsAhead(p) < PointsAhead(run)
      BY <2>6 DEF RunVendorCall, StepsAhead, PointsAhead, StepOf
    <3> QED
      BY <1>1, <3>1, <3>2, GoToCosts
  <2>7. CASE RunAttemptFails
    BY <1>1, <2>7, RetryCosts
  <2>8. CASE RunCheckpoint \/ RunStartFails \/ EnginePurge
    BY <1>1, <2>8 DEF RunCheckpoint, RunStartFails, EnginePurge
  <2>9. ASSUME NEW p \in Points, LatePoint(p) PROVE UNCHANGED <<run, tries>>
    BY <2>9 DEF LatePoint
  <2>10. CASE WindowCloses \/ RequestDies \/ UNCHANGED vars
    BY <2>10 DEF WindowCloses, RequestDies, vars, instance
  <2> QED
    BY <1>1, <2>1, <2>2, <2>3, <2>4, <2>5, <2>6, <2>7, <2>8, <2>9, <2>10 DEF Next, RunNext
<1>2. TypeOK /\ [Next]_vars
        => [engine = "live" /\ engine' = "live"
              => UNCHANGED <<run, tries>> \/ Effort' < Effort]_vars
  BY <1>1
<1> QED
  BY <1>2, TypeCorrect, PTL DEF Spec, RunNeverCircles

(***************************************************************************)
(* Executions implements ExecutionOutcome.                                 *)
(***************************************************************************)
OutcomeNow == IF status = "None" THEN "none"
              ELSE IF status \in Terminal THEN status ELSE "active"
AcceptedNow == {s \in Submitters : sub[s] = "accepted"}
AckedNow == {c \in Cancellers : can[c] = "cancelled"}
            \union {r \in Repairers : rep[r] = "cancelled"}

\* a step that shows no caller anything
LEMMA OutcomeStutter ==
  ASSUME UNCHANGED <<OutcomeNow, input, AcceptedNow, AckedNow>>
  PROVE  [Outcome!Next]_(Outcome!vars)
BY DEF OutcomeNow, AcceptedNow, AckedNow, Outcome!vars

\* Every step of the code is a step of ExecutionOutcome or leaves the outcome as it is.
LEMMA OutcomeStep ==
  CancelInv /\ SubmitInv /\ [Next]_vars => [Outcome!Next]_(Outcome!vars)
<1> SUFFICES ASSUME CancelInv, SubmitInv, [Next]_vars
             PROVE  [Outcome!Next]_(Outcome!vars)
  OBVIOUS
<1> TypeOK
  BY DEF CancelInv
<1> /\ sub \in [Submitters -> SubmitStates] /\ can \in [Cancellers -> CancelStates]
    /\ rep \in [Repairers -> RepairStates]
  BY DEF TypeOK
<1>1. ASSUME NEW s \in Submitters, SubmitNext(s) PROVE [Outcome!Next]_(Outcome!vars)
  <2>0. UNCHANGED AckedNow
    BY <1>1, SubmitRow DEF AckedNow
  <2>1. CASE SubmitInsert(s)
    <3>1. UNCHANGED AcceptedNow
      BY <2>1 DEF SubmitInsert, AcceptedNow
    <3>2. CASE status = "None"
      BY <2>0, <2>1, <3>1, <3>2
         DEF SubmitInsert, AcceptedNow, AckedNow, Outcome!Next, Outcome!Receive
    <3>3. CASE status # "None"
      BY <2>0, <2>1, <3>1, <3>3, OutcomeStutter DEF SubmitInsert, OutcomeNow
    <3> QED
      BY <3>2, <3>3
  <2>2. ASSUME UNCHANGED <<status, input>>, AcceptedNow' = AcceptedNow \union {s},
               input = InputOf[s], status # "None"
        PROVE  [Outcome!Next]_(Outcome!vars)
    BY <2>0, <2>2 DEF AcceptedNow, AckedNow, Outcome!Next, Outcome!Accept
  <2>3. ASSUME UNCHANGED <<status, input, AcceptedNow>> PROVE [Outcome!Next]_(Outcome!vars)
    BY <2>0, <2>3, OutcomeStutter DEF OutcomeNow
  <2>4. CASE SubmitRead(s) /\ sub'[s] = "accepted"
    BY <2>2, <2>4 DEF SubmitRead, AcceptedNow, SubmitInv, row
  <2>5. CASE SubmitRead(s) /\ sub'[s] # "accepted"
    BY <2>3, <2>5 DEF SubmitRead, AcceptedNow, row
  <2>6. CASE SubmitGate(s) \/ SubmitCreate(s)
    BY <2>3, <2>6 DEF SubmitGate, SubmitCreate, AcceptedNow, row
  <2>7. CASE SubmitStamp(s) /\ sub'[s] = "accepted"
    BY <2>2, <2>7 DEF SubmitStamp, AcceptedNow, SubmitInv
  <2>8. CASE SubmitStamp(s) /\ sub'[s] # "accepted"
    BY <2>3, <2>8 DEF SubmitStamp, AcceptedNow
  <2> QED
    BY <1>1, <2>1, <2>4, <2>5, <2>6, <2>7, <2>8 DEF SubmitNext
<1>2. ASSUME NEW x \in Cancellers \union Repairers,
             status = "Cancelling", status' = "Cancelled", UNCHANGED <<input, sub>>,
             AckedNow' = AckedNow \union {x}
      PROVE  [Outcome!Next]_(Outcome!vars)
  BY <1>2 DEF AckedNow, Outcome!Next, Outcome!Cancel
<1>3. ASSUME status \notin Terminal, status # "None", status' \notin Terminal,
             status' # "None", UNCHANGED <<input, sub, AckedNow>>
      PROVE  [Outcome!Next]_(Outcome!vars)
  BY <1>3, OutcomeStutter DEF OutcomeNow, AcceptedNow
<1>4. ASSUME UNCHANGED <<status, input, sub, AckedNow>>
      PROVE  [Outcome!Next]_(Outcome!vars)
  BY <1>4, OutcomeStutter DEF OutcomeNow, AcceptedNow
<1>5. ASSUME NEW c \in Cancellers, CancelNext(c) PROVE [Outcome!Next]_(Outcome!vars)
  <2>1. CASE CancelRead(c) \/ CancelTerminate(c)
    BY <1>4, <2>1 DEF CancelRead, CancelTerminate, row, AckedNow
  <2>2. CASE CancelMark(c)
    BY <1>3, <1>4, <2>2 DEF CancelMark, AckedNow
  <2>3. CASE CancelConfirm(c)
    <3>1. status = "Cancelling"
      BY <2>3 DEF CancelConfirm, CancelInv, CancelOwnership, OwnerHolders
    <3> QED
      BY <1>2, <2>3, <3>1 DEF CancelConfirm, CancelExecution, AckedNow
  <2>4. CASE CancelRollback(c)
    <3>1. prior[c].status \in Active
      BY DEF TypeOK
    <3> QED
      BY <1>3, <1>4, <2>4, <3>1 DEF CancelRollback, AckedNow
  <2> QED
    BY <1>5, <2>1, <2>2, <2>3, <2>4 DEF CancelNext
<1>6. ASSUME NEW r \in Repairers, RepairNext(r) PROVE [Outcome!Next]_(Outcome!vars)
  <2>1. CASE RepairTerminate(r)
    BY <1>4, <2>1 DEF RepairTerminate, row, AckedNow
  <2>2. CASE RepairMark(r)
    BY <1>3, <1>4, <2>2 DEF RepairMark, AckedNow
  <2>3. CASE RepairConfirm(r)
    <3>1. status = "Cancelling"
      BY <2>3 DEF RepairConfirm, CancelInv, CancelOwnership, RepairHolders
    <3> QED
      BY <1>2, <2>3, <3>1 DEF RepairConfirm, CancelExecution, AckedNow
  <2> QED
    BY <1>6, <2>1, <2>2, <2>3 DEF RepairNext
<1>7. CASE RunSide
  <2>1. UNCHANGED <<input, sub, AcceptedNow, AckedNow>>
    BY <1>7, RunSideRow DEF AcceptedNow, AckedNow
  <2>2. CASE status' = status \/ (status \in Active /\ status' \in Active)
    BY <2>1, <2>2, <1>3, <1>4
  <2>3. CASE status \in Active /\ status' \in {"Succeeded", "Failed", "TimedOut"}
    BY <2>1, <2>3 DEF AcceptedNow, AckedNow, Outcome!Next, Outcome!Complete
  <2> QED
    BY <1>7, <2>2, <2>3, RunSideRow
<1>8. CASE RequestDies
  <2>1. UNCHANGED <<status, input>>
    BY <1>8 DEF RequestDies, row
  <2>2. UNCHANGED <<AcceptedNow, AckedNow>>
    BY <1>8 DEF RequestDies, AcceptedNow, AckedNow
  <2> QED
    BY <2>1, <2>2, OutcomeStutter DEF OutcomeNow
<1>9. CASE UNCHANGED vars
  BY <1>4, <1>9 DEF vars, row, requests, AckedNow
<1> QED
  BY <1>1, <1>5, <1>6, <1>7, <1>8, <1>9 DEF Next, RunSide

\* Submits, cancels, repairs, the run and every fault together implement the
\* write-once outcome their callers see.
THEOREM Implementation == Spec => ImplementsOutcome
<1>1. Init => Outcome!Init
  BY InitRequests DEF Init, Outcome!Init
<1>2. Init => SubmitInv
  BY InitRequests DEF Init, SubmitInv
<1> QED
  BY <1>1, <1>2, OutcomeStep, SubmitInvStep, CancelSafe, TypeCorrect, PTL
     DEF Spec, ImplementsOutcome, Outcome!Spec

(***************************************************************************)
(* Executions implements ExecutionRow.                                     *)
(***************************************************************************)
\* strengthened: a row or a roll back that is past Pending, and a submit about
\* to stamp, have a launch behind them
RowInv ==
  /\ launches = 0 => status \in {"None", "Pending", "Cancelling", "Cancelled"}
  /\ \A c \in Cancellers : prior[c].status = "Running" => launches # 0
  /\ \A s \in Submitters : sub[s] = "stamp" => launches # 0

\* What the run, its late attempts and the clock may do to the row: all that
\* they do follows a launch.
LEMMA RunSideMoves ==
  ASSUME TypeOK, LaunchInv, RunSide
  PROVE  /\ UNCHANGED <<sub, can, rep, prior, input, dispatched, launches>>
         /\ \/ status' = status
            \/ launches # 0 /\ status = "Pending" /\ status' = "Running"
            \/ /\ launches # 0 /\ status \in Active
               /\ status' \in {"Succeeded", "Failed", "TimedOut"}
<1>1. UNCHANGED <<sub, can, rep, prior, input, dispatched>>
  BY RunSideRow
<1>2. ASSUME NEW p, D1Statement(p)
      PROVE  \/ status' = status
             \/ status = "Pending" /\ status' = "Running"
             \/ status \in Active /\ status' \in {"Succeeded", "Failed", "TimedOut"}
  BY <1>2 DEF D1Statement, MarkRunning, BeginOperation, FinishOperation,
              PersistRunSuccess, FailExecution, TypeOK
<1>3. CASE RunStatement \/ RunCheckpoint
  <2>1. launches' = launches /\ launches # 0 /\ D1Statement(run)
    BY <1>3 DEF RunStatement, RunCheckpoint, GoTo, LaunchInv
  <2> QED
    BY <1>1, <1>2, <2>1
<1>4. ASSUME NEW p \in Points, LatePoint(p)
      PROVE  launches' = launches /\ launches # 0 /\ (D1Statement(p) \/ status' = status)
  BY <1>4 DEF LatePoint, LaunchInv
<1>5. CASE RunRead \/ RunVendorCall \/ RunAttemptFails \/ RunStartFails \/ EnginePurge \/ WindowCloses
  BY <1>1, <1>5 DEF RunRead, RunVendorCall, RunAttemptFails, RunStartFails, EnginePurge,
                    WindowCloses, GoTo, row, instance
<1> QED
  BY <1>1, <1>2, <1>3, <1>4, <1>5 DEF RunSide, RunNext

\* terminate() launches nothing.
LEMMA TerminateLaunches ==
  ASSUME NEW o, Terminate(o)
  PROVE  launches' = launches
BY DEF Terminate, StopInstance, instance

\* No step writes a status, remembers one or stamps ahead of the launch.
LEMMA RowInvStep == TypeOK /\ LaunchInv /\ RowInv /\ [Next]_vars => RowInv'
<1> SUFFICES ASSUME TypeOK, LaunchInv, RowInv, [Next]_vars PROVE RowInv'
  OBVIOUS
<1> USE DEF RowInv
<1> /\ sub \in [Submitters -> SubmitStates] /\ launches \in {0, 1}
    /\ prior \in [Cancellers -> [status : Active, dispatched : BOOLEAN]]
  BY DEF TypeOK, LaunchInv
<1>1. ASSUME NEW s \in Submitters, SubmitNext(s) PROVE RowInv'
  <2>1. CASE SubmitInsert(s)
    BY <2>1 DEF SubmitInsert, instance
  <2>2. CASE SubmitRead(s) \/ SubmitGate(s) \/ SubmitStamp(s)
    BY <2>2 DEF SubmitRead, SubmitGate, SubmitStamp, row, instance
  <2>3. CASE SubmitCreate(s) /\ Launch
    <3>1. launches' # 0
      BY <2>3 DEF Launch, LaunchInv, instance
    <3> QED
      BY <2>3, <3>1 DEF SubmitCreate, row
  <2>4. CASE SubmitCreate(s) /\ UNCHANGED instance /\ sub'[s] # "stamp"
    BY <2>4 DEF SubmitCreate, row, instance
  <2> QED
    BY <1>1, <2>1, <2>2, <2>3, <2>4 DEF SubmitNext, SubmitCreate
<1>2. ASSUME NEW c \in Cancellers, CancelNext(c) PROVE RowInv'
  <2>1. CASE CancelRead(c)
    BY <2>1 DEF CancelRead, row, instance
  <2>2. CASE CancelMark(c)
    BY <2>2 DEF CancelMark, instance
  <2>3. CASE CancelTerminate(c)
    BY <2>3, TerminateLaunches DEF CancelTerminate, row
  <2>4. CASE CancelConfirm(c)
    BY <2>4 DEF CancelConfirm, CancelExecution, instance
  <2>5. CASE CancelRollback(c)
    BY <2>5 DEF CancelRollback, instance
  <2> QED
    BY <1>2, <2>1, <2>2, <2>3, <2>4, <2>5 DEF CancelNext
<1>3. ASSUME NEW r \in Repairers, RepairNext(r) PROVE RowInv'
  BY <1>3, TerminateLaunches DEF RepairNext, RepairMark, RepairTerminate, RepairConfirm,
                                 CancelExecution, row, instance
<1>4. CASE RunSide
  BY <1>4, RunSideMoves
<1>5. CASE RequestDies
  <2>1. UNCHANGED <<status, launches, prior>>
    BY <1>5 DEF RequestDies, row, instance
  <2>2. \A s \in Submitters : sub'[s] = "stamp" => sub[s] = "stamp"
    BY <1>5 DEF RequestDies
  <2> QED
    BY <2>1, <2>2
<1>6. CASE UNCHANGED vars
  BY <1>6 DEF vars, row, instance, requests
<1> QED
  BY <1>1, <1>2, <1>3, <1>4, <1>5, <1>6 DEF Next, RunSide

\* Every step of the code, seen from the row, is a step of ExecutionRow or none.
LEMMA RowStep ==
  ASSUME CancelInv, SubmitInv, LaunchInv, RowInv, [Next]_vars
  PROVE  [Row!Next]_(Row!vars)
<1> TypeOK /\ launches \in {0, 1}
  BY DEF CancelInv, LaunchInv
<1> USE DEF Row!vars
<1>1. ASSUME UNCHANGED <<status, launches, dispatched>> PROVE [Row!Next]_(Row!vars)
  BY <1>1
<1>2. ASSUME status \in Active, status' = "Cancelling", UNCHANGED <<launches, dispatched>>
      PROVE  [Row!Next]_(Row!vars)
  BY <1>2 DEF Row!Next, Row!CancelMarks
<1>3. ASSUME status = "Cancelling", UNCHANGED <<launches, dispatched>>,
             \/ status' \in {"Cancelled", "Pending"}
             \/ status' = "Running" /\ launches # 0
      PROVE  [Row!Next]_(Row!vars)
  BY <1>3 DEF Row!Next, Row!CancelEnds
<1>4. ASSUME NEW s \in Submitters, SubmitNext(s) PROVE [Row!Next]_(Row!vars)
  <2>1. CASE SubmitInsert(s)
    BY <1>1, <2>1 DEF SubmitInsert, instance, Row!Next, Row!Insert
  <2>2. CASE SubmitRead(s) \/ SubmitGate(s)
    BY <1>1, <2>2 DEF SubmitRead, SubmitGate, row, instance
  <2>3. CASE SubmitCreate(s) /\ UNCHANGED instance
    BY <1>1, <2>3 DEF SubmitCreate, row, instance
  <2>4. CASE SubmitCreate(s) /\ engine = "absent" /\ Launch
    <3>1. status # "None" /\ launches' = launches + 1 /\ UNCHANGED <<status, dispatched>>
      BY <2>4 DEF SubmitCreate, SubmitInv, Launch, row
    <3>2. status \in Statuses \ {"None"} /\ (launches' > 0) = TRUE
      BY <3>1 DEF TypeOK
    <3> QED
      BY <3>1, <3>2 DEF Row!Next, Row!Launch
  <2>5. CASE SubmitStamp(s)
    <3>1. launches > 0 /\ UNCHANGED <<status, launches>>
      BY <2>5 DEF SubmitStamp, RowInv, instance
    <3>2. CASE dispatched' = TRUE
      BY <3>1, <3>2 DEF Row!Next, Row!Stamp
    <3>3. CASE UNCHANGED dispatched
      BY <1>1, <3>1, <3>3
    <3> QED
      BY <2>5, <3>2, <3>3 DEF SubmitStamp
  <2> QED
    BY <1>4, <2>1, <2>2, <2>3, <2>4, <2>5 DEF SubmitNext, SubmitCreate, Launch
<1>5. ASSUME NEW c \in Cancellers, CancelNext(c) PROVE [Row!Next]_(Row!vars)
  <2>1. CASE CancelRead(c)
    BY <1>1, <2>1 DEF CancelRead, row, instance
  <2>2. CASE CancelMark(c)
    BY <1>1, <1>2, <2>2 DEF CancelMark, instance
  <2>3. CASE CancelTerminate(c)
    BY <1>1, <2>3, TerminateLaunches DEF CancelTerminate, row
  <2>4. CASE CancelConfirm(c)
    BY <1>1, <1>3, <2>4 DEF CancelConfirm, CancelExecution, instance
  <2>5. CASE CancelRollback(c)
    <3>1. prior[c].status \in Active /\ (prior[c].status = "Running" => launches # 0)
      BY DEF TypeOK, RowInv
    <3> QED
      BY <1>1, <1>3, <2>5, <3>1 DEF CancelRollback, instance
  <2> QED
    BY <1>5, <2>1, <2>2, <2>3, <2>4, <2>5 DEF CancelNext
<1>6. ASSUME NEW r \in Repairers, RepairNext(r) PROVE [Row!Next]_(Row!vars)
  <2>1. CASE RepairMark(r)
    BY <1>1, <1>2, <2>1 DEF RepairMark, instance
  <2>2. CASE RepairTerminate(r)
    BY <1>1, <2>2, TerminateLaunches DEF RepairTerminate, row
  <2>3. CASE RepairConfirm(r)
    BY <1>1, <1>3, <2>3 DEF RepairConfirm, CancelExecution, instance
  <2> QED
    BY <1>6, <2>1, <2>2, <2>3 DEF RepairNext
<1>7. CASE RunSide
  <2>1. CASE status = "Pending" /\ status' = "Running" /\ launches # 0
    BY <1>7, <2>1, RunSideMoves DEF Row!Next, Row!RunMarks
  <2>2. CASE status \in Active /\ status' \in {"Succeeded", "Failed", "TimedOut"} /\ launches # 0
    BY <1>7, <2>2, RunSideMoves DEF Row!Next, Row!RunEnds
  <2> QED
    BY <1>1, <1>7, <2>1, <2>2, RunSideMoves
<1>8. CASE RequestDies \/ UNCHANGED vars
  BY <1>1, <1>8 DEF RequestDies, vars, row, instance
<1> QED
  BY <1>4, <1>5, <1>6, <1>7, <1>8 DEF Next, RunSide

\* With any number of requests, retries and late statements, the row changes
\* only as module Admission, which knows none of them, reckons with.
THEOREM RowImplemented == Spec => ImplementsRow
<1>1. Init => SubmitInv
  BY InitRequests DEF Init, SubmitInv
<1>2. Init => LaunchInv /\ Row!Init
  BY DEF Init, LaunchInv, Row!Init
<1>3. Init => RowInv
  <2> SUFFICES ASSUME Init PROVE RowInv
    OBVIOUS
  <2>1. \A c \in Cancellers : prior[c].status = "Pending"
    BY DEF Init
  <2>2. \A s \in Submitters : sub[s] \in {"absent", "idle"}
    BY InitRequests
  <2> QED
    BY <2>1, <2>2 DEF Init, RowInv
<1>4. CancelInv => TypeOK
  BY DEF CancelInv
<1>5. CancelInv /\ SubmitInv /\ LaunchInv /\ RowInv /\ [Next]_vars => [Row!Next]_(Row!vars)
  BY RowStep
<1> QED
  BY <1>1, <1>2, <1>3, <1>4, <1>5, SubmitInvStep, LaunchInvStep, RowInvStep, CancelSafe, PTL
     DEF Spec, ImplementsRow, Row!Spec

(***************************************************************************)
(* Executions implements SubmitReceipt.                                    *)
(***************************************************************************)
\* strengthened: what is not there is neither dispatched nor old
FreshRow == status = "None" => ~dispatched /\ ~expired

\* What a step may do to the receipt, when it neither stamps nor ages the row:
\* nothing, unless it inserts the row or confirms a cancel.
LEMMA ReceiptMoves ==
  ASSUME TypeOK, FreshRow, UNCHANGED <<dispatched, expired>>,
         \/ UNCHANGED <<status, input>>
         \/ status = "None" /\ status' = "Pending"
         \/ status = "Cancelling" /\ status' = "Cancelled" /\ UNCHANGED input
         \/ status \notin {"None", "Cancelled"} /\ status' \notin {"None", "Cancelled"}
            /\ UNCHANGED input
  PROVE  FreshRow' /\ [Receipt!Next]_(Receipt!vars)
<1> USE DEF Receipt!vars, FreshRow
<1>1. CASE UNCHANGED <<status, input>>
  BY <1>1
<1>2. CASE status = "None" /\ status' = "Pending"
  BY <1>2 DEF Receipt!Next, Receipt!Receive
<1>3. CASE status = "Cancelling" /\ status' = "Cancelled" /\ UNCHANGED input
  BY <1>3 DEF Receipt!Next, Receipt!Cancel, TypeOK
<1>4. CASE /\ status \notin {"None", "Cancelled"} /\ status' \notin {"None", "Cancelled"}
           /\ UNCHANGED input
  BY <1>4
<1> QED
  BY <1>1, <1>2, <1>3, <1>4

\* Every step of the code, seen from the key, is a step of SubmitReceipt or none.
LEMMA ReceiptStep ==
  ASSUME CancelInv, SubmitInv, FreshRow, [Next]_vars
  PROVE  FreshRow' /\ [Receipt!Next]_(Receipt!vars)
<1> TypeOK
  BY DEF CancelInv
<1>1. ASSUME NEW s \in Submitters, SubmitNext(s)
      PROVE  FreshRow' /\ [Receipt!Next]_(Receipt!vars)
  <2>1. CASE SubmitInsert(s)
    BY <2>1, ReceiptMoves DEF SubmitInsert
  <2>2. CASE SubmitRead(s) \/ SubmitGate(s) \/ SubmitCreate(s)
    BY <2>2, ReceiptMoves DEF SubmitRead, SubmitGate, SubmitCreate, row
  <2>3. CASE SubmitStamp(s)
    <3>1. status # "None" /\ UNCHANGED <<status, input, expired>>
      BY <2>3 DEF SubmitStamp, SubmitInv
    <3>2. CASE dispatched' = TRUE
      BY <3>1, <3>2 DEF FreshRow, Receipt!vars, Receipt!Next, Receipt!Dispatch, TypeOK
    <3>3. CASE UNCHANGED dispatched
      BY <3>1, <3>3, ReceiptMoves
    <3> QED
      BY <2>3, <3>2, <3>3 DEF SubmitStamp
  <2> QED
    BY <1>1, <2>1, <2>2, <2>3 DEF SubmitNext
<1>2. ASSUME NEW c \in Cancellers, CancelNext(c)
      PROVE  FreshRow' /\ [Receipt!Next]_(Receipt!vars)
  <2>1. CASE CancelRead(c) \/ CancelTerminate(c)
    BY <2>1, ReceiptMoves DEF CancelRead, CancelTerminate, row
  <2>2. CASE CancelMark(c)
    BY <2>2, ReceiptMoves DEF CancelMark
  <2>3. CASE CancelConfirm(c)
    BY <2>3, ReceiptMoves DEF CancelConfirm, CancelExecution
  <2>4. CASE CancelRollback(c)
    <3>1. prior[c].status \in Active
      BY DEF TypeOK
    <3> QED
      BY <2>4, <3>1, ReceiptMoves DEF CancelRollback
  <2> QED
    BY <1>2, <2>1, <2>2, <2>3, <2>4 DEF CancelNext
<1>3. ASSUME NEW r \in Repairers, RepairNext(r)
      PROVE  FreshRow' /\ [Receipt!Next]_(Receipt!vars)
  BY <1>3, ReceiptMoves DEF RepairNext, RepairMark, RepairTerminate, RepairConfirm,
                            CancelExecution, row
<1>4. CASE RunNext \/ RunAttemptFails \/ RunStartFails \/ EnginePurge
           \/ \E p \in Points : LatePoint(p)
  <2>1. RunSide /\ UNCHANGED expired
    BY <1>4 DEF RunSide, RunNext, RunRead, RunStatement, RunVendorCall, RunCheckpoint,
                RunAttemptFails, RunStartFails, EnginePurge, LatePoint, row
  <2>2. /\ UNCHANGED <<input, dispatched>>
        /\ status \notin Active => status' = status
        /\ status \in Active => status' \in Active \union {"Succeeded", "Failed", "TimedOut"}
    BY <2>1, RunSideRow
  <2> QED
    BY <2>1, <2>2, ReceiptMoves
<1>5. CASE WindowCloses
  BY <1>5 DEF WindowCloses, FreshRow, Receipt!vars, Receipt!Next, Receipt!Expire, TypeOK
<1>6. CASE RequestDies \/ UNCHANGED vars
  BY <1>6, ReceiptMoves DEF RequestDies, vars, row
<1> QED
  BY <1>1, <1>2, <1>3, <1>4, <1>5, <1>6 DEF Next

\* The key of an Execution has one receipt, with one content, whatever races,
\* retries and rolls back: the row as the clients of submit read it.
THEOREM ReceiptImplemented == Spec => ImplementsReceipt
<1>1. Init => SubmitInv
  BY InitRequests DEF Init, SubmitInv
<1>2. Init => FreshRow /\ Receipt!Init
  BY DEF Init, FreshRow, Receipt!Init
<1>3. CancelInv => TypeOK
  BY DEF CancelInv
<1>4. CancelInv /\ SubmitInv /\ FreshRow /\ [Next]_vars
        => FreshRow' /\ [Receipt!Next]_(Receipt!vars)
  BY ReceiptStep
<1> QED
  BY <1>1, <1>2, <1>3, <1>4, SubmitInvStep, CancelSafe, PTL
     DEF Spec, ImplementsReceipt, Receipt!Spec

\* Executions is what Admission, Schedules and Events assume it to be.
THEOREM PromisesKept == Spec => KeepsItsPromises
BY RowImplemented, ReceiptImplemented DEF KeepsItsPromises

=============================================================================
