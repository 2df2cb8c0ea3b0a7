---------------------------- MODULE ExecutionRow ----------------------------
(***************************************************************************)
(* The row of one Execution as the code around it may rely on it: what     *)
(* admission (src/executions.ts admitExecution, src/sync.ts, src/          *)
(* children.ts) assumes that runs, cancels and repairs do to a row, and    *)
(* what they in turn assume that submits and provider calls do.            *)
(*                                                                         *)
(* Executions implements it, with every await, retry and late statement;   *)
(* and so does each row of Admission, whose last four actions stand for    *)
(* Executions.  So what is shown of many rows in Admission and what is     *)
(* shown of one row in Executions speak of the same row.                   *)
(***************************************************************************)
VARIABLES
  status,      \* executions.status, "none" without a row; "Done" is any of
               \* Succeeded, Failed and TimedOut
  launched,    \* its work was started
  dispatched   \* executions.dispatched

vars == <<status, launched, dispatched>>

Init == status = "none" /\ launched = FALSE /\ dispatched = FALSE

\* the receipt comes before any work
Insert ==
  /\ status = "none" /\ status' = "Pending"
  /\ UNCHANGED <<launched, dispatched>>

Launch ==
  /\ status # "none" /\ launched' = TRUE
  /\ UNCHANGED <<status, dispatched>>

\* dispatched is a fact, not an intention
Stamp ==
  /\ launched /\ dispatched' = TRUE
  /\ UNCHANGED <<status, launched>>

\* a provider call starts its work, says so and marks the row at once
RunInline ==
  /\ status = "Pending" /\ status' = "Running"
  /\ launched' = TRUE /\ dispatched' = TRUE

\* a run moves an active row only, and never one that is being cancelled
RunMarks ==
  /\ launched /\ status = "Pending" /\ status' = "Running"
  /\ UNCHANGED <<launched, dispatched>>

RunEnds ==
  /\ launched /\ status \in {"Pending", "Running"} /\ status' = "Done"
  /\ UNCHANGED <<launched, dispatched>>

CancelMarks ==
  /\ status \in {"Pending", "Running"} /\ status' = "Cancelling"
  /\ UNCHANGED <<launched, dispatched>>

\* confirmed, or rolled back to an active status: Running only if work was started
CancelEnds ==
  /\ status = "Cancelling"
  /\ status' \in {"Cancelled", "Pending"} \union (IF launched THEN {"Running"} ELSE {})
  /\ UNCHANGED <<launched, dispatched>>

Next ==
  \/ Insert \/ Launch \/ Stamp \/ RunInline
  \/ RunMarks \/ RunEnds \/ CancelMarks \/ CancelEnds

Spec == Init /\ [][Next]_vars

=============================================================================
