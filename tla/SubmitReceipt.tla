--------------------------- MODULE SubmitReceipt ---------------------------
(***************************************************************************)
(* The receipt of an idempotency key (the executions row, src/executions.ts *)
(* submit) as its clients rely on it: a schedule's window, a subscriber's   *)
(* or a vendor's event, the key of a Form's submission.  What it asks for   *)
(* is fixed by the first submit; once dispatched it is so for good, unless  *)
(* its owner's cancel is confirmed, and that is final.                      *)
(*                                                                          *)
(* Executions implements it, with the engine and every race of a submit;    *)
(* Schedules, Events and Forms, which model a submit by its statements      *)
(* only, move each of their receipts like this too.                         *)
(***************************************************************************)
VARIABLES
  state,    \* "none"; "pending", or "expired" once its window to be dispatched
            \* is over; "dispatched"; "cancelled"
  content   \* what it asks for

vars == <<state, content>>

Init == state = "none"

\* the first submit of the key; later ones find the row
Receive ==
  /\ state = "none" /\ state' = "pending"

Expire ==
  /\ state = "pending" /\ state' = "expired"
  /\ UNCHANGED content

\* also past the window, by a submit that was in time for its test
Dispatch ==
  /\ state \in {"pending", "expired"} /\ state' = "dispatched"
  /\ UNCHANGED content

Cancel ==
  /\ state \in {"pending", "expired", "dispatched"} /\ state' = "cancelled"
  /\ UNCHANGED content

Next == Receive \/ Expire \/ Dispatch \/ Cancel

Spec == Init /\ [][Next]_vars

=============================================================================
