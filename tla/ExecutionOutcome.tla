-------------------------- MODULE ExecutionOutcome --------------------------
(***************************************************************************)
(* What an Execution promises its callers (docs/architecture/              *)
(* 001-execution-model.md), without Pending, Running, Cancelling, the      *)
(* engine or the order of awaits: one input, fixed by the first submit;    *)
(* one terminal outcome, written once; submits are accepted only for that  *)
(* input; and the one cancel that is acknowledged is the step that decided *)
(* the outcome, never a report about somebody else's.                      *)
(***************************************************************************)
CONSTANTS
  Submits,     \* submit requests
  Cancels,     \* owner cancels and repairs
  InputOf,     \* InputOf[s]: what submit s asks to run
  NoInput      \* no submit was received yet

VARIABLES
  outcome,     \* "none", "active", or the terminal status
  input,       \* what runs
  accepted,    \* submits that were told their work is accepted
  acked        \* cancels that were told cancelled:true

vars == <<outcome, input, accepted, acked>>

Init == outcome = "none" /\ input = NoInput /\ accepted = {} /\ acked = {}

Receive(s) ==
  /\ outcome = "none" /\ outcome' = "active"
  /\ input' = InputOf[s]
  /\ UNCHANGED <<accepted, acked>>

Accept(s) ==
  /\ outcome # "none" /\ input = InputOf[s]
  /\ accepted' = accepted \union {s}
  /\ UNCHANGED <<outcome, input, acked>>

Complete(terminal) ==
  /\ outcome = "active" /\ outcome' = terminal
  /\ UNCHANGED <<input, accepted, acked>>

Cancel(c) ==
  /\ outcome = "active" /\ outcome' = "Cancelled"
  /\ acked' = acked \union {c}
  /\ UNCHANGED <<input, accepted>>

Next ==
  \/ \E s \in Submits : Receive(s) \/ Accept(s)
  \/ \E t \in {"Succeeded", "Failed", "TimedOut"} : Complete(t)
  \/ \E c \in Cancels : Cancel(c)

Spec == Init /\ [][Next]_vars

=============================================================================
