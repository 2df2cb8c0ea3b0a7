------------------------------- MODULE MCForms -------------------------------
(***************************************************************************)
(* Forms for TLC: an embed, a publication and an operator, two keys, four  *)
(* declarations that differ in their id or their fingerprint.              *)
(***************************************************************************)
EXTENDS Forms

CONSTANTS h1, h2, e1, p1, o1, k1, k2, v1, v2, s1, s2, s3, r1, r2

Ask(h, p, k, v) == [handle |-> h, who |-> p, key |-> k, input |-> [values |-> v, later |-> FALSE]]
Defer(h, p, k)  == [handle |-> h, who |-> p, key |-> k, input |-> [values |-> v1, later |-> TRUE]]

Cast(starts, asks, binds, granted, n) ==
  [starts  |-> [h \in {h1, h2} |-> IF h = h1 THEN starts[1] ELSE starts[2]],
   subs    |-> [s \in {s1, s2, s3} |-> CASE s = s1 -> asks[1] [] s = s2 -> asks[2] [] s = s3 -> asks[3]],
   rebinds |-> [r \in {r1, r2} |-> IF r = r1 THEN binds[1] ELSE binds[2]],
   granted |-> granted,
   form    |-> [id |-> "f", print |-> "a"],
   acts    |-> n]

MCCasts == {
  \* three submissions of one handle race: two keys, a retry
  Cast(<<o1, None>>, <<Ask(h1, o1, k1, v1), Ask(h1, o1, k2, v1), Ask(h1, o1, k1, v1)>>, <<None, None>>, {}, 0),
  \* a retry with other values, a retry through another session that sweeps
  Cast(<<o1, None>>, <<Ask(h1, o1, k1, v1), Ask(h1, o1, k1, v2), Defer(h1, o1, k1)>>, <<None, None>>, {}, 0),
  Cast(<<o1, o1>>, <<Ask(h1, o1, k1, v1), Ask(h2, o1, k1, v1), None>>, <<None, None>>, {}, 0),
  \* the Form is deleted and created again under an operator
  Cast(<<o1, None>>, <<Ask(h1, o1, k1, v1), Defer(h1, o1, k2), None>>, <<None, None>>, {}, 2),
  \* the Form changes, and the capability is bound again by one or two
  Cast(<<e1, None>>, <<Ask(h1, e1, k1, v1), Defer(h1, e1, k2), None>>, <<e1, None>>, {e1}, 1),
  Cast(<<e1, None>>, <<Ask(h1, e1, k1, v1), None, None>>, <<e1, None>>, {}, 3),
  Cast(<<p1, None>>, <<Defer(h1, p1, k1), None, None>>, <<p1, p1>>, {p1}, 2) }

=============================================================================
