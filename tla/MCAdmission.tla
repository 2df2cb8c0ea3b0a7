----------------------------- MODULE MCAdmission -----------------------------
(* Instances of Admission for TLC.                                         *)
EXTENDS Admission, TLC

CONSTANTS e1, e2, e3, r1, r2, r3, r4, r5, o1, o2

\* a key on each route; r4 repeats the submit r1, r5 the provider call r2
MCIdOf == (r1 :> e1) @@ (r2 :> e2) @@ (r3 :> e3) @@ (r4 :> e1) @@ (r5 :> e2)
MCRouteOf == (r1 :> "submit") @@ (r2 :> "provider") @@ (r3 :> "child")
             @@ (r4 :> "submit") @@ (r5 :> "provider")

\* one operator lowers the limit, the other pauses the Saga
MCEditOf == (o1 :> [field |-> "limit", to |-> 1])
            @@ (o2 :> [field |-> "enabled", to |-> FALSE])

\* three keys while the limit is lowered; a key sent twice, by either route,
\* while the Saga is paused
MCCasts == {[who |-> {r1, r2, r3, o1}, limit |-> 2],
            [who |-> {r1, r4, r2, o2}, limit |-> 1],
            [who |-> {r1, r2, r5, o2}, limit |-> 1]}
=============================================================================
