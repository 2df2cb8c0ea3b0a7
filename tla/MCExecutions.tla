---------------------------- MODULE MCExecutions ----------------------------
(* Instances of Executions for TLC.                                        *)
EXTENDS Executions, TLC

CONSTANTS s1, s2, s3, c1, c2, r1, r2

\* submits that carry the same key: s3 repeats s1, s2 has different input
MCInputOf == (s1 :> "x") @@ (s2 :> "y") @@ (s3 :> "x")

\* a conflicting submit; a repeated submit; two cancels; a cancel and a repair
\* by the owner (r1) or by another admin (r2)
MCCasts == {{s1, s2}, {s1, s3}, {s1, c1, c2}} \union {{s1, r, c} : r \in {r1, r2}, c \in {c1, c2}}

\* interchangeable owner cancels
MCSymmetry == Permutations(Cancellers)

\* one submit, two cancels and a repair
MCLiveCast == {{s1, c1, c2, r1}}

\* one submit, one cancel
MCCancelCast == {{s1, c1}}

=============================================================================
