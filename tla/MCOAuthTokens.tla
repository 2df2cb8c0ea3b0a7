---------------------------- MODULE MCOAuthTokens ----------------------------
(* Instances of OAuthTokens for TLC.                                       *)
EXTENDS OAuthTokens, TLC

CONSTANTS r1, r2, r3, v1, c1, c2, o1, o2

\* r1 and r2 share an isolate, r3 runs in another
MCFlightOf == (r1 :> 1) @@ (r2 :> 1) @@ (r3 :> 2)

\* what the operators record
MCDecides == (o1 :> "failed") @@ (o2 :> "revoked")

\* refreshes racing a revocation, a consent or both; operators at work; a
\* deletion racing a refresh and consents
MCCasts == [who : {{r1, r2, r3, v1}, {r1, r3, v1, c1}, {r1, c1, c2}, {r1, v1, o1, o2}},
            deletes : {FALSE}]
           \union [who : {{r1, c1, c2}, {r1, v1, c1}}, deletes : {TRUE}]

\* two refreshers in one isolate
MCIsolateCast == {[who |-> {r1, r2}, deletes |-> FALSE]}
=============================================================================
