------------------------------- MODULE MCFiles -------------------------------
(***************************************************************************)
(* Files for TLC: up to six requests, a path that is empty or holds a      *)
(* ready file.                                                             *)
(***************************************************************************)
EXTENDS Files, Sequences

CONSTANTS r1, r2, r3, r4, r5, r6

Ask(kind)  == [kind |-> kind, action |-> "write"]
Order == <<r1, r2, r3, r4, r5, r6>>
Cast(asked, there) ==
  [calls |-> [r \in Requests |->
                LET i == CHOOSE n \in 1..6 : Order[n] = r IN
                IF i <= Len(asked) THEN asked[i] ELSE Ask("none")],
   there |-> there]
Everybody(kinds) == [i \in DOMAIN kinds |-> Ask(kinds[i])]
Deletes(kind) == [kind |-> kind, action |-> "delete"]

MCCasts == {
  \* a token is replayed while write is revoked and granted again
  Cast(Everybody(<<"slot", "slot", "put", "put", "revoke", "grant">>), FALSE),
  \* two uploads of one path, finalized at once
  Cast(Everybody(<<"slot", "slot", "put", "put", "finalize", "finalize">>), TRUE),
  \* an overwrite, two deletions and a new upload
  Cast(Everybody(<<"slot", "put", "finalize", "delete", "delete">>), TRUE),
  Cast(Everybody(<<"slot", "put", "finalize", "finalize", "delete">>), FALSE),
  \* the cleanups under an upload
  Cast(Everybody(<<"slot", "put", "finalize", "clean-uploads", "clean-tokens", "slot">>), FALSE),
  \* the location is deleted and declared again
  Cast(Everybody(<<"slot", "put", "drop", "create", "revoke">>), FALSE),
  \* deletions are revoked and granted
  Cast(<<Deletes("revoke"), Deletes("grant"), Ask("delete"), Ask("slot"), Ask("put"), Ask("finalize")>>, TRUE) }

=============================================================================
