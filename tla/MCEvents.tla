------------------------------ MODULE MCEvents ------------------------------
(***************************************************************************)
(* Events for TLC: the platform source with three subscriptions, of which  *)
(* a fan-out takes two, and a webhook source that observes the endpoint.   *)
(***************************************************************************)
EXTENDS Events

CONSTANTS c1, c2, c3, x1, x2, v, w, p, u1, u2, g1, g2, platform, webhook

MCSubs     == 1..3
MCSourceOf == [s \in MCSubs |-> platform]
MCRows     == {[owner |-> u1, saga |-> g1, wants |-> {x1, x2, p}],
               [owner |-> u2, saga |-> g2, wants |-> {x1, x2}],
               [owner |-> u2, saga |-> g1, wants |-> {p}]}
Row1 == CHOOSE r \in MCRows : r.owner = u1
Row2 == CHOOSE r \in MCRows : r.saga = g2
Row3 == CHOOSE r \in MCRows : r.wants = {p}
MCAnnounced == [e \in EventIds |-> p]
MCAccepts   == [g \in Sagas |-> {x1, x2, v, w} \union IF g = g1 THEN {p} ELSE {}]

Ask(kind, o, content, s) ==
  [at |-> kind, source |-> o, event |-> "e", content |-> content, sub |-> s]
Emits(content) == Ask("emit", platform, content, 1)
Retries(s)     == Ask("retry", platform, x1, s)
Delivers(content) == Ask("deliver", webhook, content, 1)
Rest           == Ask("done", platform, x1, 1)

Of(id, whats) == {[what |-> z, id |-> id] : z \in whats}
Cast(asked, registered, happenings) ==
  [calls  |-> [c \in {c1, c2, c3} |-> CASE c = c1 -> asked[1] [] c = c2 -> asked[2] [] c = c3 -> asked[3]],
   rows   |-> [s \in MCSubs |-> registered[s]],
   events |-> happenings]

MCCasts == {
  \* two emissions of one id with different content and a replay; crash, outage
  Cast(<<Emits(x1), Emits(x2), Emits(x1)>>, <<Row1, Row2, None>>, Of(None, {"crash"}) \union Of(1, {"outage"})),
  \* the source and its subscription are deleted and created again
  Cast(<<Emits(x1), Emits(x2), Rest>>, <<Row1, None, None>>,
       Of(platform, {"delete", "create"}) \union Of(1, {"subscribe"})),
  \* a subscription for another Saga and another user, under the same name
  Cast(<<Emits(x1), Retries(1), Rest>>, <<Row1, None, None>>,
       Of(1, {"drop", "subscribe", "cancel"}) \union Of(u1, {"bar"})),
  \* skips, and the retries of what they left
  Cast(<<Emits(x1), Retries(1), Retries(3)>>, <<Row1, Row1, Row1>>,
       Of(g1, {"bar", "free"}) \union Of(1, {"expire", "disable"})),
  Cast(<<Emits(x1), Emits(x1), Rest>>, <<Row1, Row1, Row2>>, Of(1, {"disable", "enable"}) \union Of(platform, {"close", "open"})),
  \* a vendor delivers twice, with one input and with another
  Cast(<<Delivers(v), Delivers(v), Rest>>, <<Row1, Row2, None>>,
       Of(platform, {"delete"}) \union Of(webhook, {"delete", "close"}) \union Of(None, {"crash"}) \union Of(Endpoint, {"cancel"})),
  \* operators emit under the id of its announcement, there and on the webhook's log
  Cast(<<Delivers(v), Emits(x1), Emits(p)>>, <<Row3, Row1, None>>, Of(None, {"crash"}) \union Of(platform, {"delete"})),
  Cast(<<Delivers(v), Ask("emit", webhook, v, 1), Emits(p)>>, <<Row3, None, None>>,
       Of(platform, {"delete", "create"}) \union Of(1, {"subscribe"})),
  Cast(<<Delivers(v), Delivers(w), Retries(1)>>, <<Row1, None, None>>,
       Of(Endpoint, {"bar", "expire", "outage"}) \union Of(VendorSaga, {"bar", "free"})) }

=============================================================================
