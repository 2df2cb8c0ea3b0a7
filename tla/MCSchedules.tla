---------------------------- MODULE MCSchedules ----------------------------
(***************************************************************************)
(* Schedules for TLC.  Two Organizations, of which a tick admits one, one  *)
(* row each.  Rare matches so rarely that a year has no second window.     *)
(***************************************************************************)
EXTENDS Schedules

CONSTANTS t1, t2

MCIds   == 1..3
MCOrgOf == [s \in MCIds |-> IF s = 3 THEN 1 ELSE 0]

Plan(recurring, minutes, owner, input) ==
  [recurring |-> recurring, minutes |-> minutes, owner |-> owner, input |-> input]

Every  == Plan(TRUE, {1, 2, 3}, "u", "a")
Odd    == Plan(TRUE, {1, 3}, "u", "b")
Rare   == Plan(TRUE, {2}, "v", "a")
Once   == Plan(FALSE, {1}, "u", "a")
Late2  == Plan(FALSE, {2}, "v", "b")
MCPlans == {Every, Odd, Rare, Once, Late2}

Of(s, whats) == {[what |-> w, id |-> s] : w \in whats}
CastOf(rows, first, ticks, happenings) ==
  [rows |-> rows, ticks |-> ticks, events |-> happenings,
   plan |-> [s \in MCIds |-> CASE s = 1 -> first [] s = 2 -> Once [] s = 3 -> Odd]]
Cast(rows, ticks, happenings) == CastOf(rows, Every, ticks, happenings)

MCCasts == {
  \* a slow tick against a deletion and any new row of the same name
  CastOf({1}, Odd, {t1, t2}, Of(1, {"delete", "create"})),
  Cast({2}, {t1, t2}, Of(2, {"delete", "create"})),
  \* skips, streaks and parks of overlapping ticks
  Cast({1}, {t1, t2}, Of(1, {"paused", "no"})),
  Cast({2}, {t1, t2}, Of(2, {"disable", "enable", "denied"})),
  \* windows that never go away, and the other Organization
  Cast({1}, {t1, t2}, Of(1, {"cancel", "crash"})),
  Cast({1, 2, 3}, {t1}, Of(1, {"cancel"}) \union Of(2, {"limited", "no"})),
  CastOf({1, 2, 3}, Rare, {t1}, Of(2, {"denied"}) \union Of(3, {"outage", "dropped"})),
  \* parked, its receipt too old, enabled again
  Cast({1, 3}, {t1}, Of(1, {"paused", "no", "enable", "expire"})) }

MCOverdueCasts == { Cast({1}, {t1}, Of(1, {"paused", "no", "enable", "expire"})) }

============================================================================
