------------------------------ MODULE MCTables ------------------------------
(***************************************************************************)
(* Tables for TLC: three documents, an owner and a member, pages of one or *)
(* two rows, clocks that say one of two instants.                          *)
(***************************************************************************)
EXTENDS Tables

CONSTANTS r1, r2, r3, s1, u1, u2

Ask(kind, who, docs) ==
  [kind |-> kind, who |-> who, docs |-> docs, action |-> "read", grantee |-> u2]
Rule(kind, action) == [kind |-> kind, who |-> u1, docs |-> {}, action |-> action, grantee |-> u2]
Rest == Ask("none", u1, {})
All  == {u2} \X Actions

Cast(asked, granted, first, since, who) ==
  [calls   |-> [r \in {r1, r2, r3} |->
                  CASE r = r1 -> asked[1] [] r = r2 -> asked[2] [] r = r3 -> asked[3]],
   grants  |-> granted, first |-> first,
   since   |-> [s \in {s1} |-> since],
   readers |-> [s \in {s1} |-> who]]

MCCasts == {
  \* racing writers of other documents, a page that ends inside a batch
  Cast(<<Ask("insert", u1, {1}), Ask("upsert", u2, {2, 3}), Rest>>, All, {}, 0, u2),
  Cast(<<Ask("insert", u1, {1}), Ask("insert", u2, {2}), Ask("update", u1, {2})>>, All, {3}, 0, u1),
  \* one document inserted, upserted and deleted by three
  Cast(<<Ask("upsert", u1, {1, 2}), Ask("batch-delete", u2, {1, 2}), Ask("insert", u1, {1})>>, All, {1}, 0, u1),
  Cast(<<Ask("batch-insert", u1, {1, 2}), Ask("batch-insert", u2, {2, 3}), Ask("delete", u1, {2})>>, All, {}, 0, u1),
  Cast(<<Ask("batch-update", u1, {1, 2, 3}), Ask("delete", u1, {1}), Ask("delete", u2, {1})>>, All, {1, 2}, 2, u1),
  \* the row with the highest stamp goes, the next writer starts below a token
  Cast(<<Ask("update", u1, {2}), Ask("delete", u1, {2}), Ask("update", u1, {1})>>, All, {1, 2}, 1, u1),
  \* the table is deleted and created again under writers and a subscriber
  Cast(<<Ask("drop", u1, {}), Ask("create", u1, {}), Ask("upsert", u1, {1, 3})>>, {}, {2}, 0, u1),
  Cast(<<Ask("drop", u1, {}), Ask("create", u1, {}), Ask("insert", u2, {2})>>, All, {1}, 0, u2),
  Cast(<<Ask("drop", u1, {}), Rule("grant", "insert"), Ask("batch-insert", u2, {})>>, {}, {}, 0, u1),
  \* grants and roles change while a member writes and reads
  Cast(<<Rule("revoke", "read"), Rule("grant", "update"), Ask("upsert", u2, {1})>>,
       {<<u2, "insert">>, <<u2, "read">>}, {1}, 0, u2),
  Cast(<<Rule("demote", "read"), Ask("update", u2, {1}), Ask("grant", u2, {})>>, All, {1}, 0, u2) }

=============================================================================
