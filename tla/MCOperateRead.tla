----------------------------- MODULE MCOperateRead -----------------------------
(* Instances of OperateRead for TLC: two intervals make an hour. *)
EXTENDS OperateRead

Row(day, scope, queue, slot, offered) ==
  [day |-> day, scope |-> scope, queue |-> queue, slot |-> slot, offered |-> offered]

(* A day with all the intervals it may have, in two hours; one with too many;
   two scopes that share a profile; and nothing at all. *)
FullDay == {Row(1, 1, "a", 0, 1), Row(1, 1, "b", 0, 2), Row(1, 1, "a", 1, 1), Row(1, 1, "a", 2, 4)}
LongDay == FullDay \cup {Row(1, 1, "a", 3, 1), Row(2, 1, "b", 0, 3)}
TwoScopes == {Row(1, 1, "a", 1, 1), Row(1, 2, "b", 1, 2), Row(1, 2, "b", 2, 2), Row(2, 2, "a", 0, 5)}
ThreeScopes == TwoScopes \cup {Row(1, 3, "c", 1, 1)}
EveryCut == <<{{}, FullDay, LongDay, TwoScopes, ThreeScopes}, {FullDay}, {TwoScopes}>>

(* One profile ends on the day on which another begins. *)
Catalog == <<[id |-> "old", from |-> 1, to |-> 1, queues |-> {"a"}],
             [id |-> "new", from |-> 1, to |-> 0, queues |-> {"a", "b"}]>>
================================================================================
