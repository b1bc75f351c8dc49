----------------------------- MODULE MCEventIngest -----------------------------
(* Instances of EventIngest for TLC.  A day has four ticks. *)
EXTENDS EventIngest

Lilo(agent, date, first, last) ==
  [agent |-> agent, date |-> date, first |-> first, last |-> last, label |-> "none"]
Status(agent, start, end, label) ==
  [agent |-> agent, date |-> NoDate, first |-> start, last |-> end, label |-> label]

OnRoster == {<<"ann", 0>>, <<"ann", 1>>, <<"ann", 2>>, <<"bob", 1>>}

LiloRows ==
  {<<>>,
   <<Lilo("ann", 1, NoTime, NoTime), Lilo("bob", NoDate, 5, 7), Lilo("bob", NoDate, NoTime, 9)>>,
   <<Lilo("ann", NoDate, 7, 4), Lilo("ann", NoDate, NoTime, NoTime), Lilo("bob", 1, 5, 7)>>,
   <<Lilo("zoe", 1, 5, 7), Lilo("ann", NoDate, NoTime, 6), Lilo("bob", 1, 5, 5),
     Lilo("ann", 2, 9, 11)>>}

StatusRows ==
  {<<>>,
   <<Status("ann", 4, 6, "Available"), Status("bob", 5, 9, "Chat"), Status("bob", 9, 10, "Lunch")>>,
   <<Status("ann", NoTime, 6, "Lunch"), Status("ann", 5, 5, "Lunch"), Status("ann", 1, 9, "Chat")>>,
   <<Status("zoe", 4, 5, "Lunch"), Status("ann", 4, NoTime, "Chat"), Status("bob", 4, 6, "Chat"),
     Status("bob", 6, 7, "Available"), Status("ann", 6, 7, "Available")>>}

Lilos(named) == {[kind |-> "lilo", named |-> named, rows |-> rows] : rows \in LiloRows}
Statuses == {[kind |-> "agent_status", named |-> {}, rows |-> rows] : rows \in StatusRows}
EveryText == Lilos({1}) \cup Lilos({1, 2}) \cup Statuses
================================================================================
