---------------------------- MODULE MCAttendanceDay ----------------------------
(* Instances of AttendanceDay for TLC.  A minute is two ticks, a day eight. *)
EXTENDS AttendanceDay

Work(a, b) == [from |-> a, to |-> b, kind |-> "Work"]

EveryShift ==
  {Work(2, 8), Work(4, 12),
   [from |-> 2, to |-> 8, kind |-> "Planned absence"], [from |-> 2, to |-> 8, kind |-> "Off"]}

Partial(a, b) == [kind |-> "PARTIAL_DAY", first |-> Date(a), last |-> Date(a), from |-> a, to |-> b]
Full(d, e) == [kind |-> "FULL_DAY", first |-> d, last |-> e, from |-> 0, to |-> 0]

EveryTimeOff ==
  {Partial(a, b) : a \in {0, 4, 6}, b \in {4, 6, 8}}
  \cup {Partial(8, 10), Full(0, 0), Full(1, 1), Full(0, 1)}

Status(a, b, c, rank) == [from |-> a, to |-> b, category |-> c, rank |-> rank]
Categories == {"Productive", "Logged Off", "Unavailable"}
FirstExport == {Status(a, b, c, 1) : a \in {1, 4}, b \in {5, 9}, c \in Categories}
SecondExport == {Status(a, b, c, 2) : a \in {2, 5}, b \in {7}, c \in Categories \ {"Unavailable"}}
StatusExports == {r \in FirstExport \cup SecondExport : r.from < r.to}

FewStatus == {Status(2, 6, "Productive", 1), Status(4, 10, "Logged Off", 2)}

Lilo(d, a, b) == [date |-> d, first |-> a, last |-> b]
LiloExports == {Lilo(0, a, b) : a \in {NoTime, 5}, b \in {NoTime, 7}}
FewLilo == {Lilo(0, 5, NoTime), Lilo(0, NoTime, NoTime), Lilo(1, 9, 12)}

(* Every plan against few rows, and one plan against every row. *)
FewRows ==
  {[shift |-> s, timeOff |-> rows, status |-> FewStatus, lilo |-> FewLilo] :
     s \in EveryShift, rows \in {S \in SUBSET EveryTimeOff : Cardinality(S) <= 2}}
ManyRows ==
  {[shift |-> Work(2, 8), timeOff |-> rows, status |-> StatusExports, lilo |-> LiloExports] :
     rows \in {{}, {Partial(4, 6)}}}
BothPlans == FewRows \cup ManyRows
================================================================================
