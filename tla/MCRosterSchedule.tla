--------------------------- MODULE MCRosterSchedule ---------------------------
(* Instances of RosterSchedule for TLC.  A day has four ticks. *)
EXTENDS RosterSchedule

Agent(row, id, name, status, end) ==
  [row |-> row, id |-> id, name |-> name, status |-> status, end |-> end, fteReadable |-> TRUE]
Sheet(tier, headers, rows) == [tier |-> tier, headers |-> headers, rows |-> rows]
Book(rows, registers) == [sheets |-> {Sheet(3, "complete", rows), Sheet(0, "complete", {})},
                          registers |-> registers]

Pto(id, first, last, coverage, from, to, status) ==
  [kind |-> "PTO", id |-> id, first |-> first, last |-> last, coverage |-> coverage,
   from |-> from, to |-> to, typed |-> TRUE, status |-> status]
Away(id, first, last, status) ==
  [kind |-> "AWAY", id |-> id, first |-> first, last |-> last, coverage |-> "FULL_DAY",
   from |-> NoTime, to |-> NoTime, typed |-> TRUE, status |-> status]

Registers ==
  {Pto("a", 1, 2, "FULL_DAY", NoTime, NoTime, "APPROVED"),
   Pto("a", 1, 1, "PARTIAL_DAY", 5, 6, "APPROVED"),
   Pto("a", 1, 1, "PARTIAL_DAY", 6, 5, "APPROVED"),
   Pto("a", 1, 2, "PARTIAL_DAY", 5, 6, "APPROVED"),
   Pto("a", 1, NoDate, "FULL_DAY", NoTime, NoTime, "PENDING"),
   Pto("b", 1, 1, "FULL_DAY", NoTime, NoTime, "CANCELLED"),
   Away("b", 1, NoDate, "ACTIVE"), Away("b", 1, NoDate, "PLANNED"), Away("a", 2, 1, "CLOSED"),
   Away("z", 1, 1, "ACTIVE")}

Employed == Agent(1, "a", "Ann", "Active", NoDate)
HasLeft == Agent(2, "a", "Ann", "Leaver", 1)
Broken == Agent(4, "a", "Ann", "Active", 1)   \* employed, and has an end date
BobGone == Agent(3, "b", "Bob", "Leaver", 1)
BobBroken == Agent(3, "b", "Bob", "Unknown", NoDate)
NoIdBob == Agent(5, NoId, "Bob", "Active", NoDate)
NoIdAnn == Agent(6, NoId, "Ann", "Leaver", 2)

Rosters ==
  {Book({Employed, HasLeft, BobGone}, Registers),
   Book({HasLeft, Broken, NoIdBob}, Registers),
   Book({Employed, BobBroken, NoIdBob, NoIdAnn}, Registers)}
Unusable ==
  {[sheets |-> {Sheet(3, "complete", {Employed}), Sheet(2, "ambiguous", {})}, registers |-> {}],
   [sheets |-> {Sheet(1, "complete", {Employed}), Sheet(1, "complete", {HasLeft})},
    registers |-> {}]}
EveryBook == Rosters \cup Unusable

Cell(day, id, name, from, to) ==
  [day |-> day, id |-> id, name |-> name, kind |-> "SHIFT", from |-> from, to |-> to,
   labelled |-> TRUE]
Off(day, id, name) ==
  [day |-> day, id |-> id, name |-> name, kind |-> "OFF", from |-> NoTime, to |-> NoTime,
   labelled |-> TRUE]

Texts ==
  {<<Cell(1, "a", "Ann", 4, 6), Off(1, "a", "Ann")>>,
   <<Cell(2, "a", "Ann", 9, 13), Cell(2, "x", "Ann", 9, 11)>>,
   <<Off(1, "a", "Ann"), Cell(2, "b", "Bob", 8, 10)>>,
   <<Cell(1, "x", "Bob", 5, 7), Cell(1, "x", "Ann", 4, 6), Cell(2, NoId, "Bob", 8, 9)>>,
   <<Cell(1, "b", "Bob", 5, 4)>>,
   <<[Cell(1, "a", "Ann", 4, 6) EXCEPT !.labelled = FALSE]>>}
================================================================================
