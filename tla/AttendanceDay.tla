----------------------------- MODULE AttendanceDay -----------------------------
(***************************************************************************)
(* The attendance read model of one scheduled agent day                    *)
(* (attendance_model.py): approved time off is cut out of the shift, Agent *)
(* Status and LILO say when the agent was there, and what is left of the   *)
(* shift is classified into exact gaps and one result.                     *)
(*                                                                         *)
(* The evidence grows while the day goes on.  A refresh builds the model   *)
(* inside activation, at the moment it runs (as_of); a refresh that finds  *)
(* its sources unchanged keeps what an earlier one built.                  *)
(*                                                                         *)
(* Time is counted in ticks, of which Minute make a minute, because the    *)
(* sources have seconds and the model rounds each interval down.           *)
(***************************************************************************)
EXTENDS Integers, FiniteSetsExt, SequencesExt

CONSTANTS
  Minute,           \* ticks in a minute
  Midnight,         \* ticks in a calendar day
  Reach,            \* how far beyond the shift a login or logout is looked for
  LateTolerance,    \* late_tolerance_minutes
  StatusTolerance,  \* status_gap_tolerance_minutes
  CoverageNum, CoverageDen,  \* minimum_status_coverage, as a fraction
  Plans,            \* the agent days: shift, register rows, rows the sources come to hold
  Moments,          \* moments at which a refresh may run
  MaxStatus, MaxLilo  \* bounds: rows of the agent that are exported

NoTime == -1  \* a login or logout that is not there
NotBuilt == -1
NoDay == [result |-> "none", gaps |-> {}]

ASSUME AttendanceAssumption ==
  /\ Minute \in Nat \ {0} /\ Midnight \in Nat \ {0} /\ Reach \in Nat
  /\ LateTolerance \in Nat /\ StatusTolerance \in Nat
  /\ CoverageNum \in 1..CoverageDen
  /\ Moments \subseteq Nat /\ Moments # {}
  /\ \A p \in Plans :
       /\ p.shift.from \in Nat /\ p.shift.to \in Nat
       /\ p.shift.kind # "Off" => p.shift.from < p.shift.to
       /\ IsFiniteSet(p.timeOff)
       /\ \A r \in p.timeOff :
            /\ r.first \in Nat /\ r.last \in Nat /\ r.from \in Nat /\ r.to \in Nat
            /\ r.kind = "PARTIAL_DAY" /\ r.to > r.from =>   \* from and to are times of one date
                 r.first = r.last /\ r.first * Midnight <= r.from /\ r.to <= (r.first + 1) * Midnight
       /\ p.status \subseteq [from : Nat, to : Nat, category : STRING, rank : Nat]
       /\ p.lilo \subseteq [date : Nat, first : Nat \cup {NoTime}, last : Nat \cup {NoTime}]

VARIABLES
  shift,      \* the published shift: wfm_schedule_shift
  timeOff,    \* overlay-eligible wfm_time_off rows of the agent
  held,       \* the rows of the agent the two sources come to hold (external)
  status,     \* wfm_raw_agent_status rows of the agent
  lilo,       \* wfm_raw_lilo rows of the agent
  loaded,     \* the dates with any row, of any agent, for each of the two sources
  now,        \* the wall clock
  builtAt,    \* as_of of the active cut, if it was built from this evidence
  day         \* the agent day it holds

evidence == <<shift, timeOff, status, lilo, loaded>>
vars == <<held, evidence, now, builtAt, day>>

--------------------------------------------------------------------------------
(* Intervals *)

Interval(a, b) == [from |-> a, to |-> b]

Minutes(i) == Max({0, (i.to - i.from) \div Minute})

TotalMinutes(S) == MapThenSumSet(Minutes, S)

Overlaps(i, j) == i.to > j.from /\ i.from < j.to

Clip(i, j) == Interval(Max({i.from, j.from}), Min({i.to, j.to}))

Before(i, j) == i.from < j.from \/ (i.from = j.from /\ i.to < j.to)

(* sorted(): each interval comes after those that are before it. *)
InOrder(S) ==
  [n \in 1..Cardinality(S) |-> CHOOSE i \in S : Cardinality({j \in S : Before(j, i)}) = n - 1]

(* Fault: the end of the last interval is taken, also from one nested in it. *)
MergeTakingLastEnd(S) ==
  LET ordered == InOrder({i \in S : i.to > i.from})
      add(merged, item) ==
        IF merged = <<>> \/ item.from > Last(merged).to THEN Append(merged, item)
        ELSE [merged EXCEPT ![Len(merged)].to = item.to]
  IN FoldLeft(add, <<>>, ordered)

(* Sorted, with intervals that touch or overlap made one. *)
Merge(S) ==
  LET ordered == InOrder({i \in S : i.to > i.from})
      add(merged, item) ==
        IF merged = <<>> \/ item.from > Last(merged).to THEN Append(merged, item)
        ELSE [merged EXCEPT ![Len(merged)].to = Max({@, item.to})]
  IN FoldLeft(add, <<>>, ordered)

(* What the blocked intervals leave of the whole. *)
Subtract(whole, blocked) ==
  LET merged == Merge({Clip(b, whole) : b \in {b \in blocked : Overlaps(b, whole)}})
      step(acc, item) ==
        [out    |-> IF item.from > acc.cursor
                    THEN acc.out \cup {Interval(acc.cursor, item.from)} ELSE acc.out,
         cursor |-> Max({acc.cursor, item.to})]
      done == FoldLeft(step, [out |-> {}, cursor |-> whole.from], merged)
  IN IF whole.to <= whole.from THEN {}
     ELSE IF done.cursor < whole.to THEN done.out \cup {Interval(done.cursor, whole.to)}
     ELSE done.out

Intersections(i, allowed) == {Clip(i, j) : j \in {j \in allowed : Overlaps(j, i)}}

Date(t) == t \div Midnight

RequiredDates(sh) == Date(sh.from)..Date(sh.to - 1)

--------------------------------------------------------------------------------
(* The plan: what of the shift is approved absence, and what is work *)

(* A partial day is an interval of its first date; a full day covers the whole *)
(* shift that begins on one of its dates, also where it crosses midnight.      *)
ApprovedIntervals(sh, rows) ==
  {Interval(r.from, r.to) : r \in {r \in rows : r.kind = "PARTIAL_DAY" /\ r.to > r.from}}
  \cup {Interval(sh.from, sh.to) :
          r \in {r \in rows : r.kind = "FULL_DAY" /\ Date(sh.from) \in r.first..r.last}}

TimeOff(sh, rows) ==
  LET inScope == {r \in rows : r.first <= Date(sh.to) /\ r.last >= Date(sh.from)}
  IN IF sh.kind = "Planned absence" THEN {Interval(sh.from, sh.to)}
     ELSE ToSet(Merge({Clip(i, sh) :
                         i \in {i \in ApprovedIntervals(sh, inScope) : Overlaps(i, sh)}}))

Working(sh, rows) == Subtract(sh, TimeOff(sh, rows))

--------------------------------------------------------------------------------
(* The evidence *)

(* Fault: every row counts for its own length, also where rows overlap. *)
StatusSegmentsOverlapping(sh, until, rows) ==
  {[from |-> Max({sh.from, r.from}), to |-> Min({until, r.to}), category |-> r.category] :
     r \in {r \in rows : r.from < until /\ r.to > sh.from}}

(* Status rows inside the window, made exclusive: between two neighbouring    *)
(* boundaries the row that began last counts, then the one read last.         *)
StatusSegments(sh, until, rows) ==
  LET clipped == {[r EXCEPT !.from = Max({sh.from, @}), !.to = Min({until, @})] :
                    r \in {r \in rows : r.from < until /\ r.to > sh.from}}
      boundaries == {sh.from, until} \cup UNION {{r.from, r.to} : r \in clipped}
      pieces == {p \in boundaries \X boundaries :
                   p[1] < p[2] /\ \A b \in boundaries : b <= p[1] \/ b >= p[2]}
      active(p) == {r \in clipped : r.from < p[2] /\ r.to > p[1]}
      chosen(p) == CHOOSE r \in active(p) :
                     \A o \in active(p) : o.from < r.from \/ (o.from = r.from /\ o.rank <= r.rank)
  IN {[from |-> p[1], to |-> p[2], category |-> chosen(p).category] :
        p \in {p \in pieces : active(p) # {}}}

(* First login and last logout near the shift, over the rows of its dates. *)
LiloEvidence(sh, rows) ==
  LET near == {r \in rows : r.date \in RequiredDates(sh)}
      logins == {r.first : r \in {r \in near : r.first # NoTime
                                   /\ r.first >= sh.from - Reach /\ r.first <= sh.to}}
      logouts == {r.last : r \in {r \in near : r.last # NoTime
                                   /\ r.last >= sh.from /\ r.last <= sh.to + Reach}}
  IN [present |-> near # {},
      first   |-> IF logins = {} THEN NoTime ELSE Min(logins),
      last    |-> IF logouts = {} THEN NoTime ELSE Max(logouts)]

(* Fault: rows are taken to the end of the shift, whatever the time is. *)
EvidenceEndOfShift(sh, asOf) == sh.to

EvidenceEnd(sh, asOf) == IF asOf > sh.from THEN Min({sh.to, asOf}) ELSE sh.from

Least(S) == IF S \ {NoTime} = {} THEN NoTime ELSE Min(S \ {NoTime})

Greatest(S) == IF S \ {NoTime} = {} THEN NoTime ELSE Max(S \ {NoTime})

(* What was seen of the agent.  Status alone says so where it covers enough of *)
(* the elapsed work and shows presence; otherwise the two sources together.    *)
Evaluated(work, gross, segments, record, asOf) ==
  LET covered == TotalMinutes(segments)
      elapsed == MapThenSumSet(LAMBDA w : Minutes(Interval(w.from, Min({w.to, asOf}))), work)
      enough == elapsed # 0 /\ covered * CoverageDen >= CoverageNum * elapsed
      alone == gross # {} /\ enough
      presence == {g \in segments : g.category # "Logged Off"}
      statusFirst == Least({g.from : g \in presence})
      statusLast == Greatest({g.to : g \in presence})
      liloFirst == IF record.first # NoTime /\ record.first <= asOf THEN record.first ELSE NoTime
      liloLast == IF record.last # NoTime THEN Min({record.last, asOf}) ELSE NoTime
  IN [gross        |-> gross,
      lilo         |-> record,
      elapsed      |-> elapsed,
      present      |-> presence # {},
      primary      |-> alone,
      disconnected |-> segments # {} /\ presence = {} /\ enough,
      first        |-> IF alone /\ statusFirst # NoTime THEN statusFirst
                       ELSE Least({liloFirst, statusFirst}),
      last         |-> IF alone /\ statusLast # NoTime THEN statusLast
                       ELSE Greatest({liloLast, statusLast})]

SegmentsAtWork(gross, work) ==
  UNION {{[from |-> c.from, to |-> c.to, category |-> g.category] :
            c \in Intersections(g, work)} : g \in gross}

Seen(sh, work, statusRows, liloRows, asOf) ==
  LET gross == StatusSegments(sh, EvidenceEnd(sh, asOf), statusRows)
  IN Evaluated(work, gross, SegmentsAtWork(gross, work), LiloEvidence(sh, liloRows), asOf)

--------------------------------------------------------------------------------
(* The classification *)

InProgress(sh, asOf) == sh.from <= asOf /\ asOf < sh.to

(* Fault: a shift is not over at the very moment it ends. *)
CompleteAfterEnd(sh, asOf) == asOf > sh.to

Complete(sh, asOf) == asOf >= sh.to

UsablePair(sh, seen) ==
  /\ seen.first # NoTime /\ seen.last # NoTime
  /\ seen.last >= seen.first /\ seen.last > sh.from /\ seen.first < sh.to

Tolerated(parts) == IF TotalMinutes(parts) <= LateTolerance THEN {} ELSE parts

LateParts(sh, work, seen) ==
  IF UsablePair(sh, seen) /\ seen.first > sh.from
  THEN Tolerated(Intersections(Interval(sh.from, Min({seen.first, sh.to})), work))
  ELSE {}

EarlyParts(sh, work, seen, asOf) ==
  IF UsablePair(sh, seen) /\ Complete(sh, asOf) /\ sh.to > seen.last
  THEN Tolerated(Intersections(Interval(Max({seen.last, sh.from}), sh.to), work))
  ELSE {}

(* Fault: an agent without a LILO row counts as one with a blank row. *)
BlankOrMissingLilo(sh, seen, liloDates) ==
  /\ RequiredDates(sh) \subseteq liloDates
  /\ seen.lilo.first = NoTime /\ seen.lilo.last = NoTime

(* A LILO row that is there and blank, while LILO is loaded for every date. *)
BlankLilo(sh, seen, liloDates) ==
  /\ RequiredDates(sh) \subseteq liloDates
  /\ seen.lilo.present /\ seen.lilo.first = NoTime /\ seen.lilo.last = NoTime

NoShowParts(sh, work, seen, liloDates, asOf) ==
  IF /\ BlankLilo(sh, seen, liloDates) \/ seen.disconnected
     /\ sh.kind # "Planned absence" /\ Complete(sh, asOf)
  THEN work ELSE {}

(* Neighbouring segments of one category, between first and last presence. *)
StatusGaps(work, seen, category) ==
  LET matching == ToSet(Merge({Interval(g.from, g.to) :
                                 g \in {g \in seen.gross : g.category = category}}))
      between == Interval(seen.first, seen.last)
  IN IF seen.first = NoTime \/ seen.last <= seen.first THEN {}
     ELSE {p \in UNION {Intersections(Clip(m, between), work) :
                          m \in {m \in matching : Overlaps(m, between)}} :
             Minutes(p) > StatusTolerance}

GapsOf(type, parts) == {[type |-> type, from |-> p.from, to |-> p.to] : p \in parts}

(* The first reason that applies, in the order of the code. *)
Result(sh, planned, seen, gaps, blank, unloaded, asOf) ==
  LET lateShown == TotalMinutes({g \in gaps : g.type = "LATE"}) > 0
      earlyShown == TotalMinutes({g \in gaps : g.type = "EARLY_LEAVE"}) > 0
      noShowShown == TotalMinutes({g \in gaps : g.type = "NO_SHOW"}) > 0
  IN IF asOf < sh.from THEN "Not started"
     ELSE IF InProgress(sh, asOf) THEN
       IF lateShown THEN "Late - shift in progress"
       ELSE IF seen.first = NoTime /\ seen.elapsed > LateTolerance /\ (blank \/ seen.disconnected)
       THEN "Not seen - shift in progress"
       ELSE "Shift in progress"
     ELSE IF unloaded THEN "Data not loaded"
     ELSE IF noShowShown
     THEN IF planned > 0 THEN "No show - partial time off" ELSE "No show"
     ELSE IF seen.first = NoTime /\ seen.last = NoTime THEN "Missing actual evidence"
     ELSE IF seen.first = NoTime \/ seen.last = NoTime THEN "Incomplete actual evidence"
     ELSE IF ~UsablePair(sh, seen) THEN "No schedule overlap"
     ELSE IF lateShown /\ earlyShown THEN "Late + early leave"
     ELSE IF lateShown THEN "Late"
     ELSE IF earlyShown THEN "Early leave"
     ELSE IF planned > 0 THEN "Present - partial time off" ELSE "Present"

Gaps(work, seen, asOf) ==
       GapsOf("NO_SHOW", NoShowParts(shift, work, seen, loaded.lilo, asOf))
  \cup GapsOf("LATE", LateParts(shift, work, seen))
  \cup GapsOf("EARLY_LEAVE", EarlyParts(shift, work, seen, asOf))
  \cup GapsOf("LOGGED_OFF", StatusGaps(work, seen, "Logged Off"))
  \cup GapsOf("UNAVAILABLE", StatusGaps(work, seen, "Unavailable"))

(* No source is loaded for every date of the shift. *)
Unloaded ==
  \A source \in {"status", "lilo"} : ~(RequiredDates(shift) \subseteq loaded[source])

Classified(planned, seen, gaps, asOf) ==
  [result |-> Result(shift, planned, seen, gaps, BlankLilo(shift, seen, loaded.lilo),
                     Unloaded, asOf),
   gaps |-> gaps]

WorkedDay(planned, work, seen, asOf) ==
  Classified(planned, seen, Gaps(work, seen, asOf), asOf)

(* The row of wfm_attendance_agent_day and its rows of wfm_attendance_gap. *)
Day(asOf) ==
  LET planned == TotalMinutes(TimeOff(shift, timeOff))
      work == Working(shift, timeOff)
      fullOff == \/ shift.kind = "Planned absence"
                 \/ Minutes(shift) > 0 /\ planned >= Minutes(shift)
  IN IF shift.kind = "Off" THEN [result |-> "Off", gaps |-> {}]
     ELSE IF fullOff THEN [result |-> "Planned absence", gaps |-> {}]
     ELSE WorkedDay(planned, work, Seen(shift, work, status, lilo, asOf), asOf)

(* CHECK(gap_minutes > 0) of wfm_attendance_gap: a row that breaks it makes *)
(* the insert raise, and the activation it is part of rolls back.           *)
Storable(gaps) == \A g \in gaps : Minutes(g) > 0

--------------------------------------------------------------------------------
(* The day *)

Init ==
  /\ \E p \in Plans :
       /\ shift = p.shift /\ timeOff = p.timeOff
       /\ held = [status |-> p.status, lilo |-> p.lilo]
  /\ status = {} /\ lilo = {}
  /\ loaded = [status |-> {}, lilo |-> {}]
  /\ now = Min(Moments)
  /\ builtAt = NotBuilt /\ day = NoDay

(* A newer export has another row of the agent. *)
ExportStatus ==
  /\ Cardinality(status) < MaxStatus
  /\ \E r \in held.status \ status :
       /\ status' = status \cup {r}
       /\ loaded' = [loaded EXCEPT !.status = @ \cup {Date(r.from)}]
  /\ builtAt' = NotBuilt /\ day' = NoDay
  /\ UNCHANGED <<held, shift, timeOff, lilo, now>>

ExportLilo ==
  /\ Cardinality(lilo) < MaxLilo
  /\ \E r \in held.lilo \ lilo :
       /\ lilo' = lilo \cup {r}
       /\ loaded' = [loaded EXCEPT !.lilo = @ \cup {r.date}]
  /\ builtAt' = NotBuilt /\ day' = NoDay
  /\ UNCHANGED <<held, shift, timeOff, status, now>>

(* Rows of other agents: a date counts as loaded once anyone has a row on it. *)
ExportOthers ==
  /\ \E source \in {"status", "lilo"}, d \in RequiredDates(shift) :
       /\ d \notin loaded[source]
       /\ loaded' = [loaded EXCEPT ![source] = @ \cup {d}]
  /\ builtAt' = NotBuilt /\ day' = NoDay
  /\ UNCHANGED <<held, shift, timeOff, status, lilo, now>>

(* A refresh that finds something changed builds the model again.  One that *)
(* finds nothing changed leaves the active cut, which is no step here.      *)
Refresh ==
  /\ builtAt = NotBuilt
  /\ day' = Day(now)
  /\ Storable(day'.gaps)
  /\ builtAt' = now
  /\ UNCHANGED <<held, evidence, now>>

TimePasses ==
  /\ \E m \in Moments : m > now
  /\ now' = Min({m \in Moments : m > now})
  /\ UNCHANGED <<held, evidence, builtAt, day>>

Next == ExportStatus \/ ExportLilo \/ ExportOthers \/ Refresh \/ TimePasses

Spec == Init /\ [][Next]_vars

--------------------------------------------------------------------------------
(* Properties *)

(* Types; and a cut is built at a moment at which a refresh may run, whatever its *)
(* evidence is evaluated as of (build_attendance_model).                           *)
TypeOK ==
  /\ \E p \in Plans : /\ shift = p.shift /\ timeOff = p.timeOff
                     /\ held = [status |-> p.status, lilo |-> p.lilo]
  /\ status \subseteq held.status /\ lilo \subseteq held.lilo
  /\ loaded \in [status : SUBSET Nat, lilo : SUBSET Nat]
  /\ now \in Moments /\ builtAt \in Moments \cup {NotBuilt}

Ticks(i) == i.from..(i.to - 1)

(* A tick the registers approve, said without intervals. *)
Approved(t) ==
  \E r \in timeOff :
    \/ r.kind = "PARTIAL_DAY" /\ t \in Ticks(r)
    \/ r.kind = "FULL_DAY" /\ Date(shift.from) \in r.first..r.last

(* Every tick of a working shift is in exactly one interval of time off or work, *)
(* and it is time off exactly if a register approves it: _merge and _subtract     *)
(* lose nothing and count nothing twice, however the register rows touch, nest    *)
(* or overlap.                                                                    *)
ShiftPartitioned ==
  shift.kind = "Work" =>
    LET off == TimeOff(shift, timeOff)
        work == Working(shift, timeOff)
    IN \A t \in Ticks(shift) :
         /\ Cardinality({i \in off \cup work : t \in Ticks(i)}) = 1
         /\ Approved(t) <=> \E i \in off : t \in Ticks(i)

(* No moment is held against an agent twice: late arrival, early leave, logged *)
(* off and unavailable fragments do not overlap, although status rows may.     *)
GapsSeparate ==
  \A g, h \in {g \in day.gaps : g.type # "NO_SHOW"} : g = h \/ ~Overlaps(g, h)

(* An agent is only held to work that was planned and has passed: no gap touches *)
(* approved time off, lies outside the shift or has not happened yet, even if an   *)
(* export is ahead of the host's clock.                                            *)
GapsInElapsedWork ==
  \A g \in day.gaps :
    /\ g.to <= builtAt
    /\ \A t \in Ticks(g) : t \in Ticks(shift) /\ ~Approved(t)

(* Missing evidence stays unknown: an agent of whom no export has a row is never *)
(* late, absent or present, whatever is loaded for the other agents.             *)
UnknownStaysUnknown ==
  builtAt # NotBuilt /\ status = {} /\ lilo = {} =>
    /\ day.gaps = {}
    /\ day.result \in {"Off", "Planned absence", "Not started", "Shift in progress",
                            "Data not loaded", "Missing actual evidence"}

(* A cut built after the shift ended says what a cut built later from the same   *)
(* sources would say, so the unchanged answer, which keeps the older one, is     *)
(* right.  (A cut built during the shift is kept as well, and stays provisional.) *)
UnchangedCutSettled ==
  builtAt # NotBuilt /\ builtAt >= shift.to => day = Day(now)

--------------------------------------------------------------------------------
(* What the documentation leads a reader to expect and the code does not keep *)

(* Agent Status owns observed attendance, LILO is fallback evidence: where status *)
(* is primary and shows the agent at work, the day is no no-show.                 *)
StatusOwnsAttendance ==
  LET seen == Seen(shift, Working(shift, timeOff), status, lilo, now)
  IN seen.primary /\ seen.present => \A g \in Day(now).gaps : g.type # "NO_SHOW"

(* Every fragment the model emits satisfies the table it is written to. *)
EveryGapStorable == Storable(Day(now).gaps)
================================================================================
