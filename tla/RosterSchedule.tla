---------------------------- MODULE RosterSchedule ----------------------------
(***************************************************************************)
(* The roster workbook and the published schedules (source_contracts.py):  *)
(* which roster rows count, whom a schedule cell belongs to, and which of  *)
(* several exports says what an agent works on a day.                      *)
(*                                                                         *)
(* A refresh reads the workbook, then one schedule after the other in the  *)
(* order of their names, while both may be replaced on disk, and publishes *)
(* the snapshot it holds in memory.                                        *)
(***************************************************************************)
EXTENDS Integers, FiniteSets, SequencesExt

CONSTANTS
  Workbooks,     \* contents the FTE workbook may have
  ScheduleTexts, \* contents a StartEndTimes file may have: sequences of cells
  FileCount,     \* bound: schedule files, named 1..FileCount in the order of names
  Times,         \* modification times a schedule file may carry
  Midnight,      \* ticks in a calendar day, the longest a shift may last
  MaxWrites      \* bound: files replaced after the first export

NoId == "no id"      \* blank, or a placeholder such as N/A
NoName == "no name"
NoDate == -1         \* blank
BadDate == -2        \* something that is not a date
NoTime == -1

NoFile == [mtime |-> 0, cells |-> <<>>]
NoCut == [agents |-> {}, shifts |-> {}, timeOff |-> {}, rawRoster |-> {}, raw |-> <<>>]

ASSUME RosterScheduleAssumption ==
  /\ FileCount \in Nat \ {0} /\ Times \subseteq Nat \ {0} /\ MaxWrites \in Nat
  /\ Midnight \in Nat \ {0}
  /\ \A text \in ScheduleTexts : text \in Seq({text[i] : i \in DOMAIN text})
  /\ \A book \in Workbooks : \A sheet \in book.sheets :
       /\ IsFiniteSet(sheet.rows) /\ \A r \in sheet.rows : r.row \in Nat
       /\ \A r, s \in sheet.rows : r.row = s.row => r = s

VARIABLES
  workbook,   \* the FTE workbook on disk
  files,      \* the schedule files on disk
  phase,      \* of the refresh: "idle", "listing", "reading", "publishing"
  roster,     \* FteSnapshot in memory
  unread,     \* schedule files that were listed and not read yet
  schedules,  \* ScheduleSnapshots in memory, in the order they were read
  cut,        \* the published rows
  writes      \* files replaced so far

disk == <<workbook, files, writes>>
vars == <<disk, phase, roster, unread, schedules, cut>>

--------------------------------------------------------------------------------
(* The roster *)

(* The header that is taken: the only one of the highest tier.  A sheet with *)
(* two columns for one field makes the workbook unusable.                    *)
RosterSheets(book) ==
  LET complete == {s \in book.sheets : s.tier > 0 /\ s.headers = "complete"}
  IN IF \E s \in book.sheets : s.tier > 0 /\ s.headers = "ambiguous" THEN {}
     ELSE {s \in complete : \A o \in complete : o.tier <= s.tier}

RowValid(r) ==
  /\ r.name # NoName
  /\ \/ r.status = "Active" /\ r.end = NoDate
     \/ r.status = "Leaver" /\ r.end \in Nat
  /\ r.fteReadable

(* The larger of two rows with one id: employed before left, then the later *)
(* end date, then the lower row of the sheet.                               *)
Outranks(r, s) ==
  \/ r.status = "Active" /\ s.status # "Active"
  \/ /\ (r.status = "Active") <=> (s.status = "Active")
     /\ r.end > s.end \/ (r.end = s.end /\ r.row > s.row)

(* Fault: the winner is looked for among all rows, valid or not. *)
ValidAgentsAfterChoosing(rows) ==
  {r \in rows : /\ RowValid(r)
                /\ r.id # NoId => ~\E s \in rows : s.id = r.id /\ Outranks(s, r)}

(* Rows that count, once one of each duplicated id has been chosen. *)
ValidAgents(rows) ==
  {r \in rows : /\ RowValid(r)
                /\ r.id # NoId => ~\E s \in rows : RowValid(s) /\ s.id = r.id /\ Outranks(s, r)}

EligibleOn(r, day) == r.status = "Active" \/ day <= r.end

(* Fault: the first of several bearers of a name is taken. *)
ResolveFirstOfName(agents, id, name, day) ==
  LET byId == {a \in agents : a.id = id}
      named == {a \in agents : a.name = name}
      first == {a \in named : \A b \in named : a.row <= b.row}
  IN IF id = NoId THEN {}
     ELSE {a \in (IF byId # {} THEN byId ELSE first) : EligibleOn(a, day)}

(* The agent of a dated row, if any: by id, else by a name only one row has.  *)
(* A row matched by name keeps its own id, so one without an id has no agent. *)
Resolve(agents, id, name, day) ==
  LET byId == {a \in agents : a.id = id}
      named == {a \in agents : a.name = name}
  IN IF id = NoId THEN {}
     ELSE {a \in (IF byId # {} THEN byId ELSE IF Cardinality(named) = 1 THEN named ELSE {}) :
             EligibleOn(a, day)}

(* What a row of the PTO or Away register must say to be canonical. *)
TimeOffValid(t, agents, rows) ==
  /\ t.id # NoId /\ \E a \in agents : a.id = t.id
  /\ t.first \in Nat /\ t.last # BadDate
  /\ t.last \in Nat => t.last >= t.first
  /\ t.typed
  /\ \/ /\ t.kind = "PTO" /\ t.last \in Nat
        /\ \/ t.coverage = "FULL_DAY"
           \/ t.coverage = "PARTIAL_DAY" /\ t.first = t.last /\ t.from # NoTime /\ t.to > t.from
        /\ t.status \in {"APPROVED", "PENDING", "CANCELLED"}
     \/ /\ t.kind = "AWAY"
        /\ t.status \in {"ACTIVE", "PLANNED", "CLOSED", "CANCELLED"}
        /\ t.last = NoDate => t.status = "ACTIVE"

--------------------------------------------------------------------------------
(* The schedules *)

CellValid(c) ==
  c.kind = "OFF" \/ /\ c.from # NoTime
                    /\ c.from \div Midnight = c.day
                    /\ c.to > c.from
                    /\ c.to \div Midnight \in {c.day, c.day + 1}
                    /\ c.to - c.from <= Midnight

Scoped(agents, c) == [cell |-> c, inScope |-> Resolve(agents, c.id, c.name, c.day) # {}]

(* The rows of a snapshot in the order of their files, each with its rank. *)
SnapshotRows(snapshot) ==
  FlattenSeq([n \in DOMAIN snapshot |->
                [i \in DOMAIN snapshot[n].rows |->
                   [cell |-> snapshot[n].rows[i].cell, inScope |-> snapshot[n].rows[i].inScope,
                    mtime |-> snapshot[n].mtime, key |-> snapshot[n].key, row |-> i]]])

(* (mtime, key, row) of one is greater than that of the other. *)
Newer(r, s) ==
  \/ r.mtime > s.mtime
  \/ r.mtime = s.mtime /\ r.key > s.key
  \/ r.mtime = s.mtime /\ r.key = s.key /\ r.row > s.row

SameSlot(r, s) == r.cell.id = s.cell.id /\ r.cell.day = s.cell.day

(* Fault: whatever is read later replaces what is there. *)
CanonicalShiftsLastRead(rows) ==
  LET put(shifts, r) ==
        IF ~r.inScope THEN shifts ELSE {s \in shifts : ~SameSlot(r, s)} \cup {r}
  IN FoldLeft(put, {}, rows)

(* canonical_schedule: one row for each client and date, replaced by newer ones. *)
CanonicalShifts(rows) ==
  LET put(shifts, r) ==
        LET there == {s \in shifts : SameSlot(r, s)}
        IN IF ~r.inScope \/ \E s \in there : ~Newer(r, s) THEN shifts
           ELSE (shifts \ there) \cup {r}
  IN FoldLeft(put, {}, rows)

(* canonical_agents: the valid rows with an id, and under each id that was *)
(* reached by name the row of the first cell that has it (setdefault).      *)
CanonicalAgents(agents, rows) ==
  LET put(canonical, r) ==
        IF ~r.inScope \/ \E c \in canonical : c.client = r.cell.id THEN canonical
        ELSE canonical \cup {[client |-> r.cell.id, agent |-> a] :
                               a \in Resolve(agents, r.cell.id, r.cell.name, r.cell.day)}
  IN FoldLeft(put, {[client |-> a.id, agent |-> a] : a \in {a \in agents : a.id # NoId}}, rows)

--------------------------------------------------------------------------------
(* The refresh *)

Init ==
  /\ workbook \in Workbooks
  /\ files \in [1..FileCount -> {NoFile} \cup [mtime : Times, cells : ScheduleTexts]]
  /\ phase = "idle"
  /\ roster = [rows |-> {}, agents |-> {}, timeOff |-> {}]
  /\ unread = {}
  /\ schedules = <<>>
  /\ cut = NoCut
  /\ writes = 0

WriteWorkbook ==
  /\ writes < MaxWrites
  /\ workbook' \in Workbooks \ {workbook}
  /\ writes' = writes + 1
  /\ UNCHANGED <<files, phase, roster, unread, schedules, cut>>

(* A file may carry an older time than the one it replaces: copies keep theirs. *)
WriteSchedule ==
  /\ writes < MaxWrites
  /\ \E k \in 1..FileCount, t \in Times, text \in ScheduleTexts :
       files' = [files EXCEPT ![k] = [mtime |-> t, cells |-> text]]
  /\ writes' = writes + 1
  /\ UNCHANGED <<workbook, phase, roster, unread, schedules, cut>>

(* parse_fte_workbook; a workbook without one authoritative table, or with an *)
(* empty one, raises and ends the refresh.                                    *)
ReadRoster ==
  /\ phase = "idle"
  /\ \E sheet \in RosterSheets(workbook) :
       /\ RosterSheets(workbook) = {sheet}
       /\ sheet.rows # {}
       /\ LET agents == ValidAgents(sheet.rows)
          IN roster' = [rows |-> sheet.rows, agents |-> agents,
                        timeOff |-> {t \in workbook.registers :
                                       TimeOffValid(t, agents, sheet.rows)}]
  /\ schedules' = <<>>
  /\ phase' = "listing"
  /\ UNCHANGED <<disk, unread, cut>>

(* Schedules are required. *)
ListSchedules ==
  /\ phase = "listing"
  /\ unread' = {k \in 1..FileCount : files[k] # NoFile}
  /\ unread' # {}
  /\ phase' = "reading"
  /\ UNCHANGED <<disk, roster, schedules, cut>>

NextToRead == CHOOSE k \in unread : \A j \in unread : k <= j

(* The file as it is now, its cells scoped by the given agents. *)
Parsed(k, agents) ==
  [key |-> k, mtime |-> files[k].mtime,
   rows |-> [i \in DOMAIN files[k].cells |-> Scoped(agents, files[k].cells[i])]]

(* Fault: cells are scoped by the workbook that is there now. *)
ReadScheduleWithRosterOnDisk ==
  /\ phase = "reading" /\ unread # {}
  /\ schedules' = Append(schedules,
       Parsed(NextToRead, UNION {ValidAgents(s.rows) : s \in RosterSheets(workbook)}))
  /\ unread' = unread \ {NextToRead}
  /\ UNCHANGED <<disk, phase, roster, cut>>

(* parse_start_end_times of the next file by name, with the roster in memory. *)
ReadSchedule ==
  /\ phase = "reading" /\ unread # {}
  /\ schedules' = Append(schedules, Parsed(NextToRead, roster.agents))
  /\ unread' = unread \ {NextToRead}
  /\ UNCHANGED <<disk, phase, roster, cut>>

AllRead ==
  /\ phase = "reading" /\ unread = {}
  /\ phase' = "publishing"
  /\ UNCHANGED <<disk, roster, unread, schedules, cut>>

(* Nothing the tables refuse: a canonical shift has an assignment (NOT NULL). *)
Storable(shifts) == \A s \in shifts : s.cell.kind = "OFF" \/ s.cell.labelled

(* publish_source_snapshot.  Any invalid cell is a finding of severity error, *)
(* also outside the roster's scope, and blocks the whole snapshot.             *)
Publish ==
  /\ phase = "publishing"
  /\ LET rows == SnapshotRows(schedules)
         shifts == CanonicalShifts(rows)
     IN /\ \A i \in DOMAIN rows : CellValid(rows[i].cell)
        /\ Storable(shifts)
        /\ cut' = [agents |-> CanonicalAgents(roster.agents, rows), shifts |-> shifts,
                   timeOff |-> roster.timeOff, rawRoster |-> roster.rows, raw |-> rows]
  /\ phase' = "idle"
  /\ UNCHANGED <<disk, roster, unread, schedules>>

(* The refresh fails, wherever it is: nothing of it is published. *)
GiveUp ==
  /\ phase # "idle"
  /\ phase' = "idle"
  /\ UNCHANGED <<disk, roster, unread, schedules, cut>>

Next ==
  \/ WriteWorkbook \/ WriteSchedule
  \/ ReadRoster \/ ListSchedules \/ ReadSchedule \/ AllRead \/ Publish \/ GiveUp

Spec == Init /\ [][Next]_vars

--------------------------------------------------------------------------------
(* Properties *)

(* Types; and a refresh holds each listed file at most once, in the order of names, *)
(* and only rows of the workbook it has read itself (_discover_schedules).           *)
TypeOK ==
  /\ workbook \in Workbooks
  /\ \A k \in 1..FileCount :
       files[k] = NoFile \/ (files[k].mtime \in Times /\ files[k].cells \in ScheduleTexts)
  /\ phase \in {"idle", "listing", "reading", "publishing"}
  /\ roster.agents \subseteq roster.rows
  /\ Len(schedules) <= FileCount
  /\ \A n \in 1..Len(schedules) - 1 : schedules[n].key < schedules[n + 1].key
  /\ writes \in 0..MaxWrites

RawRows == {cut.raw[i] : i \in DOMAIN cut.raw}

(* Whatever the order in which files are read, each agent has one shift on a day  *)
(* that some file schedules, and it is the one in the file with the latest time    *)
(* (the last name, the last row where times are equal).                            *)
NewestScheduleWins ==
  \A r \in {r \in RawRows : r.inScope} :
    /\ Cardinality({s \in cut.shifts : SameSlot(r, s)}) = 1
    /\ \A s \in cut.shifts : SameSlot(r, s) => s = r \/ Newer(s, r)

(* Whoever has a shift or an absence is exactly one agent of the canonical roster, *)
(* also under an operational id the roster does not have, as the foreign keys of    *)
(* wfm_schedule_shift and wfm_time_off demand; and a shift of such an id was         *)
(* matched by a name that exactly one valid row carries, never by a guess.          *)
ShiftsHaveOneAgent ==
  LET agents == ValidAgents(cut.rawRoster)
  IN /\ \A s \in cut.shifts :
          /\ Cardinality({c \in cut.agents : c.client = s.cell.id}) = 1
          /\ \/ \E a \in agents : a.id = s.cell.id
             \/ Cardinality({a \in agents : a.name = s.cell.name}) = 1
     /\ \A t \in cut.timeOff :
          Cardinality({c \in cut.agents : c.client = t.id}) = 1

(* A is whom a cell means: the agent of its id or, where nobody has the id, the *)
(* only one of its name.                                                          *)
MeantBy(c, a, agents) ==
  /\ c.id # NoId
  /\ \/ a.id = c.id
     \/ /\ a.name = c.name
        /\ \A b \in agents : b.id # c.id /\ (b.name = c.name => b = a)

(* A cut is scoped by the very roster it publishes, although the workbook may be   *)
(* replaced between the reading of one file and the next: of all the cells that    *)
(* were read, those of people whom that roster has employed on the day are in       *)
(* scope, by id or by name, and no others; and only such a cell becomes a shift.    *)
(* (Under which row an id matched by name is published: ShiftUnderItsOwnAgent.)     *)
CutOfOneRoster ==
  LET agents == ValidAgents(cut.rawRoster)
  IN /\ \A r \in RawRows :
          r.inScope <=> \E a \in agents : MeantBy(r.cell, a, agents) /\ EligibleOn(a, r.cell.day)
     /\ \A s \in cut.shifts : s \in RawRows /\ s.inScope

(* An id that appears twice keeps exactly one row if any of them is usable, and an *)
(* agent still employed is not lost to an older or a broken row.                   *)
DuplicatesKeepOne ==
  \A r \in {r \in cut.rawRoster : RowValid(r) /\ r.id # NoId} :
    \E c \in cut.agents :
      /\ {d \in cut.agents : d.client = r.id} = {c}
      /\ c.agent.id = r.id
      /\ r.status = "Active" => c.agent.status = "Active"

--------------------------------------------------------------------------------
(* What the documentation leads a reader to expect and the code does not keep *)

(* Identity is not invented: the shift of an agent belongs to whom the canonical *)
(* roster names under its id.                                                    *)
ShiftUnderItsOwnAgent ==
  \A s \in cut.shifts : \A c \in cut.agents :
    c.client = s.cell.id /\ c.agent.id # s.cell.id => c.agent.name = s.cell.name

(* A schedule without findings can be stored. *)
ValidScheduleStorable ==
  phase = "publishing" /\ (\A i \in DOMAIN SnapshotRows(schedules) :
                             CellValid(SnapshotRows(schedules)[i].cell))
    => Storable(CanonicalShifts(SnapshotRows(schedules)))
================================================================================
