------------------------------- MODULE CallFacts -------------------------------
(***************************************************************************)
(* Call by Call exports (call_contracts.py).  Each file is read into raw   *)
(* legs in a transaction of its own; publication makes one canonical leg   *)
(* of the copies that overlapping exports have of it, and sums the legs of *)
(* reviewed queues into additive components for each quarter of an hour.   *)
(*                                                                         *)
(* The copies may differ: a later export knows more about the same call.   *)
(***************************************************************************)
EXTENDS Integers, FiniteSets, FiniteSetsExt, Sequences

CONSTANTS
  Exports,      \* contents a file may have: sequences of rows
  Headings,     \* how the columns may be named: with brackets or without
  FileCount,    \* bound: files, named 1..FileCount in the order of names
  Times,        \* modification times
  Mapped,       \* queues with a reviewed mapping
  Suffixed,     \* those of them whose service scope ends in a language
  Roster,       \* agents of the effective roster
  Quarter,      \* ticks in a service interval
  Short,        \* short_abandon_seconds
  Target,       \* target_seconds
  MaxWrites     \* bound: files replaced or deleted after the first export

NoAgent == "no agent"
Blank == 0         \* a column without text
Unknown == -1      \* a time that is missing or unreadable

NoFile == [mtime |-> 0, headings |-> "none", rows |-> <<>>]

(* load_call_policy refuses other rules. *)
ASSUME CallFactsAssumption ==
  /\ FileCount \in Nat \ {0} /\ Times \subseteq Nat \ {0} /\ MaxWrites \in Nat
  /\ Quarter \in Nat \ {0} /\ Short \in Nat /\ Target \in Nat /\ Short < Target
  /\ \A rows \in Exports : /\ rows \in Seq({rows[i] : i \in DOMAIN rows})
                          /\ \A i \in DOMAIN rows : rows[i].response \in Int /\ rows[i].handled \in Int

VARIABLES
  files,      \* the exports on disk
  phase,      \* of the refresh: "idle", "reading", "publishing"
  unread,     \* files that were listed and not read yet
  plans,      \* CallSourcePlans, which stage_call_plans makes the manifest
  raw,        \* wfm_raw_call_leg rows of the generation
  legs,       \* wfm_call_leg of the current cut
  intervals,  \* wfm_service_interval of the current cut
  writes      \* files replaced so far

disk == <<files, writes>>
cut == <<legs, intervals>>
factVars == <<disk, phase, unread, plans, raw, cut>>

--------------------------------------------------------------------------------
(* One row *)

OnRoster(r) == r.agent \in Roster

(* A row is admitted for its agent or for its queue; neither widens the other. *)
Admitted(r) == r.start # Unknown /\ (OnRoster(r) \/ r.queue \in Mapped)

ServiceEligible(r) == r.queue \in Mapped /\ r.inbound

(* The part of a row that tells legs apart.  A call without reference and id is *)
(* known by its whole payload, in which the columns have their raw headings.    *)
CallKey(r, headings) ==
  LET columns == <<r.reference, r.id, r.inbound, r.agent, r.start, r.clearing>>
  IN IF r.reference = Blank /\ r.id = Blank THEN <<columns, r, headings>> ELSE <<columns>>

--------------------------------------------------------------------------------
(* Canonical legs *)

(* Fault: the row number decides before the file does. *)
NewerByRow(x, y) == x.row > y.row \/ (x.row = y.row /\ x.mtime > y.mtime)

(* ORDER BY mtime_ns DESC, source_key DESC, source_row DESC *)
Newer(x, y) ==
  \/ x.mtime > y.mtime
  \/ x.mtime = y.mtime /\ x.key > y.key
  \/ x.mtime = y.mtime /\ x.key = y.key /\ x.row > y.row

(* The first of each partition by call_key. *)
Canonical(rows) == {x \in rows : ~\E y \in rows : y.callKey = x.callKey /\ Newer(y, x)}

--------------------------------------------------------------------------------
(* Service intervals *)

Answered(r) == r.agent # NoAgent \/ r.handled > 0

ShortAbandoned(r) == ~Answered(r) /\ r.response # Unknown /\ r.response < Short

AbandonedWithinTarget(r) ==
  ~Answered(r) /\ r.response # Unknown /\ Short <= r.response /\ r.response < Target

AnsweredWithinTarget(r) == Answered(r) /\ r.response # Unknown /\ r.response < Target

(* Where the scope names the language, the column is not looked at. *)
Language(r) == IF r.queue \in Suffixed THEN "of the scope" ELSE r.language

(* Scopes and designation are those the catalog has for the queue. *)
Slot(r) == <<r.start \div Quarter, r.queue, Language(r)>>

Bucket(S) ==
  LET count(Test(_)) == Cardinality({x \in S : Test(x.data)})
  IN [offered |-> Cardinality(S),
      answered |-> count(Answered), abandoned |-> Cardinality({x \in S : ~Answered(x.data)}),
      short |-> count(ShortAbandoned), abandonedWithin |-> count(AbandonedWithinTarget),
      answeredWithin |-> count(AnsweredWithinTarget),
      handled |-> MapThenSumSet(LAMBDA x : x.data.handled, S)]

(* Fault: the raw legs are summed. *)
ServiceIntervalsOfRaw(canonical) ==
  LET service == {x \in raw : ServiceEligible(x.data)}
  IN [s \in {Slot(x.data) : x \in service} |-> Bucket({x \in service : Slot(x.data) = s})]

ServiceIntervals(canonical) ==
  LET service == {x \in canonical : ServiceEligible(x.data)}
  IN [s \in {Slot(x.data) : x \in service} |-> Bucket({x \in service : Slot(x.data) = s})]

--------------------------------------------------------------------------------
(* The refresh *)

FactsInit ==
  /\ files \in [1..FileCount -> {NoFile} \cup [mtime : Times, headings : Headings, rows : Exports]]
  /\ phase = "idle"
  /\ unread = {}
  /\ plans = {}
  /\ raw = {}
  /\ legs = {} /\ intervals = <<>>
  /\ writes = 0

WriteFile ==
  /\ writes < MaxWrites
  /\ \E k \in 1..FileCount, t \in Times, h \in Headings, rows \in Exports :
       /\ files[k].mtime # t   \* a rewrite that keeps its time: RefreshCoordinator
       /\ files' = [files EXCEPT ![k] = [mtime |-> t, headings |-> h, rows |-> rows]]
  /\ writes' = writes + 1
  /\ UNCHANGED <<phase, unread, plans, raw, cut>>

DeleteFile ==
  /\ writes < MaxWrites
  /\ \E k \in 1..FileCount : files[k] # NoFile /\ files' = [files EXCEPT ![k] = NoFile]
  /\ writes' = writes + 1
  /\ UNCHANGED <<phase, unread, plans, raw, cut>>

(* A refresh begins: a new generation, without rows of its own. *)
List ==
  /\ phase = "idle"
  /\ unread' = {k \in 1..FileCount : files[k] # NoFile}
  /\ phase' = "reading"
  /\ plans' = {} /\ raw' = {}
  /\ UNCHANGED <<disk, cut>>

RawRows(k) ==
  {[key |-> k, mtime |-> files[k].mtime, row |-> i, headings |-> files[k].headings,
    data |-> files[k].rows[i], callKey |-> CallKey(files[k].rows[i], files[k].headings)] :
     i \in {i \in DOMAIN files[k].rows : Admitted(files[k].rows[i])}}

(* preflight_call_source: the rows are committed together, and with the plan. *)
Preflight ==
  /\ phase = "reading" /\ unread # {} /\ files[Min(unread)] # NoFile
  /\ LET k == Min(unread)
         rows == RawRows(k)
     IN /\ raw' = raw \cup rows
        /\ plans' = plans \cup
             {[key |-> k, mtime |-> files[k].mtime, accepted |-> Cardinality(rows),
               service |-> Cardinality({x \in rows : ServiceEligible(x.data)})]}
        /\ unread' = unread \ {k}
  /\ UNCHANGED <<disk, phase, cut>>

AllRead ==
  /\ phase = "reading" /\ unread = {}
  /\ phase' = "publishing"
  /\ UNCHANGED <<disk, unread, plans, raw, cut>>

(* The file is still the one that was read, and its rows are all there. *)
Verified(p) ==
  LET rows == {x \in raw : x.key = p.key}
  IN /\ files[p.key].mtime = p.mtime
     /\ Cardinality(rows) = p.accepted
     /\ Cardinality({x \in rows : ServiceEligible(x.data)}) = p.service

(* publish_call_plans, inside the transaction of the activation.  Without plans *)
(* it returns, and the new generation has neither legs nor intervals.           *)
Publish ==
  /\ phase = "publishing"
  /\ \A p \in plans : Verified(p)
  /\ legs' = Canonical(raw)
  /\ intervals' = ServiceIntervals(legs')
  /\ phase' = "idle"
  /\ UNCHANGED <<disk, unread, plans, raw>>

(* The refresh fails, wherever it is. *)
GiveUp ==
  /\ phase # "idle"
  /\ phase' = "idle"
  /\ UNCHANGED <<disk, unread, plans, raw, cut>>

FactsNext == WriteFile \/ DeleteFile \/ List \/ Preflight \/ AllRead \/ Publish \/ GiveUp

FactsSpec == FactsInit /\ [][FactsNext]_factVars

--------------------------------------------------------------------------------
(* Properties *)

(* Types; and every raw row belongs to the one plan of its file, at the time the *)
(* file had when it was read (preflight_call_source, _require_evidence).          *)
FactsTypeOK ==
  /\ phase \in {"idle", "reading", "publishing"}
  /\ unread \subseteq 1..FileCount
  /\ {p.key : p \in plans} \cap unread = {} \/ phase = "idle"
  /\ Cardinality({p.key : p \in plans}) = Cardinality(plans)
  /\ \A x \in raw : \E p \in plans : p.key = x.key /\ p.mtime = x.mtime
  /\ DOMAIN intervals = {Slot(x.data) : x \in {x \in legs : ServiceEligible(x.data)}}

(* Which rows are copies of one leg: those that agree on reference, id, direction, *)
(* agent, start and clearing party; without reference and id, on every column and   *)
(* on the way the columns are named.                                                *)
SameLeg(x, y) ==
  LET r == x.data
      s == y.data
  IN /\ r.reference = s.reference /\ r.id = s.id /\ r.inbound = s.inbound
     /\ r.agent = s.agent /\ r.start = s.start /\ r.clearing = s.clearing
     /\ (r.reference = Blank /\ r.id = Blank) => (r = s /\ x.headings = y.headings)

(* When a cut has been published, every leg of the exports that was admitted is     *)
(* there once, as the file with the latest time has it, whatever the order in which *)
(* the files were read, however many of them have it, and however often they were   *)
(* replaced or deleted meanwhile.  A leg is what SameLeg says it is: a later copy    *)
(* that fills in the clearing party is another one (call_contracts.py:378-387).     *)
EachLegOnce ==
  [][Publish =>
       \A x \in raw :
         \E leg \in legs' :
           /\ {l \in legs' : SameLeg(l, x)} = {leg}
           /\ leg.mtime >= x.mtime
           /\ leg.mtime = x.mtime => leg.key >= x.key]_factVars

(* Overlapping exports are deduplicated, with bracketed or unbracketed columns       *)
(* (docs/PORTABLE_DEPLOYMENT.md:80-86): no two published legs say the same in every  *)
(* column.  The code does not keep it (call_contracts.py:386-387).                   *)
OverlapsCountOnce == \A x, y \in legs : x.data = y.data => x = y

Total(field(_)) == MapThenSumSet(LAMBDA s : field(intervals[s]), DOMAIN intervals)

(* The intervals are additive: summed over the day they are the canonical legs of *)
(* reviewed queues, each offered once and either answered or abandoned; and no     *)
(* wait is counted twice at the boundaries of the SLA ratios: within an interval    *)
(* a leg is a short abandon, abandoned or answered within target, or none of them. *)
IntervalsAddUp ==
  LET service == {x \in legs : ServiceEligible(x.data)}
      offered(b) == b.offered
      ended(b) == b.answered + b.abandoned
      handled(b) == b.handled
      late(s) == {x \in service : /\ Slot(x.data) = s
                                  /\ x.data.response = Unknown \/ x.data.response >= Target}
  IN /\ Total(offered) = Cardinality(service)
     /\ Total(ended) = Cardinality(service)
     /\ Total(handled) = MapThenSumSet(LAMBDA x : x.data.handled, service)
     /\ \A s \in DOMAIN intervals :
          LET b == intervals[s]
          IN b.short + b.abandonedWithin + b.answeredWithin + Cardinality(late(s)) = b.offered
================================================================================
