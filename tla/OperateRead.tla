------------------------------ MODULE OperateRead ------------------------------
(***************************************************************************)
(* What the host answers while refreshes go on: Operate evidence           *)
(* (operate_evidence.py), the Flash comparison (flash_parity.py) and the   *)
(* source health (RtaRefreshCoordinator.source_health).                    *)
(*                                                                         *)
(* The two queries take a snapshot of the database when they first read    *)
(* it, and look at the folder pointer once inside and once after it.  The  *)
(* health reads the pointer first and then the database one statement at a *)
(* time, each of them seeing what is committed at that moment.             *)
(*                                                                         *)
(* None of them writes anything another could see, so the module follows   *)
(* one request, whichever it is, while the surroundings move.              *)
(***************************************************************************)
EXTENDS Naturals, FiniteSets, FiniteSetsExt, Sequences

CONSTANTS
  Roots,         \* source folders; catalog_fingerprint tells them apart
  Unusable,      \* a pointer that names no folder
  Cuts,          \* for each generation the service intervals it may have: sets of rows
  Days,          \* business dates
  Scopes,        \* pairs of a service and a comparison scope
  DefaultScope,  \* a request that names no scope
  Profiles,      \* Flash profiles in the order of the catalog: id, from, to, queues
  DefaultProfile,\* a request that names no profile
  Requests,      \* which request it may be: "operate", "flash" or "health"
  MaxIntervals,  \* _MAX_INTERVALS
  MaxScopes,     \* _MAX_SCOPE_OPTIONS
  PerHour,       \* intervals in an hour
  MayUndo,       \* whether an activation is undone: nothing in the host does it
  MaxGen,        \* bound: generations
  MaxMoves       \* bound: how often the pointer is set

ASSUME OperateReadAssumption ==
  /\ Unusable \notin Roots /\ DefaultScope \notin Scopes
  /\ MaxIntervals \in Nat \ {0} /\ MaxScopes \in Nat \ {0} /\ PerHour \in Nat \ {0}
  /\ MayUndo \in BOOLEAN /\ MaxGen \in Nat /\ MaxMoves \in Nat
  /\ \A g \in 1..MaxGen : \A rows \in Cuts[g] :
       IsFiniteSet(rows) /\ \A r \in rows : r.slot \in Nat /\ r.offered \in Nat

VARIABLES
  gens,     \* wfm_refresh_generation with its service intervals
  active,   \* wfm_active_generation, 0 when it names none
  pointer,  \* data/source-root.txt
  moves,    \* how often it was set
  request,  \* which one it is
  pc,       \* where it is
  local,    \* its parameters and what it has read
  answer,   \* what it returned
  seen      \* history: <<active, pointer>> at every moment of it

database == <<gens, active>>
progress == <<pc, local, answer>>
vars == <<database, pointer, moves, request, progress, seen>>

NoAnswer == [status |-> "none"]
NotReady(why) == [status |-> "not_ready", reason |-> why]
Refused(why) == [status |-> why]
Ready(reply) == reply.status = "ready"

FirstLocal == [day |-> 0, choice |-> DefaultScope, cut |-> 0, latest |-> 0,
               catalog |-> Unusable]

Total(rows) == MapThenSumSet(LAMBDA r : r.offered, rows)
Slots(rows) == {r.slot : r \in rows}

(* LIMIT over what is ordered by time. *)
FirstSlots(slots, n) == {s \in slots : Cardinality({t \in slots : t < s}) < n}

(* Fault: the limit of the query is the limit of the answer. *)
IntervalsCutOff(rows) ==
  [s \in FirstSlots(Slots(rows), MaxIntervals) |-> Total({r \in rows : r.slot = s})]

(* GROUP BY interval: at most one more than may be answered. *)
Intervals(rows) ==
  [s \in FirstSlots(Slots(rows), MaxIntervals + 1) |-> Total({r \in rows : r.slot = s})]

RowsOf(g, day) == {r \in gens[g].rows : r.day = day}

--------------------------------------------------------------------------------
(* The surroundings: refreshes commit, the folder is set, an activation undone *)

Watch ==
  /\ UNCHANGED <<request, progress>>
  /\ seen' = IF pc \in {"idle", "done"} THEN seen ELSE seen \cup {<<active', pointer'>>}

BeginGeneration ==
  /\ pointer \in Roots /\ Len(gens) < MaxGen
  /\ \A g \in DOMAIN gens : gens[g].status # "running"
  /\ gens' = Append(gens, [status |-> "running", root |-> pointer, base |-> active, rows |-> {}])
  /\ UNCHANGED <<active, pointer, moves>>
  /\ Watch

Activate ==
  \E g \in DOMAIN gens : \E rows \in Cuts[g] :
    /\ gens[g].status = "running" /\ gens[g].base = active
    /\ gens' = [gens EXCEPT ![g].status = "succeeded", ![g].rows = rows]
    /\ active' = g
    /\ UNCHANGED <<pointer, moves>>
    /\ Watch

FailGeneration ==
  \E g \in DOMAIN gens :
    /\ gens[g].status = "running"
    /\ gens' = [gens EXCEPT ![g].status = "failed"]
    /\ UNCHANGED <<active, pointer, moves>>
    /\ Watch

Undo ==
  /\ MayUndo /\ active # 0
  /\ active' = gens[active].base
  /\ UNCHANGED <<gens, pointer, moves>>
  /\ Watch

SetPointer ==
  /\ moves < MaxMoves
  /\ \E r \in (Roots \cup {Unusable}) \ {pointer} : pointer' = r
  /\ moves' = moves + 1
  /\ UNCHANGED database
  /\ Watch

--------------------------------------------------------------------------------
(* Steps of a request *)

Go(step, known) ==
  /\ pc' = step
  /\ local' = known
  /\ UNCHANGED <<database, pointer, moves, request, answer>>

Reply(result) ==
  /\ pc' = "done"
  /\ answer' = result
  /\ UNCHANGED <<database, pointer, moves, request, local, seen>>

ActiveProfiles(day) ==
  SelectSeq(Profiles, LAMBDA p : p.from <= day /\ (p.to = 0 \/ day <= p.to))

Ask(day, choice) ==
  /\ Go("asked", [FirstLocal EXCEPT !.day = day, !.choice = choice])
  /\ seen' = {<<active, pointer>>}

AskOperate ==
  /\ request = "operate" /\ pc = "idle"
  /\ \E day \in Days, s \in Scopes \cup {DefaultScope} : Ask(day, s)

(* The requested profile, or the first one that is in force. *)
AskFlash ==
  /\ request = "flash" /\ pc = "idle"
  /\ \E day \in Days :
       \E wanted \in {Profiles[i].id : i \in DOMAIN Profiles} \cup {DefaultProfile} :
         LET inForce == ActiveProfiles(day)
             chosen == SelectSeq(inForce, LAMBDA p : wanted \in {p.id, DefaultProfile})
         IN IF chosen = <<>> THEN Reply(Refused("bad_request")) ELSE Ask(day, chosen[1])

(* BEGIN is deferred: the first SELECT takes the snapshot. *)
TakeSnapshot ==
  /\ pc = "asked"
  /\ IF active = 0 \/ gens[active].status # "succeeded"
       THEN Reply(NotReady("NO_ACTIVE_GENERATION"))
       ELSE Go("snapshot", [local EXCEPT !.cut = active]) /\ UNCHANGED seen

(* Fault: the folder that is found is taken for the folder of the cut. *)
FindFolderUncompared ==
  /\ pc = "snapshot"
  /\ IF pointer = Unusable
       THEN Reply(NotReady("SOURCE_ROOT_UNAVAILABLE"))
       ELSE Go("found", [local EXCEPT !.catalog = pointer]) /\ UNCHANGED seen

FindFolder ==
  /\ pc = "snapshot"
  /\ IF pointer = Unusable
       THEN Reply(NotReady("SOURCE_ROOT_UNAVAILABLE"))
     ELSE IF gens[local.cut].root # pointer
       THEN Reply(NotReady("SOURCE_ROOT_CHANGED"))
     ELSE Go("found", [local EXCEPT !.catalog = pointer]) /\ UNCHANGED seen

OperateAnswer(g, day, choice) ==
  LET rows == RowsOf(g, day)
      scopes == {r.scope : r \in rows}
      selected == IF choice = DefaultScope /\ scopes # {}
                    THEN CHOOSE s \in scopes : \A t \in scopes : s <= t
                    ELSE choice
      intervals == Intervals({r \in rows : r.scope = selected})
  IN IF Cardinality(scopes) > MaxScopes THEN Refused("unavailable")
     ELSE IF selected \notin scopes \cup {DefaultScope} THEN Refused("bad_request")
     ELSE IF Cardinality(DOMAIN intervals) > MaxIntervals THEN Refused("unavailable")
     ELSE [status |-> "ready", cut |-> g, scopes |-> scopes, selected |-> selected,
           intervals |-> intervals]

Hours(intervals) ==
  [h \in {s \div PerHour : s \in DOMAIN intervals} |->
     MapThenSumSet(LAMBDA s : intervals[s], {s \in DOMAIN intervals : s \div PerHour = h})]

FlashAnswer(g, day, profile) ==
  LET intervals == Intervals({r \in RowsOf(g, day) : r.queue \in profile.queues})
      hours == Hours(intervals)
  IN IF Cardinality(DOMAIN intervals) > MaxIntervals THEN Refused("unavailable")
     ELSE [status |-> "ready", cut |-> g, hours |-> hours,
           totals |-> MapThenSumSet(LAMBDA h : hours[h], DOMAIN hours)]

(* The rows are those of the snapshot; a succeeded generation does not change, *)
(* so it does not matter when they are fetched.                                *)
Result ==
  IF request = "operate" THEN OperateAnswer(local.cut, local.day, local.choice)
                         ELSE FlashAnswer(local.cut, local.day, local.choice)

Refuse == pc = "found" /\ ~Ready(Result) /\ Reply(Result)

LookAgain ==
  /\ pc = "found" /\ Ready(Result)
  /\ Reply(IF pointer = local.catalog THEN Result ELSE NotReady("SOURCE_ROOT_CHANGED"))

Query == AskOperate \/ AskFlash \/ TakeSnapshot \/ FindFolder \/ Refuse \/ LookAgain

--------------------------------------------------------------------------------
(* source_health: pointer, active row, latest row, summaries; no transaction *)

HealthFolder ==
  /\ request = "health" /\ pc = "idle"
  /\ Go("first", [FirstLocal EXCEPT !.catalog = pointer])
  /\ seen' = {<<active, pointer>>}

(* Fault: the latest row is read before the active one. *)
HealthOrderSwapped == [first |-> "latest", second |-> "active"]

HealthOrder == [first |-> "active", second |-> "latest"]

HealthRow(step, next) ==
  /\ pc = step
  /\ Go(next, IF HealthOrder[step] = "active" THEN [local EXCEPT !.cut = active]
                                             ELSE [local EXCEPT !.latest = Len(gens)])
  /\ UNCHANGED seen

HealthReply ==
  LET g == local.cut
      latest == local.latest
      ready == g # 0 /\ gens[g].root = local.catalog
  IN /\ pc = "summary"
     /\ Reply([status |-> IF local.catalog = Unusable THEN "configuration_error"
                          ELSE IF ready THEN "ready"
                          ELSE IF g # 0 THEN "source_changed" ELSE "not_ready",
               cut |-> g, latest |-> latest,
               refresh |-> IF latest = 0 THEN "none" ELSE gens[latest].status])

Health ==
  HealthFolder \/ HealthRow("first", "second") \/ HealthRow("second", "summary") \/ HealthReply

Init ==
  /\ gens = <<>> /\ active = 0 /\ moves = 0
  /\ pointer \in Roots
  /\ request \in Requests
  /\ pc = "idle" /\ local = FirstLocal /\ answer = NoAnswer /\ seen = {}

Next ==
  \/ BeginGeneration \/ Activate \/ FailGeneration \/ Undo \/ SetPointer
  \/ Query
  \/ Health

Spec == Init /\ [][Next]_vars

--------------------------------------------------------------------------------
(* Properties *)

(* Types: where the request is, what it remembers, and that nothing but a
   succeeded generation is active. *)
TypeOK ==
  /\ active \in 0..Len(gens) /\ Len(gens) <= MaxGen /\ moves \in 0..MaxMoves
  /\ active # 0 => gens[active].status = "succeeded"
  /\ pointer \in Roots \cup {Unusable} /\ request \in Requests
  /\ pc \in {"idle", "asked", "snapshot", "found", "first", "second", "summary", "done"}
  /\ local.cut \in 0..Len(gens) /\ local.catalog \in Roots \cup {Unusable}
  /\ (pc = "done") <=> (answer # NoAnswer)

ReadyAnswer == request # "health" /\ Ready(answer)

(* A ready answer of either query rests on a generation that was active, and on
   a folder, that generation's own, that was selected, while the request was
   under way (operate_evidence.py:114-118 and 240, flash_parity.py:195-199 and 228). *)
ReadyWasTrue ==
  ReadyAnswer => \E w, v \in seen : w[1] = answer.cut /\ v[2] = gens[answer.cut].root

(* A ready answer leaves nothing out: no row of its day and scope, or of its
   day and queues, is lost to a limit or counted in two hours
   (operate_evidence.py:189, flash_parity.py:213 and 230-241). *)
NothingCutOff ==
  LET rows == {r \in gens[answer.cut].rows : r.day = local.day}
      said == MapThenSumSet(LAMBDA s : answer.intervals[s], DOMAIN answer.intervals)
  IN ReadyAnswer =>
       IF request = "operate" THEN said = Total({r \in rows : r.scope = answer.selected})
       ELSE answer.totals = Total({r \in rows : r.queue \in local.choice.queues})

(* The health never calls a generation active that is newer than the one it
   calls the latest, although its statements see different states of the
   database: the active row is read first (rta_refresh.py:928-933). *)
LatestNotOlder ==
  request = "health" /\ pc = "done" => answer.cut <= answer.latest

--------------------------------------------------------------------------------
(* What the documentation leads a reader to expect and the code does not keep *)

(* docs/REFRESH_ENGINE.md:140: "A missing or changed source root suppresses the
   result rather than presenting an old cut as current."  Read as: at some moment
   of the request the generation was active and its folder the selected one. *)
ReadyWasCurrent ==
  ReadyAnswer => <<answer.cut, gens[answer.cut].root>> \in seen
================================================================================
