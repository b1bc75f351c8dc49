------------------------ MODULE RefreshCoordinatorProofs ------------------------
(***************************************************************************)
(* What holds of the coordinator for every number of threads, files,       *)
(* folders and generations: the refresh lock and the progress it shows,    *)
(* the types of its locals and tables, and that the store sees only the    *)
(* store's own operations, so that the invariants of RefreshStoreProofs    *)
(* are invariants of the coordinator.                                      *)
(*                                                                         *)
(* Then what a refresh publishes: a cut is read from one folder, a failure *)
(* changes nothing that is served, the raw rows of a cut were parsed from  *)
(* the bytes it records, the last look at the files and the fast path tell *)
(* the truth about bytes.  The code compares sizes and times, never bytes, *)
(* at the places the last three are about.  They rest on one assumption    *)
(* about the surroundings, QuietRewrites = FALSE: a file that is rewritten *)
(* gets a size and time it did not have before.  The others hold without.  *)
(***************************************************************************)
EXTENDS RefreshCoordinator, FiniteSetTheorems, TLAPS

(* The property, the types of the variables it speaks of, and why the release of
   the lock leaves no progress behind: the finally clause clears it first.  It is
   inductive: a thread leaves the outside only with the lock and returns without. *)
Shown ==
  /\ lock \in Thread \cup {NoThread}
  /\ progress \in BOOLEAN
  /\ pc \in [Thread -> PC]
  /\ \A t \in Thread : pc[t] = "release" => ~progress
  /\ OneRefreshShown

Inside == PC \ Outside

(* A refresh that goes on inside, keeps the lock, and has reported itself if it
   enters the stages that are shown, keeps the invariant. *)
LEMMA GoingOn ==
  ASSUME Shown, NEW t \in Thread, NEW from \in Inside, NEW to \in Inside,
         to # "release", Go(t, from, to), lock' = lock,
         \/ progress' = TRUE
         \/ progress' = progress /\ (from \in Reported \/ to \notin Reported)
  PROVE  Shown'
<1>1. pc[t] = from /\ pc' = [pc EXCEPT ![t] = to]
  BY DEF Go
<1>2. lock = t
  BY <1>1 DEF Shown, OneRefreshShown, Inside
<1>3. \A u \in Thread : pc'[u] = IF u = t THEN to ELSE pc[u]
  BY <1>1 DEF Shown
<1>4. \A u \in Thread : pc'[u] \notin Outside <=> lock' = u
  BY <1>2, <1>3 DEF Shown, OneRefreshShown, Inside
<1>5. lock' # NoThread
  BY <1>2, CoordinatorAssumption
<1>6. \A u \in Thread : pc'[u] \in Reported => progress'
  BY <1>1, <1>3 DEF Shown, OneRefreshShown
<1>7. \A u \in Thread : pc'[u] # "release"
  <2>1. "release" \notin Outside
    BY DEF Outside
  <2> QED
    BY <1>2, <1>3, <2>1 DEF Shown, OneRefreshShown
<1>8. /\ pc' \in [Thread -> PC]
      /\ lock' \in Thread \cup {NoThread} /\ progress' \in BOOLEAN
  BY <1>1 DEF Shown, Inside
<1> QED
  BY <1>4, <1>5, <1>6, <1>7, <1>8 DEF Shown, OneRefreshShown

(* A thread that goes on outside, or nobody moving at all, keeps it as well. *)
LEMMA StayingOut ==
  ASSUME Shown, NEW t \in Thread, NEW from \in Outside, NEW to \in Outside,
         Go(t, from, to), lock' = lock, progress' = progress
  PROVE  Shown'
<1>1. pc[t] = from /\ pc' = [pc EXCEPT ![t] = to]
  BY DEF Go
<1>2. Outside \cap Reported = {} /\ Outside \subseteq PC /\ "release" \notin Outside
  BY DEF Outside, Reported, Stages, PC
<1>3. \A u \in Thread : pc'[u] = IF u = t THEN to ELSE pc[u]
  BY <1>1 DEF Shown
<1>4. pc' \in [Thread -> PC]
  BY <1>1, <1>2 DEF Shown
<1> QED
  BY <1>1, <1>2, <1>3, <1>4 DEF Shown, OneRefreshShown

(* The stages in terms of the two sets the invariant is about. *)
LEMMA Places ==
  /\ Stages \subseteq Inside /\ {"failing", "clear", "release"} \subseteq Inside
  /\ Reported = Stages \ {"resolve"}
  /\ Outside = {"idle", "reply"} /\ Outside \subseteq PC
  /\ Outside \cap Reported = {}
BY DEF Stages, Inside, Outside, Reported, PC

LEMMA EnterShown ==
  ASSUME Shown, NEW t \in Thread, Enter(t)
  PROVE  Shown'
<1>1. pc[t] = "idle" /\ pc' = [pc EXCEPT ![t] = "resolve"]
  BY DEF Enter, Go
<1>2. lock = NoThread /\ lock' = t /\ progress' = progress /\ progress = FALSE
  BY DEF Enter, Shown, OneRefreshShown
<1>3. "resolve" \in PC \ Outside /\ "resolve" \notin Reported
  BY DEF PC, Stages, Outside, Reported
<1>4. \A u \in Thread : pc[u] \in Outside
  BY <1>2, CoordinatorAssumption DEF Shown, OneRefreshShown
<1>5. pc' \in [Thread -> PC]
  BY <1>1, <1>3 DEF Shown
<1>6. \A u \in Thread : pc'[u] = IF u = t THEN "resolve" ELSE pc[u]
  BY <1>1 DEF Shown
<1>7. \A u \in Thread : pc'[u] \notin Outside <=> lock' = u
  BY <1>2, <1>3, <1>4, <1>6
<1>8. \A u \in Thread : pc'[u] \in Reported => progress'
  BY <1>3, <1>4, <1>6, Places
<1>9. lock' # NoThread /\ ~progress'
  BY <1>2, CoordinatorAssumption
<1> QED
  BY <1>2, <1>5, <1>7, <1>8, <1>9 DEF Shown, OneRefreshShown

LEMMA ClearShown ==
  ASSUME Shown, NEW t \in Thread, ClearProgress(t)
  PROVE  Shown'
<1>1. pc[t] = "clear" /\ pc' = [pc EXCEPT ![t] = "release"]
  BY DEF ClearProgress, Go
<1>2. progress' = FALSE /\ lock' = lock
  BY DEF ClearProgress
<1>3. {"clear", "release"} \subseteq PC \ Outside /\ "release" \notin Reported
  BY DEF PC, Stages, Outside, Reported
<1>4. lock = t
  BY <1>1, <1>3 DEF Shown, OneRefreshShown
<1>5. \A u \in Thread : pc'[u] = IF u = t THEN "release" ELSE pc[u]
  BY <1>1 DEF Shown
<1>6. \A u \in Thread : pc'[u] \notin Outside <=> lock' = u
  BY <1>2, <1>3, <1>4, <1>5 DEF Shown, OneRefreshShown
<1>7. \A u \in Thread : pc'[u] \notin Reported
  BY <1>3, <1>4, <1>5, Places DEF Shown, OneRefreshShown
<1>8. pc' \in [Thread -> PC]
  BY <1>1, <1>3 DEF Shown
<1> QED
  BY <1>2, <1>6, <1>7, <1>8 DEF Shown, OneRefreshShown

LEMMA ReleaseShown ==
  ASSUME Shown, NEW t \in Thread, Release(t)
  PROVE  Shown'
<1>1. pc[t] = "release" /\ pc' = [pc EXCEPT ![t] = "reply"]
  BY DEF Release, Go
<1>2. lock' = NoThread /\ progress' = progress /\ progress = FALSE
  BY <1>1 DEF Release, Shown
<1>3. "release" \notin Outside /\ "reply" \in Outside \cap PC
  BY DEF PC, Stages, Outside
<1>4. lock = t
  BY <1>1, <1>3 DEF Shown, OneRefreshShown
<1>5. \A u \in Thread : pc'[u] = IF u = t THEN "reply" ELSE pc[u]
  BY <1>1 DEF Shown
<1>6. \A u \in Thread : pc'[u] \in Outside
  BY <1>3, <1>4, <1>5 DEF Shown, OneRefreshShown
<1>7. \A u \in Thread : pc'[u] \notin Reported
  BY <1>6, Places
<1>8. \A u \in Thread : lock' # u
  BY <1>2, CoordinatorAssumption
<1>9. pc' \in [Thread -> PC]
  BY <1>1, <1>3 DEF Shown
<1> QED
  BY <1>2, <1>6, <1>7, <1>8, <1>9 DEF Shown, OneRefreshShown

LEMMA CrashShown ==
  ASSUME Shown, Crash
  PROVE  Shown'
<1>1. /\ lock' = NoThread /\ progress' = FALSE
      /\ pc' = [t \in Thread |-> "idle"]
  BY DEF Crash
<1>2. "idle" \in PC \cap Outside /\ "idle" \notin Reported
  BY DEF PC, Outside, Reported, Stages
<1>3. \A t \in Thread : lock' # t
  BY <1>1, CoordinatorAssumption
<1> QED
  BY <1>1, <1>2, <1>3 DEF Shown, OneRefreshShown

LEMMA Unmoved ==
  ASSUME Shown, UNCHANGED <<lock, progress, pc>>
  PROVE  Shown'
BY DEF Shown, OneRefreshShown

LEMMA StepShown ==
  ASSUME Shown, NEW t \in Thread, Step(t)
  PROVE  Shown'
<1> DEFINE Onward(from, to) ==
      /\ from \in Inside /\ to \in Inside \ {"release"}
      /\ Go(t, from, to) /\ lock' = lock
      /\ progress' = TRUE
         \/ (progress' = progress /\ (from \in Reported \/ to \notin Reported))
<1>1. ASSUME NEW from, NEW to, Onward(from, to)
      PROVE  Shown'
  BY <1>1, GoingOn
<1>2. Stages \cup {"failing", "clear"} \subseteq Inside \ {"release"}
  BY DEF Inside, PC, Stages, Outside
<1>3. ASSUME NEW k \in Event
      PROVE  LoopOf(k) \in {"actuals", "calls"}
  BY DEF LoopOf
<1> HIDE DEF Onward
<1>4. CASE ResolveRoot(t)
  <2>1. Onward("resolve", "inventory")
    BY <1>4, <1>2 DEF Onward, Stages, Reported, Go, ResolveRoot, Report, Locally
  <2> QED
    BY <2>1, <1>1
<1>5. CASE \E k \in Key : LookAt(t, k)
  <2>1. PICK k \in Key : LookAt(t, k)
    BY <1>5
  <2>2. Onward("inventory", "inventory")
    BY <2>1, <1>2 DEF Onward, Stages, Reported, Go, LookAt, Locally
  <2> QED
    BY <2>2, <1>1
<1>6. CASE FindUnchanged(t)
  <2>1. Onward("inventory", "unchanged")
    BY <1>6, <1>2 DEF Onward, Stages, Reported, Go, FindUnchanged, Report, Locally
  <2> QED
    BY <2>1, <1>1
<1>7. CASE FindChanged(t)
  <2>1. Onward("inventory", "start")
    BY <1>7, <1>2 DEF Onward, Stages, Reported, Go, FindChanged, Locally
  <2> QED
    BY <2>1, <1>1
<1>8. CASE AnswerUnchanged(t)
  <2>1. Onward("unchanged", "clear")
    BY <1>8, <1>2 DEF Onward, Stages, Reported, Go, AnswerUnchanged
  <2> QED
    BY <2>1, <1>1
<1>9. CASE Start(t)
  <2>1. Onward("start", "roster")
    BY <1>9, <1>2 DEF Onward, Stages, Reported, Go, Start
  <2> QED
    BY <2>1, <1>1
<1>10. CASE DiscoverRoster(t)
  <2>1. Onward("roster", "schedule")
    BY <1>10, <1>2 DEF Onward, Stages, Reported, Go, DiscoverRoster, Report, Locally
  <2> QED
    BY <2>1, <1>1
<1>11. CASE DiscoverSchedule(t)
  <2>1. Onward("schedule", "list_actuals")
    BY <1>11, <1>2 DEF Onward, Stages, Reported, Go, DiscoverSchedule, Report, Locally
  <2> QED
    BY <2>1, <1>1
<1>12. CASE SkipEvents(t)
  <2>1. Onward("list_actuals", "stage")
    BY <1>12, <1>2 DEF Onward, Stages, Reported, Go, SkipEvents, Report, Locally
  <2> QED
    BY <2>1, <1>1
<1>13. CASE ListActuals(t)
  <2>1. Onward("list_actuals", "actuals")
    BY <1>13, <1>2 DEF Onward, Stages, Reported, Go, ListActuals, Locally
  <2> QED
    BY <2>1, <1>1
<1>14. CASE ActualsDone(t)
  <2>1. Onward("actuals", "list_calls")
    BY <1>14, <1>2 DEF Onward, Stages, Reported, Go, ActualsDone, Locally
  <2> QED
    BY <2>1, <1>1
<1>15. CASE ListCalls(t)
  <2>1. Onward("list_calls", "calls")
    BY <1>15, <1>2 DEF Onward, Stages, Reported, Go, ListCalls, Locally
  <2> QED
    BY <2>1, <1>1
<1>16. CASE CallsDone(t)
  <2>1. Onward("calls", "stage")
    BY <1>16, <1>2 DEF Onward, Stages, Reported, Go, CallsDone, Report, Locally
  <2> QED
    BY <2>1, <1>1
<1>17. CASE \E k \in Event : Reuse(t, k)
  <2>1. PICK k \in Event : Reuse(t, k)
    BY <1>17
  <2>2. Onward(LoopOf(k), LoopOf(k))
    BY <2>1, <1>2, <1>3 DEF Onward, Stages, Reported, Go, Reuse, Report, Locally
  <2> QED
    BY <2>2, <1>1
<1>18. CASE \E k \in Event : Fingerprint(t, k)
  <2>1. PICK k \in Event : Fingerprint(t, k)
    BY <1>18
  <2>2. Onward(LoopOf(k), "parse")
    BY <2>1, <1>2, <1>3 DEF Onward, Stages, Reported, Go, Fingerprint, Report, Locally
  <2> QED
    BY <2>2, <1>1
<1>19. CASE \E k \in Event : Parse(t, k)
  <2>1. PICK k \in Event : Parse(t, k)
    BY <1>19
  <2>2. Onward("parse", LoopOf(k))
    BY <2>1, <1>2, <1>3 DEF Onward, Stages, Reported, Go, Parse
  <2> QED
    BY <2>2, <1>1
<1>20. CASE \E k \in Event : Verify(t, k)
  <2>1. PICK k \in Event : Verify(t, k)
    BY <1>20
  <2>2. Onward("publish", "publish")
    BY <2>1, <1>2 DEF Onward, Stages, Reported, Go, Verify, Report, Locally
  <2> QED
    BY <2>2, <1>1
<1>21. CASE \E k \in Key : Stage(t, k)
  <2>1. PICK k \in Key : Stage(t, k)
    BY <1>21
  <2>2. Onward("stage", "stage")
    BY <2>1, <1>2 DEF Onward, Stages, Reported, Go, Stage
  <2> QED
    BY <2>2, <1>1
<1>22. CASE RecordBlocking(t)
  <2>1. Onward("stage", "failing")
    BY <1>22, <1>2 DEF Onward, Stages, Reported, Go, RecordBlocking
  <2> QED
    BY <2>1, <1>1
<1>23. CASE BeginActivation(t)
  <2>1. Onward("stage", "publish")
    BY <1>23, <1>2 DEF Onward, Stages, Reported, Go, BeginActivation, Report
  <2> QED
    BY <2>1, <1>1
<1>24. CASE Commit(t)
  <2>1. Onward("publish", "health")
    BY <1>24, <1>2 DEF Onward, Stages, Reported, Go, Commit, Report
  <2> QED
    BY <2>1, <1>1
<1>25. CASE AnswerPublished(t)
  <2>1. Onward("health", "clear")
    BY <1>25, <1>2 DEF Onward, Stages, Reported, Go, AnswerPublished
  <2> QED
    BY <2>1, <1>1
<1>26. CASE FailBare(t)
  <2>1. Onward("failing", "clear")
    BY <1>26, <1>2 DEF Onward, Stages, Reported, Go, FailBare
  <2> QED
    BY <2>1, <1>1
<1>27. CASE Fail(t)
  <2>1. Onward("failing", "clear")
    BY <1>27, <1>2 DEF Onward, Stages, Reported, Go, Fail
  <2> QED
    BY <2>1, <1>1
<1>28. CASE Drop(t)
  <2>1. Onward("failing", "clear")
    BY <1>28, <1>2 DEF Onward, Stages, Reported, Go, Drop
  <2> QED
    BY <2>1, <1>1
<1>29. CASE Raise(t)
  <2>1. Onward(pc[t], "failing")
    BY <1>29, <1>2 DEF Onward, Raise, Go, Reported, Stages
  <2> QED
    BY <2>1, <1>1
<1>30. CASE ClearProgress(t) \/ Release(t)
  BY <1>30, ClearShown, ReleaseShown
<1>31. CASE Reply(t)
  BY <1>31, StayingOut DEF Reply, Outside
<1> QED
  BY <1>4, <1>5, <1>6, <1>7, <1>8, <1>9, <1>10, <1>11, <1>12, <1>13, <1>14,
     <1>15, <1>16, <1>17, <1>18, <1>19, <1>20, <1>21, <1>22, <1>23, <1>24,
     <1>25, <1>26, <1>27, <1>28, <1>29, <1>30, <1>31 DEF Step

(* The lock and the progress it shows, in every state. *)
LEMMA SpecShown == Spec => []Shown
<1>1. Init => Shown
  <2>1. \A t \in Thread : NoThread # t
    BY CoordinatorAssumption
  <2>2. "idle" \in PC \cap Outside /\ "idle" \notin Reported
    BY DEF PC, Outside, Reported, Stages
  <2> QED
    BY <2>1, <2>2 DEF Init, Shown, OneRefreshShown
<1>2. Shown /\ [Next]_vars => Shown'
  <2> SUFFICES ASSUME Shown, [Next]_vars
               PROVE  Shown'
    OBVIOUS
  <2>1. ASSUME NEW t \in Thread, Enter(t)
        PROVE  Shown'
    BY <2>1, EnterShown
  <2>2. ASSUME NEW t \in Thread, Busy(t)
        PROVE  Shown'
    BY <2>2, StayingOut DEF Busy, Outside
  <2>3. ASSUME NEW t \in Thread, Step(t)
        PROVE  Shown'
    BY <2>3, StepShown
  <2>4. CASE Surroundings
    <3>1. ASSUME NEW r \in Root, NEW k \in Key,
                 DeleteFile(r, k) \/ \E c \in Content : WriteFile(r, k, c)
          PROVE  Shown'
      BY <3>1, Unmoved DEF DeleteFile, WriteFile, unmoved
    <3>2. ASSUME NEW r \in Root, SetPointer(r)
          PROVE  Shown'
      BY <3>2, Unmoved DEF SetPointer, unmoved
    <3>3. CASE Undo
      BY <3>3, Unmoved DEF Undo, unmoved
    <3>4. CASE Crash
      BY <3>4, CrashShown
    <3> QED
      BY <2>4, <3>1, <3>2, <3>3, <3>4 DEF Surroundings
  <2>5. CASE UNCHANGED vars
    BY <2>5, Unmoved DEF vars
  <2> QED
    BY <2>1, <2>2, <2>3, <2>4, <2>5 DEF Next
<1> QED
  BY <1>1, <1>2, PTL DEF Spec

(* OneRefreshShown: however many threads ask, at most one of them is inside
   refresh(), it holds the lock, and the progress shown is that of a refresh that
   is running, whatever is raised where and whenever the process stops. *)
THEOREM OneRefreshAlwaysShown == Spec => []OneRefreshShown
<1>1. Shown => OneRefreshShown
  BY DEF Shown
<1> QED
  BY <1>1, SpecShown, PTL

--------------------------------------------------------------------------------
(* A nonempty set of generations has a latest one: of the sets of later
   generations, one for each member, a smallest is empty. *)
LEMMA MaxIn ==
  ASSUME NEW S \in SUBSET Gen, S # {} PROVE Max(S) \in S
<1>1. IsFiniteSet(S) /\ S \subseteq Int
  <2>1. MaxGen \in Int /\ 1 \in Int /\ Gen = 1..MaxGen
    BY CoordinatorAssumption DEF Gen, Store!Gen
  <2>2. IsFiniteSet(Gen)
    BY <2>1, FS_Interval
  <2>3. IsFiniteSet(S)
    BY <2>2, FS_Subset
  <2> QED
    BY <2>1, <2>3
<1> DEFINE Above(x) == {y \in S : y > x}
<1> DEFINE T == {Above(x) : x \in S}
<1>2. IsWellFoundedOn(StrictSubsetOrdering(S), FiniteSubsetsOf(S))
  BY FS_StrictSubsetOrderingWellFounded
<1>3. PICK U \in T : \A V \in T : ~(<<V, U>> \in StrictSubsetOrdering(S))
  <2>1. T \subseteq FiniteSubsetsOf(S) /\ T # {}
    <3>1. \A x \in S : Above(x) \subseteq S /\ IsFiniteSet(Above(x))
      BY <1>1, FS_Subset
    <3> QED BY <3>1 DEF FiniteSubsetsOf
  <2> HIDE DEF T
  <2> QED BY <1>2, <2>1, WFMin
<1>4. PICK x \in S : U = Above(x)
  BY <1>3
<1>5. ASSUME NEW y \in S, ~(x >= y) PROVE FALSE
  <2>1. y > x BY <1>1, <1>5
  <2>2. y \in U /\ y \notin Above(y)
    BY <1>1, <2>1, <1>4
  <2>4. \A z \in Above(y) : z \in U
    BY <1>1, <2>1, <1>4
  <2>3. <<Above(y), U>> \in StrictSubsetOrdering(S)
    BY <2>2, <2>4, <1>4 DEF StrictSubsetOrdering
  <2> QED BY <2>3, <1>3
<1> QED
  BY <1>5, <1>4 DEF Max

--------------------------------------------------------------------------------
(* The types of the state.  They are inductive only with what the place of a
   thread says of its locals: a folder has been resolved before it is read, a
   generation begun before evidence is staged under it, the roster read before it
   scopes the rows of an event file, and only what was planned is staged. *)

(* Where a refresh has its generation. *)
Begun ==
  {"roster", "schedule", "list_actuals", "actuals", "list_calls", "calls", "parse",
   "stage", "publish", "health"}

Locates(at, j) ==
  /\ at \in Outside \cup {"resolve"} => j = NoJob
  /\ at \in {"inventory", "unchanged", "start"} =>
       j.root \in Root /\ j.gen = Null /\ j.plan = NoJob.plan
  /\ at \in Begun => j.root \in Root /\ j.gen \in Gen
  /\ at \in Begun \ {"roster"} => j.plan[Roster] \in Plan
  /\ at = "stage" => \A k \in j.todo : j.plan[k] \in Plan
  /\ at = "publish" => \A k \in j.todo : j.plan[k] \in Plan /\ k \in Event

(* What TypeOK says of everything but the threads. *)
TablesOK ==
  /\ Store!TypeOK
  /\ catalog \in [Gen -> Root \cup {NoRoot}]
  /\ bronze \in [Gen -> [Event -> Rows \cup {NoRows}]]
  /\ disk \in [Root -> [Key -> File \cup {NoFile}]]
  /\ ticks \in 0..MaxTicks
  /\ pointer \in Root
  /\ lock \in Thread \cup {NoThread}
  /\ progress \in BOOLEAN
  /\ writer \in Thread \cup {NoThread}
  /\ outcome \in [Thread -> Outcome]

Typed ==
  /\ TablesOK
  /\ pc \in [Thread -> PC]
  /\ job \in [Thread -> Job]
  /\ \A t \in Thread : Locates(pc[t], job[t])

(* The locals before a refresh are locals. *)
LEMMA NoJobType == NoJob \in Job
BY DEF Job, NoJob

(* The tables keep their types while nobody writes them. *)
LEMMA StoreKept == Store!TypeOK /\ UNCHANGED store => Store!TypeOK'
BY DEF store, Store!TypeOK

(* One thread moves, and with it its locals. *)
LEMMA Moves ==
  ASSUME Typed, NEW t \in Thread, NEW from, NEW to \in PC, Go(t, from, to),
         NEW j \in Job, job' = [job EXCEPT ![t] = j], Locates(to, j), TablesOK'
  PROVE  Typed'
<1>1. pc' = [pc EXCEPT ![t] = to]
  BY DEF Go
<1>2. pc' \in [Thread -> PC] /\ job' \in [Thread -> Job]
  BY <1>1 DEF Typed
<1>3. ASSUME NEW u \in Thread PROVE Locates(pc'[u], job'[u])
  BY <1>1, <1>3 DEF Typed
<1>4. ASSUME NEW u \in Thread PROVE Locates(pc[u], job[u])'
  BY <1>3 DEF Locates
<1> QED
  BY <1>2, <1>4 DEF Typed

(* A step that writes no table, file or pointer. *)
LEMMA TablesKept ==
  ASSUME Typed, UNCHANGED <<store, evidence, world>>,
         lock' \in Thread \cup {NoThread}, writer' \in Thread \cup {NoThread},
         progress' \in BOOLEAN, outcome' \in [Thread -> Outcome]
  PROVE  TablesOK'
BY StoreKept DEF Typed, TablesOK, evidence, world

(* A step that is Locally, whatever it reports. *)
LEMMA MovesLocally ==
  ASSUME Typed, NEW t \in Thread, NEW from, NEW to \in PC, Go(t, from, to),
         NEW j \in Job, job' = [job EXCEPT ![t] = j], Locates(to, j),
         Locally, Report \/ UNCHANGED progress
  PROVE  Typed'
<1>1. TablesOK'
  BY TablesKept DEF Typed, TablesOK, Locally, Report
<1> QED
  BY <1>1, Moves

(* What is known of the locals at a place. *)
LEMMA LocalsAt ==
  ASSUME Typed, NEW t \in Thread
  PROVE  /\ job[t] \in Job /\ Locates(pc[t], job[t])
         /\ job[t].root \in Root \cup {NoRoot} /\ job[t].gen \in Gen \cup {Null}
         /\ job[t].inv \in [Key -> File \cup {NoFile}] /\ job[t].todo \in SUBSET Key
         /\ job[t].seen \in [Event -> File \cup {NoFile}]
         /\ job[t].plan \in [Key -> Plan \cup {NoPlan}]
         /\ job[t].found \in [Key -> File \cup {NoFile}]
         /\ pointer \in Root
         /\ disk \in [Root -> [Key -> File \cup {NoFile}]]
BY DEF Typed, Job, TablesOK


(* A step that leaves the locals alone. *)
LEMMA Stays ==
  ASSUME Typed, NEW t \in Thread, NEW from, NEW to \in PC, Go(t, from, to),
         UNCHANGED job, Locates(to, job[t]), TablesOK'
  PROVE  Typed'
<1>1. job[t] \in Job /\ job' = [job EXCEPT ![t] = job[t]]
  BY DEF Typed
<1> QED
  BY <1>1, Moves

(* Folder, generation and plans stay, and the place asks no more of them. *)
LEMMA Onward ==
  ASSUME NEW from, NEW to, NEW r, NEW j, Locates(from, r),
         j.root = r.root, j.gen = r.gen, j.plan = r.plan,
         to \notin Outside \cup {"resolve", "inventory", "unchanged", "start"},
         to \in Begun => from \in Begun,
         to \in Begun \ {"roster"} => from \in Begun \ {"roster"},
         to = "stage" => \A k \in j.todo : j.plan[k] \in Plan,
         to = "publish" => \A k \in j.todo : j.plan[k] \in Plan /\ k \in Event
  PROVE  Locates(to, j)
BY DEF Locates

(* The places, as the invariant groups them. *)
LEMMA AllPlaces ==
  /\ PC = {"idle", "resolve", "inventory", "unchanged", "start", "failing", "clear",
           "release", "reply"} \cup Begun
  /\ Stages = {"resolve", "inventory", "unchanged", "start"} \cup Begun
BY DEF PC, Stages, Begun

(* Resolving the folder, looking at its files, and the fast path. *)
LEMMA InventoryTyped ==
  ASSUME Typed, NEW t \in Thread
  PROVE  /\ ResolveRoot(t) => Typed'
         /\ \A k \in Key : LookAt(t, k) => Typed'
         /\ FindUnchanged(t) \/ FindChanged(t) => Typed'
<1> USE LocalsAt
<1>1. ASSUME ResolveRoot(t) PROVE Typed'
  <2> DEFINE j == [job[t] EXCEPT !.root = pointer, !.todo = Key]
  <2>1. j \in Job /\ job' = [job EXCEPT ![t] = j]
    BY <1>1 DEF ResolveRoot, Job, Typed
  <2>2. job[t] = NoJob
    BY <1>1 DEF ResolveRoot, Go, Locates
  <2>3. j.root = pointer /\ j.gen = Null /\ j.plan = NoJob.plan
    BY <2>2 DEF NoJob
  <2>4. Locates("inventory", j)
    BY <2>3 DEF Locates, Outside, Begun
  <2> QED
    BY <1>1, <2>1, <2>4, AllPlaces, MovesLocally DEF ResolveRoot
<1>2. ASSUME NEW k \in Key, LookAt(t, k) PROVE Typed'
  <2> DEFINE j == [job[t] EXCEPT !.inv[k] = FileOf(t, k), !.todo = @ \ {k}]
  <2>1. pc[t] = "inventory" /\ FileOf(t, k) \in File \cup {NoFile}
    BY <1>2 DEF LookAt, Go, FileOf, Locates
  <2>2. j \in Job
    BY <2>1 DEF Job
  <2>3. job' = [job EXCEPT ![t] = j]
    BY <1>2 DEF LookAt, Typed
  <2>4. Locates("inventory", j)
    BY <2>1, <2>2 DEF Locates, Outside, Begun
  <2> HIDE DEF j
  <2>5. "inventory" \in PC
    BY AllPlaces
  <2> QED
    BY <1>2, <2>2, <2>3, <2>4, <2>5, MovesLocally DEF LookAt
<1>3. ASSUME FindUnchanged(t) \/ FindChanged(t) PROVE Typed'
  <2> DEFINE j == [job[t] EXCEPT !.inv = NoJob.inv]
  <2>1. j \in Job
    BY DEF Job, NoJob
  <2>2. job' = [job EXCEPT ![t] = j] /\ pc[t] = "inventory"
    BY <1>3 DEF FindUnchanged, FindChanged, Go, Typed
  <2>3. Locates("unchanged", j) /\ Locates("start", j)
    BY <2>1, <2>2 DEF Locates, Outside, Begun
  <2> QED
    BY <1>3, <2>1, <2>2, <2>3, AllPlaces, MovesLocally DEF FindUnchanged, FindChanged
<1> QED
  BY <1>1, <1>2, <1>3

(* A generation begins on the folder that was resolved. *)
LEMMA StartTyped ==
  ASSUME Typed, NEW t \in Thread, Start(t)
  PROVE  Typed'
<1> USE LocalsAt
<1>1. PICK g \in Gen : /\ Store!StartGeneration(g)
                       /\ catalog' = [catalog EXCEPT ![g] = job[t].root]
                       /\ job' = [job EXCEPT ![t].gen = g]
  BY DEF Start
<1> DEFINE j == [job[t] EXCEPT !.gen = g]
<1>2. job' = [job EXCEPT ![t] = j] /\ pc[t] = "start"
  BY <1>1 DEF Start, Go, Typed
<1>3. j \in Job
  BY DEF Job
<1>4. j.root \in Root /\ j.gen = g
  BY <1>2, <1>3 DEF Locates
<1>5. Locates("roster", j)
  BY <1>4 DEF Locates, Outside, Begun
<1>6. Store!TypeOK'
  BY <1>1 DEF Store!StartGeneration, Store!TypeOK, Store!Status, Typed, TablesOK,
              Gen, Null
<1>7. catalog' \in [Gen -> Root \cup {NoRoot}]
  BY <1>1, <1>4 DEF Typed, TablesOK
<1>8. TablesOK'
  BY <1>6, <1>7 DEF Start, Typed, TablesOK, world
<1> QED
  BY <1>2, <1>3, <1>5, <1>8, AllPlaces, Moves DEF Start, Begun

(* A file that is read whole has a plan owned by the running generation. *)
LEMMA ReadTyped ==
  ASSUME Typed, NEW t \in Thread, NEW k \in Key, ReadWhole(t, k), pc[t] \in Begun,
         NEW j, j = job'[t]
  PROVE  /\ j \in Job /\ job' = [job EXCEPT ![t] = j]
         /\ j.root = job[t].root /\ j.gen = job[t].gen /\ j.todo = job[t].todo
         /\ j.plan[k] \in Plan /\ j.plan[k].owner = j.gen
         /\ \A i \in Key \ {k} : j.plan[i] = job[t].plan[i]
<1> USE LocalsAt
<1> DEFINE p == [content |-> FileOf(t, k).content, stat |-> FileOf(t, k).stat,
                 owner |-> job[t].gen]
<1>1. FileOf(t, k) \in File /\ job[t].gen \in Gen
  BY DEF ReadWhole, FileOf, Locates
<1>2. p \in Plan /\ p.owner = job[t].gen
  BY <1>1 DEF File, Plan
<1>3. j = [job[t] EXCEPT !.plan[k] = p] /\ job' = [job EXCEPT ![t] = j]
  BY DEF ReadWhole, Typed
<1> HIDE DEF p
<1>4. j \in Job
  <2>1. j = [job[t] EXCEPT !.plan = [job[t].plan EXCEPT ![k] = p]]
    BY <1>3
  <2>2. [job[t].plan EXCEPT ![k] = p] \in [Key -> Plan \cup {NoPlan}]
    BY <1>2
  <2> QED
    BY <2>1, <2>2 DEF Job
<1>5. j.plan = [job[t].plan EXCEPT ![k] = p]
  BY <1>3, <1>4 DEF Job
<1>6. j.plan[k] = p /\ \A i \in Key \ {k} : j.plan[i] = job[t].plan[i]
  BY <1>5
<1>7. j.root = job[t].root /\ j.gen = job[t].gen /\ j.todo = job[t].todo
  BY <1>3 DEF Job
<1> QED
  BY <1>2, <1>3, <1>4, <1>6, <1>7

(* Reading the roster and the schedule, and listing what the loops visit. *)
LEMMA DiscoveryTyped ==
  ASSUME Typed, NEW t \in Thread
  PROVE  /\ DiscoverRoster(t) \/ DiscoverSchedule(t) => Typed'
         /\ SkipEvents(t) \/ ListActuals(t) \/ ListCalls(t) \/ CallsDone(t) => Typed'
         /\ ActualsDone(t) => Typed'
<1> USE LocalsAt
<1>1. Roster \in Key /\ Schedule \in Key /\ Roster # Schedule
  BY CoordinatorAssumption DEF Key
<1>2. ASSUME DiscoverRoster(t) \/ DiscoverSchedule(t) PROVE Typed'
  <2> DEFINE j == job'[t]
  <2>1. PICK k \in {Roster, Schedule} : /\ ReadWhole(t, k)
                                        /\ k = Schedule => pc[t] = "schedule"
    BY <1>1, <1>2 DEF DiscoverRoster, DiscoverSchedule, Go
  <2>2. pc[t] \in {"roster", "schedule"}
    BY <1>2 DEF DiscoverRoster, DiscoverSchedule, Go
  <2>3. k \in Key /\ pc[t] \in Begun
    BY <1>1, <2>2 DEF Begun
  <2>4. /\ j \in Job /\ job' = [job EXCEPT ![t] = j]
        /\ j.root = job[t].root /\ j.gen = job[t].gen
        /\ j.plan[k] \in Plan
        /\ \A i \in Key \ {k} : j.plan[i] = job[t].plan[i]
    BY <2>1, <2>3, ReadTyped
  <2>5. j.plan[Roster] \in Plan /\ j.root \in Root /\ j.gen \in Gen
    BY <1>1, <2>1, <2>3, <2>4 DEF Locates, Begun
  <2> HIDE DEF j
  <2>6. Locates("schedule", j) /\ Locates("list_actuals", j)
    BY <2>5 DEF Locates, Outside, Begun
  <2>7. {"schedule", "list_actuals"} \subseteq PC
    BY AllPlaces DEF Begun
  <2> QED
    BY <1>2, <2>4, <2>6, <2>7, MovesLocally DEF DiscoverRoster, DiscoverSchedule
<1>3. ASSUME SkipEvents(t) \/ ListActuals(t) \/ ListCalls(t) \/ CallsDone(t)
      PROVE  Typed'
  <2>1. PICK T \in SUBSET Key : /\ job' = [job EXCEPT ![t].todo = T]
                                /\ SkipEvents(t) \/ CallsDone(t) => T = Planned(t)
    <3>1. CASE SkipEvents(t) \/ CallsDone(t)
      BY <3>1 DEF SkipEvents, CallsDone, Planned
    <3>2. CASE ListActuals(t) \/ ListCalls(t)
      <4>1. ~SkipEvents(t) /\ ~CallsDone(t)
        BY <3>2 DEF SkipEvents, ListActuals, ListCalls, CallsDone, Go
      <4>2. \E T \in SUBSET Key : job' = [job EXCEPT ![t].todo = T]
        BY <3>2 DEF ListActuals, ListCalls, Present
      <4> QED
        BY <4>1, <4>2
    <3> QED
      BY <1>3, <3>1, <3>2
  <2> DEFINE j == [job[t] EXCEPT !.todo = T]
  <2>2. j \in Job /\ job' = [job EXCEPT ![t] = j]
    BY <2>1 DEF Job, Typed
  <2>3. j.root = job[t].root /\ j.gen = job[t].gen /\ j.plan = job[t].plan /\ j.todo = T
    BY DEF Job
  <2>4. pc[t] \in {"list_actuals", "list_calls", "calls"}
    BY <1>3 DEF SkipEvents, ListActuals, ListCalls, CallsDone, Go
  <2>5. {"actuals", "calls", "stage"} \subseteq PC
    BY AllPlaces DEF Begun
  <2> HIDE DEF j
  <2>6. Locates("actuals", j) /\ Locates("calls", j)
    BY <2>3, <2>4, Onward DEF Outside, Begun
  <2>7. SkipEvents(t) \/ CallsDone(t) => Locates("stage", j)
    BY <2>1, <2>3, <2>4, Onward DEF Outside, Begun, Planned
  <2> QED
    BY <1>3, <2>2, <2>5, <2>6, <2>7, MovesLocally
       DEF SkipEvents, ListActuals, ListCalls, CallsDone
<1>4. ASSUME ActualsDone(t) PROVE Typed'
  <2>1. "list_calls" \in PC /\ pc[t] = "actuals"
    BY <1>4, AllPlaces DEF Begun, ActualsDone, Go
  <2>2. Locates("list_calls", job[t])
    BY <2>1, Onward DEF Outside, Begun
  <2>3. job[t] \in Job /\ job' = [job EXCEPT ![t] = job[t]]
    BY <1>4 DEF Typed, ActualsDone
  <2> QED
    BY <1>4, <2>1, <2>2, <2>3, MovesLocally DEF ActualsDone
<1> QED
  BY <1>2, <1>3, <1>4

(* What the rows that may be reused are: rows of a generation that succeeded on
   the same folder with the same roster. *)
LEMMA Known ==
  ASSUME Typed, NEW t \in Thread, NEW k \in Event, KnownVersions(t, k) # {}
  PROVE  \E g \in Candidates(t, k) :
           /\ g \in Gen /\ OwnerOf(t, k) = manifest[g][k].bronze
           /\ manifest[g][k] \in Store!Row /\ manifest[g][k].state = "present"
           /\ manifest[g][k].bronze \in Gen
           /\ manifest[g][k].content \in Content
           /\ AgreesWithActive(t, k) =>
                g = active /\ manifest[g][k].stat = FileOf(t, k).stat
           /\ ~AgreesWithActive(t, k) => manifest[g][k].content = FileOf(t, k).content
<1>1. Candidates(t, k) \subseteq Gen /\ KnownVersions(t, k) \subseteq Candidates(t, k)
  BY DEF Candidates, KnownVersions, AgreesWithActive
<1>2. Max(KnownVersions(t, k)) \in KnownVersions(t, k)
  BY <1>1, MaxIn
<1> DEFINE g == Max(KnownVersions(t, k))
<1> HIDE DEF g
<1>3. g \in KnownVersions(t, k) /\ OwnerOf(t, k) = manifest[g][k].bronze
  BY <1>2 DEF g, OwnerOf
<1>4. k \in Key
  BY DEF Key
<1>5. g \in Gen /\ manifest[g][k] \in Store!Row /\ manifest[g][k].state = "present"
  BY <1>1, <1>3, <1>4 DEF Candidates, Typed, TablesOK, Store!TypeOK, Gen
<1>6. manifest[g][k].bronze \in Gen /\ manifest[g][k].content \in Content
  BY <1>5 DEF Store!Row, Store!NoRow, Store!RemovedRow, Gen
<1> QED
  BY <1>1, <1>3, <1>5, <1>6 DEF KnownVersions, AgreesWithActive

(* The content a fingerprint or a reused plan records is that of a file. *)
LEMMA TakenType ==
  ASSUME Typed, NEW t \in Thread, NEW k \in Event, FileOf(t, k) # NoFile,
         pc[t] \in Begun
  PROVE  FileOf(t, k) \in File /\ ContentTaken(t, k) \in Content
<1>1. FileOf(t, k) \in File
  BY LocalsAt DEF FileOf, Locates, Key
<1>2. CASE AgreesWithActive(t, k)
  <2>1. KnownVersions(t, k) = {active}
    BY <1>2 DEF KnownVersions
  <2>2. manifest[active][k].content \in Content
    BY <1>2, <2>1, Known
  <2> QED
    BY <1>1, <1>2, <2>2 DEF ContentTaken
<1>3. CASE ~AgreesWithActive(t, k)
  BY <1>1, <1>3 DEF ContentTaken, File
<1> QED
  BY <1>1, <1>2, <1>3

(* The loops over the event files: rows reused, fingerprinted or parsed. *)
LEMMA LoopTyped ==
  ASSUME Typed, NEW t \in Thread, NEW k \in Event
  PROVE  Reuse(t, k) \/ Fingerprint(t, k) \/ Parse(t, k) => Typed'
<1> USE LocalsAt
<1>1. k \in Key /\ Roster \in Key /\ Roster # k
  BY CoordinatorAssumption DEF Key
<1>2. LoopOf(k) \in {"actuals", "calls"}
  BY DEF LoopOf
<1>3. {"actuals", "calls", "parse"} \subseteq Begun \cap PC
  BY AllPlaces DEF Begun
<1>4. ASSUME Reuse(t, k) PROVE Typed'
  <2> DEFINE p == [content |-> ContentTaken(t, k), stat |-> FileOf(t, k).stat,
                   owner |-> OwnerOf(t, k)]
             j == [job[t] EXCEPT !.todo = @ \ {k}, !.plan = [@ EXCEPT ![k] = p]]
  <2>1. pc[t] = LoopOf(k) /\ FileOf(t, k) # NoFile /\ KnownVersions(t, k) # {}
    BY <1>4 DEF Reuse, Go, Reusable
  <2>2. p \in Plan
    BY <1>2, <1>3, <2>1, TakenType, Known DEF Plan, File
  <2>3. job' = [job EXCEPT ![t] = j]
    BY <1>4 DEF Reuse, Typed
  <2> HIDE DEF p
  <2>4. j \in Job /\ j.root = job[t].root /\ j.gen = job[t].gen
    BY <2>2 DEF Job
  <2>5. j.plan[Roster] = job[t].plan[Roster]
    BY <1>1 DEF Job
  <2> HIDE DEF j
  <2>6. Locates(LoopOf(k), j)
    BY <1>2, <1>3, <2>1, <2>4, <2>5 DEF Locates, Outside, Begun
  <2>7. Go(t, LoopOf(k), LoopOf(k)) /\ Report /\ Locally /\ LoopOf(k) \in PC
    BY <1>2, <1>3, <1>4 DEF Reuse
  <2> QED
    BY <2>3, <2>4, <2>6, <2>7, MovesLocally
<1>5. ASSUME Fingerprint(t, k) PROVE Typed'
  <2> DEFINE f == [content |-> ContentTaken(t, k), stat |-> FileOf(t, k).stat]
             j == [job[t] EXCEPT !.todo = @ \ {k}, !.seen = [@ EXCEPT ![k] = f]]
  <2>1. pc[t] = LoopOf(k) /\ FileOf(t, k) # NoFile
    BY <1>5 DEF Fingerprint, Go
  <2>2. f \in File
    BY <1>2, <1>3, <2>1, TakenType DEF File
  <2>3. job' = [job EXCEPT ![t] = j]
    BY <1>5 DEF Fingerprint, Typed
  <2> HIDE DEF f
  <2>4. /\ j \in Job
        /\ j.root = job[t].root /\ j.gen = job[t].gen /\ j.plan = job[t].plan
    BY <2>2 DEF Job
  <2> HIDE DEF j
  <2>5. Locates("parse", j)
    BY <1>2, <2>1, <2>4, Onward DEF Outside, Begun
  <2> QED
    BY <1>3, <1>5, <2>3, <2>4, <2>5, MovesLocally DEF Fingerprint
<1>6. ASSUME Parse(t, k) PROVE Typed'
  <2> DEFINE p == [content |-> job[t].seen[k].content, stat |-> job[t].seen[k].stat,
                   owner |-> job[t].gen]
             rows == [content |-> FileOf(t, k).content,
                      roster |-> job[t].plan[Roster].content]
             j == [job[t] EXCEPT !.seen = [@ EXCEPT ![k] = NoFile],
                                 !.plan = [@ EXCEPT ![k] = p]]
  <2>1. pc[t] = "parse" /\ job[t].seen[k] # NoFile /\ FileOf(t, k).stat = job[t].seen[k].stat
    BY <1>6 DEF Parse, Go
  <2>2. /\ job[t].root \in Root /\ job[t].gen \in Gen /\ job[t].plan[Roster] \in Plan
        /\ job[t].seen[k] \in File
    BY <2>1 DEF Locates, Begun
  <2>3. FileOf(t, k) \in File
    <3>1. FileOf(t, k) \in File \cup {NoFile}
      BY <1>1, <2>2 DEF FileOf
    <3>2. job[t].seen[k].stat # 0
      BY <2>2 DEF File, Stat
    <3> QED
      BY <2>1, <3>1, <3>2 DEF NoFile, NoStat
  <2>4. p \in Plan /\ rows \in Rows
    BY <2>2, <2>3 DEF File, Plan, Rows
  <2>5. job' = [job EXCEPT ![t] = j] /\ bronze' = [bronze EXCEPT ![job[t].gen][k] = rows]
    BY <1>6 DEF Parse, Typed
  <2> HIDE DEF p, rows
  <2>6. j \in Job /\ j.root = job[t].root /\ j.gen = job[t].gen
    BY <2>4 DEF Job
  <2>7. j.plan[Roster] = job[t].plan[Roster]
    BY <1>1 DEF Job
  <2> HIDE DEF j
  <2>8. Locates(LoopOf(k), j)
    BY <1>2, <1>3, <2>2, <2>6, <2>7 DEF Locates, Outside, Begun
  <2>9. bronze' \in [Gen -> [Event -> Rows \cup {NoRows}]]
    BY <2>4, <2>5 DEF Typed, TablesOK
  <2>10. TablesOK'
    BY <1>6, <2>9, StoreKept DEF Parse, Typed, TablesOK, world
  <2>11. Go(t, "parse", LoopOf(k)) /\ LoopOf(k) \in PC
    BY <1>2, <1>3, <1>6 DEF Parse
  <2> QED
    BY <2>5, <2>6, <2>8, <2>10, <2>11, Moves
<1> QED
  BY <1>4, <1>5, <1>6

(* What the coordinator stages is a version, and what it may be rows of. *)
LEMMA StageType ==
  ASSUME Typed, NEW t \in Thread, NEW k \in Key, Stage(t, k)
  PROVE  /\ job[t].gen \in Gen /\ job[t].plan[k] \in Plan
         /\ VersionOf(job[t].plan[k]) \in Store!Version
         /\ job[t].plan[k].owner \in Gen
<1>1. job[t].gen \in Gen /\ job[t].plan[k] \in Plan
  BY LocalsAt DEF Stage, Go, Locates, Begun
<1> QED
  BY <1>1 DEF Plan, VersionOf, Store!Version

(* Staging, the findings that block, and activation. *)
LEMMA PublicationTyped ==
  ASSUME Typed, NEW t \in Thread
  PROVE  /\ \A k \in Key : Stage(t, k) => Typed'
         /\ \A k \in Event : Verify(t, k) => Typed'
         /\ BeginActivation(t) => Typed'
         /\ RecordBlocking(t) \/ Commit(t) => Typed'
<1> USE LocalsAt
<1>1. {"stage", "publish", "health", "failing"} \subseteq PC
  BY AllPlaces DEF Begun
<1>2. ASSUME NEW k \in Key, Stage(t, k) PROVE Typed'
  <2> DEFINE j == [job[t] EXCEPT !.todo = @ \ {k}]
  <2>1. /\ j \in Job /\ job' = [job EXCEPT ![t] = j] /\ pc[t] = "stage"
        /\ j.root = job[t].root /\ j.gen = job[t].gen /\ j.plan = job[t].plan
        /\ j.todo \subseteq job[t].todo
    BY <1>2 DEF Stage, Go, Job, Typed
  <2> HIDE DEF j
  <2>2. Locates("stage", j)
    BY <2>1, Onward DEF Locates, Outside, Begun
  <2> DEFINE g == job[t].gen
             row == Store!PresentRow(VersionOf(job[t].plan[k]), job[t].plan[k].owner)
  <2>3. manifest' = [manifest EXCEPT ![g][k] = row] /\ UNCHANGED <<status, base, issues, active>>
    BY <1>2 DEF Stage, Store!StageSource
  <2>4. row \in Store!Row
    BY <1>2, StageType DEF Store!PresentRow, Store!Row, Store!Version, Gen
  <2> HIDE DEF row
  <2>5. Store!TypeOK'
    BY <2>3, <2>4 DEF Typed, TablesOK, Store!TypeOK
  <2>6. TablesOK'
    BY <1>2, <2>5 DEF Stage, Typed, TablesOK, evidence, world
  <2> QED
    BY <1>1, <1>2, <2>1, <2>2, <2>6, Moves DEF Stage
<1>3. ASSUME NEW k \in Event, Verify(t, k) PROVE Typed'
  <2> DEFINE j == [job[t] EXCEPT !.todo = @ \ {k}]
  <2>1. /\ j \in Job /\ job' = [job EXCEPT ![t] = j] /\ pc[t] = "publish"
        /\ j.root = job[t].root /\ j.gen = job[t].gen /\ j.plan = job[t].plan
        /\ j.todo \subseteq job[t].todo
    BY <1>3 DEF Verify, Go, Job, Typed
  <2> HIDE DEF j
  <2>2. Locates("publish", j)
    BY <2>1, Onward DEF Locates, Outside, Begun
  <2> QED
    BY <1>1, <1>3, <2>1, <2>2, MovesLocally DEF Verify
<1>4. ASSUME BeginActivation(t) PROVE Typed'
  <2> DEFINE j == [job[t] EXCEPT !.todo = Planned(t) \cap Event, !.found = disk[job[t].root]]
  <2>1. pc[t] = "stage"
    BY <1>4 DEF BeginActivation, Go
  <2>2. job[t].root \in Root
    BY <2>1 DEF Locates, Begun
  <2>3. Planned(t) \in SUBSET Key /\ \A k \in Planned(t) : job[t].plan[k] \in Plan
    BY DEF Planned
  <2>4. /\ j \in Job /\ job' = [job EXCEPT ![t] = j]
        /\ j.root = job[t].root /\ j.gen = job[t].gen /\ j.plan = job[t].plan
        /\ j.todo = Planned(t) \cap Event
    BY <1>4, <2>2, <2>3 DEF BeginActivation, Job, Typed
  <2> HIDE DEF j
  <2>5. Locates("publish", j)
    BY <2>1, <2>3, <2>4, Onward DEF Outside, Begun
  <2>6. TablesOK'
    BY <1>4, TablesKept DEF BeginActivation, Report, Typed, TablesOK
  <2> QED
    BY <1>1, <1>4, <2>4, <2>5, <2>6, Moves DEF BeginActivation
<1>5. ASSUME RecordBlocking(t) PROVE Typed'
  <2>1. Store!TypeOK'
    BY <1>5 DEF RecordBlocking, Store!RecordQualityIssues, Store!TypeOK, Severity,
                Typed, TablesOK
  <2>2. TablesOK'
    BY <1>5, <2>1 DEF RecordBlocking, Typed, TablesOK, evidence, world
  <2>3. Locates("failing", job[t])
    BY Onward DEF Outside, Begun
  <2> QED
    BY <1>1, <1>5, <2>2, <2>3, Stays DEF RecordBlocking
<1>6. ASSUME Commit(t) PROVE Typed'
  <2>1. pc[t] = "publish"
    BY <1>6 DEF Commit, Go
  <2>2. job[t].gen \in Gen
    BY <2>1 DEF Locates, Begun
  <2>3. Store!TypeOK'
    BY <1>6, <2>2 DEF Commit, Store!ActivateGeneration, Store!TypeOK, Store!Status,
                Typed, TablesOK, Gen
  <2>4. TablesOK'
    BY <1>6, <2>3 DEF Commit, Report, Typed, TablesOK, evidence, world
  <2>5. Locates("health", job[t])
    BY <2>1, Onward DEF Outside, Begun
  <2> QED
    BY <1>1, <1>6, <2>4, <2>5, Stays DEF Commit
<1> QED
  BY <1>2, <1>3, <1>4, <1>5, <1>6

(* Admission, the answers, the except clauses and the finally clause. *)
LEMMA EndTyped ==
  ASSUME Typed, NEW t \in Thread
  PROVE  /\ Enter(t) \/ Busy(t) \/ Reply(t) \/ Release(t) => Typed'
         /\ AnswerUnchanged(t) \/ AnswerPublished(t) \/ Raise(t) => Typed'
         /\ FailBare(t) \/ Fail(t) \/ Drop(t) \/ ClearProgress(t) => Typed'
<1> USE LocalsAt
<1>1. \A o \in Outcome : [outcome EXCEPT ![t] = o] \in [Thread -> Outcome]
  BY DEF Typed, TablesOK
<1>2. {"none", "busy", "unchanged", "published", "failed", "dropped"} = Outcome
  BY DEF Outcome
<1>3. ASSUME Enter(t) \/ Busy(t) \/ Reply(t) PROVE Typed'
  <2>1. TablesOK'
    BY <1>1, <1>2, <1>3, TablesKept DEF Enter, Busy, Reply, Typed, TablesOK
  <2>2. pc[t] \in Outside
    BY <1>3 DEF Enter, Busy, Reply, Go, Outside
  <2>3. job[t] = NoJob
    BY <2>2 DEF Locates
  <2>4. \A to \in {"resolve", "idle", "reply"} : Locates(to, job[t])
    BY <2>3 DEF Locates, Begun
  <2> QED
    BY <1>3, <2>1, <2>4, AllPlaces, Stays DEF Enter, Busy, Reply
<1>4. ASSUME Release(t) PROVE Typed'
  <2>1. TablesOK'
    BY <1>4, TablesKept DEF Release, Typed, TablesOK
  <2>2. Locates("reply", NoJob)
    BY DEF Locates, Begun
  <2> QED
    BY <1>4, <2>1, <2>2, NoJobType, AllPlaces, Moves DEF Release
<1>5. ASSUME AnswerUnchanged(t) \/ AnswerPublished(t) \/ FailBare(t) \/ Drop(t)
             \/ ClearProgress(t)
      PROVE  Typed'
  <2>1. TablesOK'
    BY <1>1, <1>2, <1>5, TablesKept
       DEF AnswerUnchanged, AnswerPublished, FailBare, Drop, ClearProgress, Typed,
           TablesOK
  <2>2. Locates("clear", job[t]) /\ Locates("release", job[t])
    BY Onward DEF Outside, Begun
  <2> QED
    BY <1>5, <2>1, <2>2, AllPlaces, Stays
       DEF AnswerUnchanged, AnswerPublished, FailBare, Drop, ClearProgress
<1>6. ASSUME Raise(t) PROVE Typed'
  <2>1. TablesOK'
    BY <1>6, TablesKept DEF Raise, Typed, TablesOK
  <2>2. Locates("failing", job[t]) /\ "failing" \in PC
    BY Onward, AllPlaces DEF Outside, Begun
  <2>3. Go(t, pc[t], "failing") /\ UNCHANGED job
    BY <1>6 DEF Raise, Go
  <2> QED
    BY <2>1, <2>2, <2>3, Stays
<1>7. ASSUME Fail(t) PROVE Typed'
  <2>1. Store!TypeOK'
    BY <1>7 DEF Fail, Store!FailGeneration, Store!TypeOK, Store!Status, Typed, TablesOK
  <2>2. TablesOK'
    BY <1>1, <1>2, <1>7, <2>1 DEF Fail, Typed, TablesOK, evidence, world
  <2>3. Locates("clear", job[t])
    BY Onward DEF Outside, Begun
  <2> QED
    BY <1>7, <2>2, <2>3, AllPlaces, Stays DEF Fail
<1> QED
  BY <1>3, <1>4, <1>5, <1>6, <1>7

(* Files written and deleted, the folder changed, an undo, a crash. *)
LEMMA SurroundingsTyped ==
  ASSUME Typed, Surroundings
  PROVE  Typed'
<1>1. ticks' \in 0..MaxTicks
  <2>1. Tick /\ ticks \in 0..MaxTicks
    BY DEF Surroundings, DeleteFile, WriteFile, SetPointer, Undo, Crash, Typed, TablesOK
  <2> QED
    BY <2>1, CoordinatorAssumption DEF Tick
<1>2. ASSUME NEW r \in Root, NEW k \in Key, DeleteFile(r, k) PROVE Typed'
  BY <1>1, <1>2, StoreKept DEF DeleteFile, evidence, unmoved, Typed, TablesOK
<1>3. ASSUME NEW r \in Root, NEW k \in Key, NEW c \in Content, WriteFile(r, k, c)
      PROVE  Typed'
  <2>1. disk' \in [Root -> [Key -> File \cup {NoFile}]]
    <3>1. ticks + 2 \in Stat
      BY <1>3, CoordinatorAssumption DEF WriteFile, Tick, Stat, Typed, TablesOK
    <3>2. CASE disk' = [disk EXCEPT ![r][k] = [content |-> c, stat |-> ticks + 2]]
      <4>1. [content |-> c, stat |-> ticks + 2] \in File
        BY <3>1 DEF File
      <4> QED
        BY <3>2, <4>1 DEF Typed, TablesOK
    <3>3. CASE disk[r][k] # NoFile /\ disk' = [disk EXCEPT ![r][k].content = c]
      <4>1. disk[r][k] \in File
        BY <3>3 DEF Typed, TablesOK
      <4>2. [disk[r][k] EXCEPT !.content = c] \in File
        BY <4>1 DEF File
      <4>3. disk' = [disk EXCEPT ![r][k] = [disk[r][k] EXCEPT !.content = c]]
        BY <3>3
      <4> QED
        BY <4>2, <4>3 DEF Typed, TablesOK
    <3> QED
      BY <1>3, <3>2, <3>3 DEF WriteFile
  <2> QED
    BY <1>1, <1>3, <2>1, StoreKept DEF WriteFile, evidence, unmoved, Typed, TablesOK
<1>4. ASSUME NEW r \in Root, SetPointer(r) PROVE Typed'
  BY <1>1, <1>4, StoreKept DEF SetPointer, evidence, unmoved, Typed, TablesOK
<1>5. ASSUME Undo PROVE Typed'
  <2>1. Store!TypeOK'
    BY <1>5 DEF Undo, Store!RestorePreviousGeneration, Store!TypeOK, Typed, TablesOK, Gen
  <2> QED
    BY <1>1, <1>5, <2>1 DEF Undo, evidence, unmoved, Typed, TablesOK
<1>6. ASSUME Crash PROVE Typed'
  <2>1. /\ pc' = [t \in Thread |-> "idle"] /\ job' = [t \in Thread |-> NoJob]
        /\ outcome' = [t \in Thread |-> "none"]
    BY <1>6 DEF Crash
  <2>2. Locates("idle", NoJob) /\ "idle" \in PC
    BY AllPlaces DEF Locates, Begun
  <2>3. \A t \in Thread : Locates(pc[t], job[t])'
    BY <2>1, <2>2 DEF Locates
  <2>4. pc' \in [Thread -> PC] /\ job' \in [Thread -> Job]
    BY <2>1, <2>2, NoJobType
  <2> QED
    BY <1>1, <1>6, <2>1, <2>3, <2>4, StoreKept
       DEF Crash, evidence, Typed, TablesOK, Outcome
<1> QED
  BY <1>2, <1>3, <1>4, <1>5, <1>6 DEF Surroundings

(* The first state has the types. *)
LEMMA InitTyped == Init => Typed
<1> SUFFICES ASSUME Init PROVE Typed
  OBVIOUS
<1>1. Store!TypeOK
  BY DEF Init, Store!Init, Store!TypeOK, Store!Status, Store!Row
<1>2. disk \in [Root -> [Key -> File \cup {NoFile}]]
  <2>1. 1 \in Stat
    BY CoordinatorAssumption DEF Stat
  <2> QED
    BY <2>1 DEF Init, File
<1>3. Locates("idle", NoJob) /\ "idle" \in PC
  BY AllPlaces DEF Locates, Begun
<1>4. /\ pc \in [Thread -> PC] /\ job \in [Thread -> Job]
      /\ \A t \in Thread : Locates(pc[t], job[t])
  BY <1>3, NoJobType DEF Init
<1>5. bronze \in [Gen -> [Event -> Rows \cup {NoRows}]]
  BY DEF Init
<1>6. outcome \in [Thread -> Outcome]
  BY DEF Init, Outcome
<1>7. ticks \in 0..MaxTicks
  BY CoordinatorAssumption DEF Init
<1> QED
  BY <1>1, <1>2, <1>4, <1>5, <1>6, <1>7 DEF Init, Typed, TablesOK

(* Every step of a thread or of its surroundings keeps them. *)
LEMMA NextTyped == Typed /\ [Next]_vars => Typed'
<1> SUFFICES ASSUME Typed, [Next]_vars PROVE Typed'
  OBVIOUS
<1>1. ASSUME NEW t \in Thread, Step(t) PROVE Typed'
  BY <1>1, InventoryTyped, StartTyped, DiscoveryTyped, LoopTyped, PublicationTyped,
     EndTyped DEF Step
<1>2. CASE UNCHANGED vars
  BY <1>2, StoreKept DEF vars, evidence, world, Typed, TablesOK, Locates
<1> QED
  BY <1>1, <1>2, EndTyped, SurroundingsTyped DEF Next

(* The types and the places, in every state. *)
LEMMA SpecTyped == Spec => []Typed
BY InitTyped, NextTyped, PTL DEF Spec

(* TypeOK: whatever the files, the folders and the crashes, the locals of every
   refresh, the lock and the tables hold values of their types; in particular no
   refresh stages, fails or publishes without a generation of its own. *)
THEOREM CoordinatorTypeCorrect == Spec => []TypeOK
<1>1. Typed => TypeOK
  BY DEF Typed, TablesOK, TypeOK
<1> QED
  BY <1>1, SpecTyped, PTL

--------------------------------------------------------------------------------
(* The coordinator implements the store: the mapping is the identity on the
   tables, so each step has to be one of the store's operations, with arguments
   of their types, or to leave the tables alone. *)

(* The five steps of a refresh that call the store, and the others. *)
LEMMA StepOfStore ==
  ASSUME Typed, NEW t \in Thread, Step(t)
  PROVE  [Store!Next]_(Store!vars)
<1> USE LocalsAt
<1>1. CASE Start(t)
  BY <1>1 DEF Start, Store!Next, Gen
<1>2. ASSUME NEW k \in Key, Stage(t, k) PROVE [Store!Next]_(Store!vars)
  <2>1. Store!StageSource(job[t].gen, k, VersionOf(job[t].plan[k]), job[t].plan[k].owner)
    BY <1>2 DEF Stage
  <2> QED
    BY <1>2, <2>1, StageType DEF Store!Next, Gen
<1>3. CASE RecordBlocking(t)
  <2>1. job[t].gen \in Gen /\ Store!RecordQualityIssues(job[t].gen, {"error"})
    BY <1>3 DEF RecordBlocking, Go, Locates, Begun
  <2>2. {"error"} \in (SUBSET Severity) \ {{}}
    BY DEF Severity
  <2> QED
    BY <2>1, <2>2 DEF Store!Next, Gen
<1>4. CASE Commit(t)
  <2>1. job[t].gen \in Gen /\ Store!ActivateGeneration(job[t].gen)
    BY <1>4 DEF Commit, Go, Locates, Begun
  <2> QED
    BY <2>1 DEF Store!Next, Gen
<1>5. CASE Fail(t)
  <2>1. job[t].gen \in Gen /\ Store!FailGeneration(job[t].gen)
    BY <1>5 DEF Fail
  <2> QED
    BY <2>1 DEF Store!Next, Gen
<1>6. ASSUME UNCHANGED store PROVE [Store!Next]_(Store!vars)
  BY <1>6 DEF store, Store!vars
<1>7. ASSUME NEW k \in Event, Reuse(t, k) \/ Fingerprint(t, k) \/ Parse(t, k) \/ Verify(t, k)
      PROVE  UNCHANGED store
  BY <1>7 DEF Reuse, Fingerprint, Parse, Verify, Locally
<1>8. CASE \/ ResolveRoot(t) \/ \E k \in Key : LookAt(t, k)
           \/ FindUnchanged(t) \/ FindChanged(t) \/ AnswerUnchanged(t)
           \/ DiscoverRoster(t) \/ DiscoverSchedule(t) \/ SkipEvents(t)
           \/ ListActuals(t) \/ ActualsDone(t) \/ ListCalls(t) \/ CallsDone(t)
           \/ BeginActivation(t) \/ AnswerPublished(t) \/ Raise(t) \/ FailBare(t)
           \/ Drop(t) \/ ClearProgress(t) \/ Release(t) \/ Reply(t)
  <2>1. UNCHANGED store
    BY <1>8 DEF ResolveRoot, LookAt, FindUnchanged, FindChanged, AnswerUnchanged,
         DiscoverRoster, DiscoverSchedule, SkipEvents, ListActuals, ActualsDone,
         ListCalls, CallsDone, BeginActivation, AnswerPublished, Raise, FailBare,
         Drop, ClearProgress, Release, Reply, Locally
  <2> QED
    BY <2>1, <1>6
<1> QED
  BY <1>1, <1>2, <1>3, <1>4, <1>5, <1>6, <1>7, <1>8 DEF Step

(* The undo calls it too; files and crashes do not touch it. *)
LEMMA NextOfStore == Typed /\ [Next]_vars => [Store!Next]_(Store!vars)
<1> SUFFICES ASSUME Typed, [Next]_vars PROVE [Store!Next]_(Store!vars)
  OBVIOUS
<1>1. CASE Undo
  BY <1>1 DEF Undo, Store!Next, Gen
<1>2. ASSUME UNCHANGED store PROVE [Store!Next]_(Store!vars)
  BY <1>2 DEF store, Store!vars
<1>3. ASSUME NEW t \in Thread, Enter(t) \/ Busy(t) PROVE UNCHANGED store
  BY <1>3 DEF Enter, Busy
<1>4. CASE Surroundings /\ ~Undo
  BY <1>2, <1>4 DEF Surroundings, DeleteFile, WriteFile, SetPointer, Crash
<1>5. CASE UNCHANGED vars
  BY <1>2, <1>5 DEF vars
<1> QED
  BY <1>1, <1>2, <1>3, <1>4, <1>5, StepOfStore DEF Next

(* ImplementsStore: however refreshes interleave with files, crashes and an undo,
   what happens to the database is a behaviour of the store. *)
THEOREM CoordinatorImplementsStore == Spec => ImplementsStore
<1>1. Init => Store!Init
  BY DEF Init
<1> QED
  BY <1>1, NextOfStore, SpecTyped, PTL DEF Spec, ImplementsStore, Store!Spec

(* The store's own theorems hold for the tables of the coordinator. *)
Proved == INSTANCE RefreshStoreProofs

(* The constants of the coordinator are as the store assumes. *)
LEMMA StoreConstants == Proved!StoreAssumption
BY CoordinatorAssumption DEF Proved!StoreAssumption, Key, Stat, Severity, NoStat


(* The store the coordinator works on is the store those theorems are about. *)
LEMMA SameStore ==
  /\ Store!Init => Proved!Init
  /\ [Store!Next]_(Store!vars) => [Proved!Next]_(Proved!vars)
  /\ Proved!LineageSound => Store!LineageSound
  /\ Proved!BronzeOneHop => Store!BronzeOneHop
<1> USE DEF Store!Gen, Proved!Gen, Store!Null, Proved!Null, Store!NoRow, Proved!NoRow,
            Store!Running, Proved!Running, Store!Succeeded, Proved!Succeeded
<1>1. Store!Init => Proved!Init
  BY DEF Store!Init, Proved!Init
<1>2. [Store!Next]_(Store!vars) => [Proved!Next]_(Proved!vars)
  <2>1. UNCHANGED Store!vars => UNCHANGED Proved!vars
    BY DEF Store!vars, Proved!vars
  <2>2. \A g \in Gen :
          /\ Store!StartGeneration(g) => Proved!StartGeneration(g)
          /\ Store!ActivateGeneration(g) => Proved!ActivateGeneration(g)
          /\ Store!FailGeneration(g) => Proved!FailGeneration(g)
          /\ Store!RestorePreviousGeneration(g) => Proved!RestorePreviousGeneration(g)
          /\ \A k \in Key : Store!StageRemovedSource(g, k) => Proved!StageRemovedSource(g, k)
          /\ \A batch : Store!RecordQualityIssues(g, batch) => Proved!RecordQualityIssues(g, batch)
    BY DEF Store!StartGeneration, Proved!StartGeneration, Store!IsNextId, Proved!IsNextId,
           Store!ActivateGeneration, Proved!ActivateGeneration,
           Store!FailGeneration, Proved!FailGeneration,
           Store!RestorePreviousGeneration, Proved!RestorePreviousGeneration,
           Store!StageRemovedSource, Proved!StageRemovedSource,
           Store!RemovedRow, Proved!RemovedRow,
           Store!RecordQualityIssues, Proved!RecordQualityIssues
  <2>3. \A g \in Gen, k \in Key : \A v, owner :
          Store!StageSource(g, k, v, owner) => Proved!StageSource(g, k, v, owner)
    BY DEF Store!StageSource, Proved!StageSource, Store!OwnsMatchingBronze,
           Proved!OwnsMatchingBronze, Store!PresentRow, Proved!PresentRow
  <2>4. Store!Version = Proved!Version
    BY DEF Store!Version, Proved!Version
  <2> QED
    BY <2>1, <2>2, <2>3, <2>4 DEF Store!Next, Proved!Next, Gen
<1>3. Proved!LineageSound => Store!LineageSound
  BY DEF Store!LineageSound, Proved!LineageSound
<1>4. Proved!BronzeOneHop => Store!BronzeOneHop
  BY DEF Store!BronzeOneHop, Proved!BronzeOneHop
<1> QED
  BY <1>1, <1>2, <1>3, <1>4

(* Inherited through the refinement: pointer and bases name generations that
   succeeded, and the owner of Bronze rows is one hop away. *)
LEMMA SpecStore == Spec => []Store!LineageSound /\ []Store!BronzeOneHop
<1>1. Spec => Proved!Spec
  BY CoordinatorImplementsStore, SameStore, PTL DEF ImplementsStore, Store!Spec, Proved!Spec
<1> QED
  BY <1>1, StoreConstants, SameStore, Proved!LineagesAreSound, Proved!BronzeIsOneHopAway, PTL

--------------------------------------------------------------------------------
(* Evidence: plans and staged rows of one folder *)

(* A generation that has not begun has no rows. *)
UnusedEmpty ==
  \A g \in Gen : status[g] = "unused" => \A k \in Key : manifest[g][k] = Store!NoRow

(* The generation of a refresh has begun, on the folder the refresh reads, and
   every plan is for rows of its own or of a generation that succeeded, read from
   the same folder. *)
PlansOfOneRoot(t) ==
  LET j == job[t]
  IN  j.gen # Null =>
        /\ status[j.gen] # "unused" /\ catalog[j.gen] = j.root
        /\ \A k \in Key : j.plan[k] # NoPlan =>
             /\ j.plan[k].owner = j.gen \/ Store!Succeeded(j.plan[k].owner)
             /\ catalog[j.plan[k].owner] = j.root

(* Nothing is staged before its turn, and what is staged is what was planned. *)
Staging == {"stage", "publish", "health", "failing", "clear", "release"}
StagedAsPlanned(t) ==
  LET j == job[t]
  IN  j.gen # Null => \A k \in Key :
        LET row == manifest[j.gen][k]
        IN  \/ row = Store!NoRow
            \/ /\ pc[t] \in Staging /\ j.plan[k] # NoPlan
               /\ row = Store!PresentRow(VersionOf(j.plan[k]), j.plan[k].owner)

RootsInv ==
  /\ UnusedEmpty /\ RootsNeverMix
  /\ \A t \in Thread : PlansOfOneRoot(t) /\ StagedAsPlanned(t)

--------------------------------------------------------------------------------
(* A step that writes no evidence and keeps what is planned. *)
Quiet(t) ==
  /\ UNCHANGED <<status, manifest, catalog, bronze>>
  /\ \A u \in Thread \ {t} : job'[u] = job[u] /\ pc'[u] = pc[u]
  /\ \/ job'[t].gen = Null
     \/ /\ job'[t].gen = job[t].gen /\ job'[t].root = job[t].root
        /\ job'[t].plan = job[t].plan
        /\ pc[t] \in Staging => pc'[t] \in Staging
        /\ pc'[t] # "roster"

(* Before its generation begins, a refresh has no plans. *)
LEMMA GenNull ==
  ASSUME Typed, NEW t \in Thread,
         pc[t] \in Outside \cup {"resolve", "inventory", "unchanged", "start"}
  PROVE  job[t].gen = Null /\ job[t].plan = NoJob.plan
BY DEF Typed, Locates, NoJob

(* A step moves the place and the locals of its own thread only. *)
LEMMA OneMoves ==
  ASSUME Typed, NEW t \in Thread, Enter(t) \/ Busy(t) \/ Step(t)
  PROVE  \A u \in Thread \ {t} : job'[u] = job[u] /\ pc'[u] = pc[u]
<1>1. \E from, to : Go(t, from, to)
  <2>1. ASSUME NEW k \in Key, LookAt(t, k) \/ Stage(t, k) PROVE \E from, to : Go(t, from, to)
    BY <2>1 DEF LookAt, Stage
  <2>2. ASSUME NEW k \in Event, Reuse(t, k) \/ Fingerprint(t, k) \/ Parse(t, k) \/ Verify(t, k)
        PROVE  \E from, to : Go(t, from, to)
    BY <2>2 DEF Reuse, Fingerprint, Parse, Verify
  <2>3. CASE Raise(t)
    BY <2>3 DEF Raise, Go
  <2>4. CASE \/ Enter(t) \/ Busy(t) \/ ResolveRoot(t) \/ FindUnchanged(t) \/ FindChanged(t)
             \/ AnswerUnchanged(t) \/ Start(t) \/ DiscoverRoster(t) \/ DiscoverSchedule(t)
             \/ SkipEvents(t) \/ ListActuals(t) \/ ActualsDone(t) \/ ListCalls(t)
             \/ CallsDone(t) \/ RecordBlocking(t) \/ BeginActivation(t) \/ Commit(t)
             \/ AnswerPublished(t) \/ FailBare(t) \/ Fail(t) \/ Drop(t)
             \/ ClearProgress(t) \/ Release(t) \/ Reply(t)
    BY <2>4 DEF Enter, Busy, ResolveRoot, FindUnchanged, FindChanged, AnswerUnchanged,
         Start, DiscoverRoster, DiscoverSchedule, SkipEvents, ListActuals, ActualsDone,
         ListCalls, CallsDone, RecordBlocking, BeginActivation, Commit, AnswerPublished,
         FailBare, Fail, Drop, ClearProgress, Release, Reply
  <2> QED
    BY <2>1, <2>2, <2>3, <2>4 DEF Step
<1>2. \E j : job' = [job EXCEPT ![t] = j]
  <2>1. ASSUME NEW k \in Key, LookAt(t, k) \/ Stage(t, k)
        PROVE  \E j : job' = [job EXCEPT ![t] = j]
    BY <2>1 DEF LookAt, Stage
  <2>2. ASSUME NEW k \in Event, Reuse(t, k) \/ Fingerprint(t, k) \/ Parse(t, k) \/ Verify(t, k)
        PROVE  \E j : job' = [job EXCEPT ![t] = j]
    BY <2>2 DEF Reuse, Fingerprint, Parse, Verify
  <2>3. CASE \/ ResolveRoot(t) \/ FindUnchanged(t) \/ FindChanged(t) \/ Start(t)
             \/ DiscoverRoster(t) \/ DiscoverSchedule(t) \/ SkipEvents(t)
             \/ ListActuals(t) \/ ListCalls(t) \/ CallsDone(t) \/ BeginActivation(t)
             \/ Release(t)
    BY <2>3 DEF ResolveRoot, FindUnchanged, FindChanged, Start, DiscoverRoster,
         DiscoverSchedule, ReadWhole, SkipEvents, ListActuals, ListCalls, CallsDone,
         BeginActivation, Release
  <2>4. UNCHANGED job => job' = [job EXCEPT ![t] = job[t]]
    BY DEF Typed
  <2>5. CASE \/ Enter(t) \/ Busy(t) \/ AnswerUnchanged(t) \/ ActualsDone(t)
             \/ RecordBlocking(t) \/ Commit(t) \/ AnswerPublished(t) \/ Raise(t)
             \/ FailBare(t) \/ Fail(t) \/ Drop(t) \/ ClearProgress(t) \/ Reply(t)
    BY <2>4, <2>5 DEF Enter, Busy, AnswerUnchanged, ActualsDone, RecordBlocking, Commit,
         AnswerPublished, Raise, FailBare, Fail, Drop, ClearProgress, Reply
  <2> QED
    BY <2>1, <2>2, <2>3, <2>5 DEF Step
<1> QED
  BY <1>1, <1>2 DEF Go, Typed

(* The steps that are not quiet: a generation begins, a file is planned for, its
   rows are parsed or staged, the generation ends. *)
LEMMA QuietSteps ==
  ASSUME Typed, Typed', NEW t \in Thread, Enter(t) \/ Busy(t) \/ Step(t)
  PROVE  \/ Quiet(t) \/ Start(t) \/ DiscoverRoster(t) \/ DiscoverSchedule(t)
         \/ \E k \in Event : Reuse(t, k) \/ Parse(t, k)
         \/ \E k \in Key : Stage(t, k)
         \/ Commit(t) \/ Fail(t)
<1> USE LocalsAt, OneMoves
<1>1. ASSUME job'[t].gen = Null, UNCHANGED <<store, evidence>> PROVE Quiet(t)
  BY <1>1 DEF Quiet, store, evidence
<1>2. ASSUME job'[t].gen = job[t].gen, job'[t].root = job[t].root,
             job'[t].plan = job[t].plan, UNCHANGED <<store, evidence>>,
             pc[t] \in Staging => pc'[t] \in Staging, pc'[t] # "roster"
      PROVE  Quiet(t)
  BY <1>2 DEF Quiet, store, evidence
<1>3. CASE \/ Enter(t) \/ Busy(t) \/ ResolveRoot(t) \/ \E k \in Key : LookAt(t, k)
           \/ FindUnchanged(t) \/ FindChanged(t) \/ Release(t) \/ Reply(t)
  <2>1. UNCHANGED <<store, evidence>>
    BY <1>3 DEF Enter, Busy, ResolveRoot, LookAt, FindUnchanged, FindChanged, Release,
                Reply, Locally
  <2>2. pc'[t] \in Outside \cup {"resolve", "inventory", "unchanged", "start"}
    BY <1>3 DEF Enter, Busy, ResolveRoot, LookAt, FindUnchanged, FindChanged, Release,
                Reply, Go, Outside, Typed
  <2>3. job'[t].gen = Null
    BY <2>2, GenNull DEF Typed, Locates, NoJob
  <2> QED
    BY <1>1, <2>1, <2>3
<1>4. ASSUME NEW T, job' = [job EXCEPT ![t].todo = T]
      PROVE  /\ job'[t].gen = job[t].gen /\ job'[t].root = job[t].root
             /\ job'[t].plan = job[t].plan
  BY <1>4 DEF Typed, Job
<1>5. CASE \/ SkipEvents(t) \/ ListActuals(t) \/ ListCalls(t) \/ CallsDone(t)
           \/ \E k \in Event : Verify(t, k)
  <2>1. UNCHANGED <<store, evidence>> /\ \E T : job' = [job EXCEPT ![t].todo = T]
    BY <1>5 DEF SkipEvents, ListActuals, ListCalls, CallsDone, Verify, Locally
  <2>2. (pc[t] \in Staging => pc'[t] \in Staging) /\ pc'[t] # "roster"
    BY <1>5 DEF SkipEvents, ListActuals, ListCalls, CallsDone, Verify, Go, Staging,
       Typed
  <2> QED
    BY <1>2, <1>4, <2>1, <2>2
<1>6. ASSUME NEW k \in Event, Fingerprint(t, k) PROVE Quiet(t)
  <2>1. UNCHANGED <<store, evidence>> /\ pc[t] = LoopOf(k) /\ pc'[t] = "parse"
    BY <1>6 DEF Fingerprint, Locally, Go, Typed
  <2>2. PICK f : job' = [job EXCEPT ![t].todo = @ \ {k}, ![t].seen[k] = f]
    BY <1>6 DEF Fingerprint
  <2>3. /\ job'[t].gen = job[t].gen /\ job'[t].root = job[t].root
        /\ job'[t].plan = job[t].plan
    BY <2>2 DEF Typed, Job
  <2> QED
    BY <1>2, <2>1, <2>3 DEF Staging, LoopOf
<1>7. CASE BeginActivation(t)
  <2>1. UNCHANGED <<store, evidence>> /\ pc'[t] = "publish"
    BY <1>7 DEF BeginActivation, Go, Typed
  <2>2. /\ job'[t].gen = job[t].gen /\ job'[t].root = job[t].root
        /\ job'[t].plan = job[t].plan
    BY <1>7 DEF BeginActivation, Typed, Job
  <2> QED
    BY <1>2, <2>1, <2>2 DEF Staging
<1>8. CASE \/ AnswerUnchanged(t) \/ ActualsDone(t) \/ AnswerPublished(t) \/ Raise(t)
           \/ FailBare(t) \/ Drop(t) \/ ClearProgress(t)
  <2>1. UNCHANGED <<store, evidence, job>>
    BY <1>8 DEF AnswerUnchanged, ActualsDone, AnswerPublished, Raise, FailBare, Drop,
                ClearProgress, Locally
  <2>2. (pc[t] \in Staging => pc'[t] \in Staging) /\ pc'[t] # "roster"
    BY <1>8 DEF AnswerUnchanged, ActualsDone, AnswerPublished, Raise, FailBare, Drop,
                ClearProgress, Go, Staging, Typed
  <2> QED
    BY <1>2, <2>1, <2>2
<1>9. CASE RecordBlocking(t)
  <2>1. UNCHANGED <<status, manifest, catalog, bronze, job>> /\ pc'[t] = "failing"
    BY <1>9 DEF RecordBlocking, Store!RecordQualityIssues, evidence, Go, Typed
  <2> QED
    BY <2>1 DEF Quiet, Staging
<1> QED
  BY <1>3, <1>5, <1>6, <1>7, <1>8, <1>9 DEF Step

--------------------------------------------------------------------------------
(* Steps that write no evidence keep what RootsInv says of plans and rows. *)
LEMMA RootsQuiet ==
  ASSUME Typed, RootsInv, NEW t \in Thread, Quiet(t)
  PROVE  RootsInv'
<1>1. UNCHANGED <<status, manifest, catalog>>
  BY DEF Quiet
<1>2. UnusedEmpty' /\ RootsNeverMix'
  BY <1>1 DEF RootsInv, UnusedEmpty, RootsNeverMix
<1>3. ASSUME NEW u \in Thread PROVE PlansOfOneRoot(u)' /\ StagedAsPlanned(u)'
  <2>1. CASE job'[u].gen = Null
    BY <2>1 DEF PlansOfOneRoot, StagedAsPlanned
  <2>2. CASE job'[u].gen # Null
    <3>1. /\ job'[u].gen = job[u].gen /\ job'[u].root = job[u].root
          /\ job'[u].plan = job[u].plan
          /\ pc[u] \in Staging => pc'[u] \in Staging
      BY <2>2 DEF Quiet
    <3>2. PlansOfOneRoot(u) /\ StagedAsPlanned(u)
      BY DEF RootsInv
    <3> QED
      BY <1>1, <2>2, <3>1, <3>2 DEF PlansOfOneRoot, StagedAsPlanned, Store!Succeeded
  <2> QED
    BY <2>1, <2>2
<1> QED
  BY <1>2, <1>3 DEF RootsInv

(* Only the holder of the lock has a generation. *)
LEMMA Alone ==
  ASSUME Typed, Shown, NEW t \in Thread, pc[t] \notin Outside
  PROVE  \A u \in Thread \ {t} : pc[u] \in Outside /\ job[u].gen = Null
<1>1. \A u \in Thread \ {t} : pc[u] \in Outside
  BY DEF Shown, OneRefreshShown
<1> QED
  BY <1>1, GenNull

(* A present row is a version with the owner of its Bronze rows. *)
LEMMA PresentType ==
  ASSUME Typed, NEW g \in Gen, NEW k \in Key, manifest[g][k].state = "present"
  PROVE  /\ manifest[g][k].content \in Content /\ manifest[g][k].stat \in Stat
         /\ manifest[g][k].bronze \in Gen
<1>1. manifest[g][k] \in Store!Row
  BY DEF Typed, TablesOK, Store!TypeOK, Gen
<1> QED
  BY <1>1 DEF Store!Row, Store!NoRow, Store!RemovedRow, Gen

(* The generation that begins had no row, and nobody names it yet. *)
LEMMA RootsStart ==
  ASSUME Typed, RootsInv, Store!BronzeOneHop, NEW t \in Thread, Start(t)
  PROVE  RootsInv'
<1>1. PICK g \in Gen : /\ Store!StartGeneration(g)
                       /\ catalog' = [catalog EXCEPT ![g] = job[t].root]
                       /\ job' = [job EXCEPT ![t].gen = g]
  BY DEF Start
<1>2. status[g] = "unused" /\ pc[t] = "start" /\ job[t].plan = NoJob.plan
  BY <1>1, GenNull DEF Start, Go, Store!StartGeneration, Store!IsNextId, Gen, Store!Gen
<1>3. /\ status' = [status EXCEPT ![g] = "running"] /\ manifest' = manifest
      /\ g # Null
  BY <1>1 DEF Store!StartGeneration, Gen, Store!Gen, Null, Store!Null
<1>4. /\ \A h \in Gen : status'[h] = IF h = g THEN "running" ELSE status[h]
      /\ \A h \in Gen : catalog'[h] = IF h = g THEN job[t].root ELSE catalog[h]
  BY <1>1, <1>3 DEF Typed, TablesOK, Store!TypeOK, Gen
<1>5. UnusedEmpty'
  BY <1>3, <1>4 DEF RootsInv, UnusedEmpty
<1>6. ASSUME NEW h \in Gen, NEW k \in Key, manifest[h][k].state = "present"
      PROVE  catalog'[manifest[h][k].bronze] = catalog'[h]
  <2>1. h # g
    BY <1>2, <1>6 DEF RootsInv, UnusedEmpty, Store!NoRow
  <2>2. manifest[h][k].bronze \in Gen
    BY <1>6, PresentType
  <2>3. manifest[h][k].bronze # g
    BY <1>2, <1>6, <2>1 DEF Store!BronzeOneHop, Store!Succeeded, Gen
  <2> QED
    BY <1>4, <1>6, <2>1, <2>2, <2>3 DEF RootsInv, RootsNeverMix
<1>7. RootsNeverMix'
  BY <1>3, <1>6 DEF RootsNeverMix
<1>8. ASSUME NEW u \in Thread \ {t} PROVE PlansOfOneRoot(u)' /\ StagedAsPlanned(u)'
  <2>1. job'[u] = job[u] /\ pc'[u] = pc[u]
    BY OneMoves DEF Step
  <2>2. /\ job[u].gen \in Gen \cup {Null}
        /\ \A k \in Key : job[u].plan[k] # NoPlan => job[u].plan[k].owner \in Gen
    BY LocalsAt DEF Plan
  <2>3. PlansOfOneRoot(u) /\ StagedAsPlanned(u)
    BY DEF RootsInv
  <2>4. StagedAsPlanned(u)'
    BY <1>3, <2>1, <2>3 DEF StagedAsPlanned
  <2>5. PlansOfOneRoot(u)'
    BY <1>2, <1>4, <2>1, <2>2, <2>3 DEF PlansOfOneRoot, Store!Succeeded
  <2> QED
    BY <2>4, <2>5
<1>9. PlansOfOneRoot(t)' /\ StagedAsPlanned(t)'
  <2>1. job'[t].gen = g /\ job'[t].root = job[t].root /\ job'[t].plan = NoJob.plan
    BY <1>1, <1>2 DEF Typed, Job
  <2>2. \A k \in Key : NoJob.plan[k] = NoPlan
    BY DEF NoJob
  <2>3. \A k \in Key : manifest[g][k] = Store!NoRow
    BY <1>2 DEF RootsInv, UnusedEmpty
  <2>4. StagedAsPlanned(t)'
    BY <1>3, <2>1, <2>3 DEF StagedAsPlanned
  <2> QED
    BY <1>4, <2>1, <2>2, <2>4 DEF PlansOfOneRoot
<1> QED
  BY <1>5, <1>7, <1>8, <1>9 DEF RootsInv

(* One more plan, for rows that are its own or of a generation that succeeded on
   the same folder. *)
LEMMA RootsPlan ==
  ASSUME Typed, RootsInv, NEW t \in Thread, NEW k \in Key, NEW p,
         UNCHANGED <<status, manifest, catalog>>,
         \A u \in Thread \ {t} : job'[u] = job[u] /\ pc'[u] = pc[u],
         job'[t].gen = job[t].gen, job'[t].root = job[t].root,
         job'[t].plan = [job[t].plan EXCEPT ![k] = p],
         pc[t] \notin Staging,
         p.owner = job[t].gen \/ (Store!Succeeded(p.owner) /\ catalog[p.owner] = job[t].root)
  PROVE  RootsInv'
<1>1. UnusedEmpty' /\ RootsNeverMix'
  BY DEF RootsInv, UnusedEmpty, RootsNeverMix
<1>2. ASSUME NEW u \in Thread \ {t} PROVE PlansOfOneRoot(u)' /\ StagedAsPlanned(u)'
  BY DEF RootsInv, PlansOfOneRoot, StagedAsPlanned, Store!Succeeded
<1>3. PlansOfOneRoot(t)' /\ StagedAsPlanned(t)'
  <2>1. PlansOfOneRoot(t) /\ StagedAsPlanned(t)
    BY DEF RootsInv
  <2>2. \A i \in Key : job'[t].plan[i] = IF i = k THEN p ELSE job[t].plan[i]
    BY LocalsAt
  <2>3. StagedAsPlanned(t)'
    BY <2>1 DEF StagedAsPlanned
  <2>4. PlansOfOneRoot(t)'
    BY <2>1, <2>2 DEF PlansOfOneRoot, Store!Succeeded
  <2> QED
    BY <2>3, <2>4
<1> QED
  BY <1>1, <1>2, <1>3 DEF RootsInv

(* Where a plan comes from: a file read whole, rows that are reused, or rows that
   were just parsed.  Nothing else of the refresh changes but what is still to do. *)
Plans(t, k, p) ==
  /\ p \in Plan
  /\ job'[t].gen = job[t].gen /\ job'[t].root = job[t].root
  /\ job'[t].plan = [job[t].plan EXCEPT ![k] = p]
  /\ job'[t].inv = job[t].inv /\ job'[t].found = job[t].found

Reads(t, k, p) ==
  /\ Plans(t, k, p) /\ job'[t].seen = job[t].seen
  /\ VersionOf(p) = FileOf(t, k) /\ FileOf(t, k) \in File
  /\ p.owner = job[t].gen
  /\ (k = Roster /\ pc[t] = "roster") \/ (k = Schedule /\ pc[t] = "schedule")

Reuses(t, k, g, p) ==
  /\ Plans(t, k, p) /\ job'[t].seen = job[t].seen
  /\ pc[t] \in {"actuals", "calls"} /\ FileOf(t, k) \in File
  /\ g \in Gen /\ g \in Candidates(t, k) /\ manifest[g][k].state = "present"
  /\ p.owner = manifest[g][k].bronze
  /\ p.content = ContentTaken(t, k) /\ p.content = manifest[g][k].content
  /\ p.stat = FileOf(t, k).stat

Parses(t, k, p) ==
  /\ Plans(t, k, p) /\ job'[t].seen = [job[t].seen EXCEPT ![k] = NoFile]
  /\ pc[t] = "parse" /\ job[t].seen[k] \in File
  /\ VersionOf(p) = job[t].seen[k] /\ p.stat = FileOf(t, k).stat
  /\ p.owner = job[t].gen
  /\ bronze' = [bronze EXCEPT ![job[t].gen][k] =
       [content |-> FileOf(t, k).content, roster |-> job[t].plan[Roster].content]]

(* The roster and the schedule are planned for as they are on disk. *)
LEMMA ReadPlans ==
  ASSUME Typed, NEW t \in Thread, DiscoverRoster(t) \/ DiscoverSchedule(t)
  PROVE  \E k \in {Roster, Schedule}, p \in Plan : Reads(t, k, p)
<1> USE LocalsAt
<1>1. PICK k \in {Roster, Schedule} :
        /\ ReadWhole(t, k)
        /\ (k = Roster /\ pc[t] = "roster") \/ (k = Schedule /\ pc[t] = "schedule")
  BY CoordinatorAssumption DEF DiscoverRoster, DiscoverSchedule, Go
<1> DEFINE p == [content |-> FileOf(t, k).content, stat |-> FileOf(t, k).stat,
                 owner |-> job[t].gen]
<1>2. job[t].root \in Root /\ job[t].gen \in Gen /\ k \in Key
  BY <1>1 DEF Locates, Begun, Key
<1>3. FileOf(t, k) \in File
  BY <1>1, <1>2 DEF ReadWhole, FileOf
<1>4. p \in Plan /\ p.owner = job[t].gen
  BY <1>2, <1>3 DEF File, Plan
<1>5. VersionOf(p) = FileOf(t, k)
  BY <1>3 DEF VersionOf, File
<1>6. job' = [job EXCEPT ![t].plan[k] = p]
  BY <1>1 DEF ReadWhole
<1> HIDE DEF p
<1>7. Plans(t, k, p) /\ job'[t].seen = job[t].seen
  BY <1>4, <1>6 DEF Typed, Job, Plans
<1> QED
  BY <1>1, <1>3, <1>4, <1>5, <1>7 DEF Reads

(* A reused file is planned for with the rows of the newest generation that knows
   its version. *)
LEMMA ReusePlans ==
  ASSUME Typed, NEW t \in Thread, NEW k \in Event, Reuse(t, k)
  PROVE  \E p \in Plan, g \in Gen : Reuses(t, k, g, p)
<1> USE LocalsAt
<1>1. FileOf(t, k) # NoFile /\ KnownVersions(t, k) # {} /\ pc[t] \in {"actuals", "calls"}
  BY DEF Reuse, Go, Reusable, LoopOf
<1>2. PICK g \in Candidates(t, k) :
           /\ g \in Gen /\ OwnerOf(t, k) = manifest[g][k].bronze
           /\ manifest[g][k] \in Store!Row /\ manifest[g][k].state = "present"
           /\ manifest[g][k].bronze \in Gen
           /\ manifest[g][k].content \in Content
           /\ AgreesWithActive(t, k) =>
                g = active /\ manifest[g][k].stat = FileOf(t, k).stat
           /\ ~AgreesWithActive(t, k) => manifest[g][k].content = FileOf(t, k).content
  BY <1>1, Known
<1>3. ContentTaken(t, k) = manifest[g][k].content
  BY <1>2 DEF ContentTaken
<1>4. FileOf(t, k) \in File
  BY <1>1, TakenType DEF Begun
<1> DEFINE p == [content |-> ContentTaken(t, k), stat |-> FileOf(t, k).stat,
                 owner |-> OwnerOf(t, k)]
<1>5. /\ p \in Plan /\ p.content = ContentTaken(t, k) /\ p.stat = FileOf(t, k).stat
      /\ p.owner = OwnerOf(t, k)
  BY <1>2, <1>3, <1>4 DEF File, Plan
<1>6. job' = [job EXCEPT ![t].todo = @ \ {k}, ![t].plan[k] = p]
  BY DEF Reuse
<1> HIDE DEF p
<1>7. Plans(t, k, p) /\ job'[t].seen = job[t].seen
  BY <1>5, <1>6 DEF Typed, Job, Plans
<1> QED
  BY <1>1, <1>2, <1>3, <1>4, <1>5, <1>7 DEF Reuses

(* A parsed file is planned for as it was fingerprinted, with rows of its own. *)
LEMMA ParsePlans ==
  ASSUME Typed, NEW t \in Thread, NEW k \in Event, Parse(t, k)
  PROVE  \E p \in Plan : Parses(t, k, p)
<1> USE LocalsAt
<1> DEFINE p == [content |-> job[t].seen[k].content, stat |-> job[t].seen[k].stat,
                 owner |-> job[t].gen]
<1>1. pc[t] = "parse" /\ job[t].seen[k] # NoFile /\ FileOf(t, k).stat = job[t].seen[k].stat
  BY DEF Parse, Go
<1>2. job[t].gen \in Gen /\ job[t].seen[k] \in File
  BY <1>1 DEF Locates, Begun
<1>3. /\ p \in Plan /\ p.owner = job[t].gen /\ p.stat = job[t].seen[k].stat
      /\ VersionOf(p) = job[t].seen[k]
  BY <1>2 DEF File, Plan, VersionOf
<1>4. /\ job' = [job EXCEPT ![t].seen[k] = NoFile, ![t].plan[k] = p]
      /\ bronze' = [bronze EXCEPT ![job[t].gen][k] =
           [content |-> FileOf(t, k).content, roster |-> job[t].plan[Roster].content]]
  BY DEF Parse
<1> HIDE DEF p
<1>5. Plans(t, k, p) /\ job'[t].seen = [job[t].seen EXCEPT ![k] = NoFile]
  BY <1>3, <1>4 DEF Typed, Job, Plans
<1> QED
  BY <1>1, <1>2, <1>3, <1>4, <1>5 DEF Parses

(* Reading, reusing and parsing keep to the folder of the refresh. *)
LEMMA RootsDiscover ==
  ASSUME Typed, RootsInv, Store!BronzeOneHop, NEW t \in Thread,
         \/ DiscoverRoster(t) \/ DiscoverSchedule(t)
         \/ \E k \in Event : Reuse(t, k) \/ Parse(t, k)
  PROVE  RootsInv'
<1>1. \A u \in Thread \ {t} : job'[u] = job[u] /\ pc'[u] = pc[u]
  BY OneMoves DEF Step
<1>2. CASE DiscoverRoster(t) \/ DiscoverSchedule(t)
  <2>1. PICK k \in {Roster, Schedule}, p \in Plan : Reads(t, k, p)
    BY <1>2, ReadPlans
  <2>2. UNCHANGED <<status, manifest, catalog>> /\ k \in Key
    BY <1>2 DEF DiscoverRoster, DiscoverSchedule, Locally, store, evidence, Key
  <2> QED
    BY <1>1, <2>1, <2>2, RootsPlan DEF Staging, Reads, Plans
<1>3. ASSUME NEW k \in Event, Reuse(t, k) PROVE RootsInv'
  <2>1. PICK p \in Plan, g \in Gen : Reuses(t, k, g, p)
    BY <1>3, ReusePlans
  <2>2. UNCHANGED <<status, manifest, catalog>> /\ k \in Key
    BY <1>3 DEF Reuse, Locally, store, evidence, Key
  <2>3. /\ Store!Succeeded(g) /\ catalog[g] = job[t].root
        /\ manifest[g][k].state = "present" /\ p.owner = manifest[g][k].bronze
    BY <2>1 DEF Candidates, Reuses
  <2>4. Store!Succeeded(p.owner)
    BY <2>2, <2>3 DEF Store!BronzeOneHop, Gen
  <2>5. catalog[p.owner] = job[t].root
    BY <2>2, <2>3 DEF RootsInv, RootsNeverMix
  <2> QED
    BY <1>1, <2>1, <2>2, <2>4, <2>5, RootsPlan DEF Staging, Reuses, Plans
<1>4. ASSUME NEW k \in Event, Parse(t, k) PROVE RootsInv'
  <2>1. PICK p \in Plan : Parses(t, k, p)
    BY <1>4, ParsePlans
  <2>2. UNCHANGED <<status, manifest, catalog>> /\ k \in Key
    BY <1>4 DEF Parse, store, Key
  <2> QED
    BY <1>1, <2>1, <2>2, RootsPlan DEF Staging, Parses, Plans
<1> QED
  BY <1>2, <1>3, <1>4

(* What staging a source writes: the row of its plan, under its own generation. *)
LEMMA StageWrites ==
  ASSUME Typed, NEW t \in Thread, NEW k \in Key, Stage(t, k)
  PROVE  /\ job[t].gen \in Gen /\ pc[t] = "stage" /\ pc'[t] = "stage"
         /\ status[job[t].gen] = "running"
         /\ job[t].plan[k] \in Plan /\ job[t].plan[k] # NoPlan
         /\ manifest' = [manifest EXCEPT ![job[t].gen][k] =
              Store!PresentRow(VersionOf(job[t].plan[k]), job[t].plan[k].owner)]
         /\ manifest[job[t].gen][k] \in
              {Store!NoRow, Store!PresentRow(VersionOf(job[t].plan[k]), job[t].plan[k].owner)}
         /\ UNCHANGED <<status, active, catalog, bronze>>
         /\ job'[t].gen = job[t].gen /\ job'[t].root = job[t].root
         /\ job'[t].plan = job[t].plan /\ job'[t].inv = job[t].inv
         /\ job'[t].found = job[t].found /\ job'[t].seen = job[t].seen
<1>1. job[t].plan[k] # NoPlan
  <2>1. job[t].plan[k].owner # 0
    BY StageType DEF Gen, Store!Gen
  <2> QED
    BY <2>1 DEF NoPlan, Null, Store!Null
<1>2. /\ job'[t].gen = job[t].gen /\ job'[t].root = job[t].root
      /\ job'[t].plan = job[t].plan /\ job'[t].inv = job[t].inv
      /\ job'[t].found = job[t].found /\ job'[t].seen = job[t].seen
  BY DEF Stage, Typed, Job
<1> QED
  BY <1>1, <1>2, StageType
     DEF Stage, Go, Typed, Store!StageSource, Store!Running, evidence

(* The row a source is staged with, as the manifest's column types give it. *)
LEMMA PresentRowIs ==
  ASSUME NEW v, NEW owner
  PROVE  /\ Store!PresentRow(v, owner).state = "present"
         /\ Store!PresentRow(v, owner).content = v.content
         /\ Store!PresentRow(v, owner).stat = v.stat
         /\ Store!PresentRow(v, owner).bronze = owner
BY DEF Store!PresentRow

(* A staged row names rows read from the folder its generation was begun on. *)
LEMMA RootsStage ==
  ASSUME Typed, Shown, RootsInv, NEW t \in Thread, NEW k \in Key, Stage(t, k)
  PROVE  RootsInv'
<1> DEFINE g == job[t].gen
           p == job[t].plan[k]
           row == Store!PresentRow(VersionOf(p), p.owner)
<1>1. /\ g \in Gen /\ g # Null /\ status[g] = "running" /\ p # NoPlan
      /\ manifest' = [manifest EXCEPT ![g][k] = row]
      /\ UNCHANGED <<status, catalog>>
  BY StageWrites DEF Gen, Store!Gen, Null, Store!Null
<1>2. row.state = "present" /\ row.bronze = p.owner
  BY PresentRowIs
<1>3. \A h \in Gen, i \in Key :
        manifest'[h][i] = IF h = g /\ i = k THEN row ELSE manifest[h][i]
  BY <1>1 DEF Typed, TablesOK, Store!TypeOK, Gen
<1>4. PlansOfOneRoot(t) /\ StagedAsPlanned(t)
  BY DEF RootsInv
<1> HIDE DEF row
<1>5. UnusedEmpty'
  BY <1>1, <1>3 DEF RootsInv, UnusedEmpty
<1>6. RootsNeverMix'
  <2>1. catalog[p.owner] = catalog[g]
    BY <1>1, <1>4 DEF PlansOfOneRoot
  <2> QED
    BY <1>1, <1>2, <1>3, <2>1 DEF RootsInv, RootsNeverMix
<1>7. ASSUME NEW u \in Thread \ {t} PROVE PlansOfOneRoot(u)' /\ StagedAsPlanned(u)'
  <2>1. job[u].gen = Null
    BY Alone, StageWrites DEF Outside
  <2>2. job'[u] = job[u]
    BY OneMoves DEF Step
  <2> QED
    BY <2>1, <2>2 DEF PlansOfOneRoot, StagedAsPlanned
<1>8. PlansOfOneRoot(t)'
  <2>1. /\ job'[t].gen = g /\ job'[t].root = job[t].root
        /\ job'[t].plan = job[t].plan /\ UNCHANGED <<status, catalog>>
    BY StageWrites
  <2> QED
    BY <1>4, <2>1 DEF PlansOfOneRoot, Store!Succeeded
<1>9. StagedAsPlanned(t)'
  <2>1. pc[t] \in Staging /\ pc'[t] \in Staging
    BY StageWrites DEF Staging
  <2>2. job'[t].gen = g /\ job'[t].plan = job[t].plan
    BY StageWrites
  <2>3. row = Store!PresentRow(VersionOf(p), p.owner)
    BY DEF row
  <2>4. ASSUME NEW i \in Key
        PROVE  \/ manifest'[g][i] = Store!NoRow
               \/ /\ pc'[t] \in Staging /\ job[t].plan[i] # NoPlan
                  /\ manifest'[g][i] =
                       Store!PresentRow(VersionOf(job[t].plan[i]), job[t].plan[i].owner)
    <3>1. CASE i = k
      BY <1>1, <1>3, <2>1, <2>3, <3>1
    <3>2. CASE i # k
      BY <1>1, <1>3, <1>4, <2>1, <3>2 DEF StagedAsPlanned
    <3> QED
      BY <3>1, <3>2
  <2> QED
    BY <2>2, <2>4 DEF StagedAsPlanned
<1> QED
  BY <1>5, <1>6, <1>7, <1>8, <1>9 DEF RootsInv

(* A generation that ends stages nothing more and keeps what it staged. *)
LEMMA RootsEnd ==
  ASSUME Typed, RootsInv, NEW t \in Thread, Commit(t) \/ Fail(t)
  PROVE  RootsInv'
<1>1. PICK g \in Gen, s \in {"succeeded", "failed"} :
        /\ status[g] = "running" /\ status' = [status EXCEPT ![g] = s]
        /\ g = job[t].gen
  <2>1. job[t].gen \in Gen
    BY LocalsAt DEF Commit, Fail, Go, Locates, Begun
  <2> QED
    BY <2>1 DEF Commit, Fail, Store!ActivateGeneration, Store!FailGeneration,
       Store!Running
<1>2. /\ UNCHANGED <<manifest, catalog, job>> /\ pc'[t] \in Staging
  BY DEF Commit, Fail, Store!ActivateGeneration, Store!FailGeneration, evidence, Go,
         Staging, Typed
<1>3. \A h \in Gen : status'[h] = IF h = g THEN s ELSE status[h]
  BY <1>1 DEF Typed, TablesOK, Store!TypeOK, Gen
<1>4. UnusedEmpty' /\ RootsNeverMix'
  BY <1>1, <1>2, <1>3 DEF RootsInv, UnusedEmpty, RootsNeverMix
<1>5. ASSUME NEW u \in Thread PROVE PlansOfOneRoot(u)' /\ StagedAsPlanned(u)'
  <2>1. /\ job[u].gen \in Gen \cup {Null}
        /\ \A k \in Key : job[u].plan[k] # NoPlan => job[u].plan[k].owner \in Gen
    BY LocalsAt DEF Plan
  <2>2. PlansOfOneRoot(u) /\ StagedAsPlanned(u)
    BY DEF RootsInv
  <2>3. pc[u] \in Staging => pc'[u] \in Staging
    BY <1>2, OneMoves DEF Step
  <2>4. StagedAsPlanned(u)'
    BY <1>2, <2>2, <2>3 DEF StagedAsPlanned
  <2>5. PlansOfOneRoot(u)'
    BY <1>1, <1>2, <1>3, <2>1, <2>2 DEF PlansOfOneRoot, Store!Succeeded
  <2> QED
    BY <2>4, <2>5
<1> QED
  BY <1>4, <1>5 DEF RootsInv

(* Files, the pointer, an undo and a crash write no evidence. *)
LEMMA RootsSurroundings ==
  ASSUME Typed, RootsInv, Surroundings \/ UNCHANGED vars
  PROVE  RootsInv'
<1>1. UNCHANGED <<status, manifest, catalog>>
  BY DEF Surroundings, DeleteFile, WriteFile, SetPointer, Undo, Crash, vars, store,
     evidence,
         Store!RestorePreviousGeneration
<1>2. UnusedEmpty' /\ RootsNeverMix'
  BY <1>1 DEF RootsInv, UnusedEmpty, RootsNeverMix
<1>3. CASE Crash
  <2>1. \A t \in Thread : job'[t].gen = Null
    BY <1>3 DEF Crash, NoJob
  <2> QED
    BY <1>2, <2>1 DEF RootsInv, PlansOfOneRoot, StagedAsPlanned
<1>4. CASE ~Crash
  <2>1. UNCHANGED <<pc, job>>
    BY <1>4 DEF Surroundings, DeleteFile, WriteFile, SetPointer, Undo, unmoved, vars
  <2> QED
    BY <1>1, <1>2, <2>1
       DEF RootsInv, PlansOfOneRoot, StagedAsPlanned, Store!Succeeded
<1> QED
  BY <1>3, <1>4

(* Nothing is planned or staged at first. *)
LEMMA RootsInit == Init => RootsInv
<1> SUFFICES ASSUME Init PROVE RootsInv
  OBVIOUS
<1>1. \A t \in Thread : job[t].gen = Null
  BY DEF Init, NoJob
<1>2. \A g \in Gen, k \in Key : manifest[g][k] = Store!NoRow
  BY DEF Init, Store!Init, Gen
<1> QED
  BY <1>1, <1>2 DEF RootsInv, UnusedEmpty, RootsNeverMix, PlansOfOneRoot,
                    StagedAsPlanned, Store!NoRow

(* Begun, planned and staged on one folder, throughout. *)
LEMMA SpecRoots == Spec => []RootsInv
<1>1. Typed /\ Typed' /\ Shown /\ Store!BronzeOneHop /\ RootsInv /\ [Next]_vars => RootsInv'
  <2> SUFFICES ASSUME Typed, Typed', Shown, Store!BronzeOneHop, RootsInv, [Next]_vars
               PROVE  RootsInv'
    OBVIOUS
  <2>1. ASSUME NEW t \in Thread, Enter(t) \/ Busy(t) \/ Step(t) PROVE RootsInv'
    BY <2>1, QuietSteps, RootsQuiet, RootsStart, RootsDiscover, RootsStage, RootsEnd
  <2> QED
    BY <2>1, RootsSurroundings DEF Next
<1> QED
  BY <1>1, RootsInit, SpecTyped, SpecShown, SpecStore, PTL DEF Spec

(* RootsNeverMix: however often the pointer to the source folder moves while
   refreshes reuse one another's rows, the raw rows a manifest names were read from
   the folder the generation was read from. *)
THEOREM RootsAreNeverMixed == Spec => []RootsNeverMix
<1>1. RootsInv => RootsNeverMix
  BY DEF RootsInv
<1> QED
  BY <1>1, SpecRoots, PTL

--------------------------------------------------------------------------------
(* A failure that is reported has been recorded: FailurePreserves rests on it. *)
FailedIs(t) ==
  pc[t] \in {"clear", "release"} /\ outcome[t] = "failed" /\ job[t].gen # Null =>
    status[job[t].gen] = "failed"
FailedInv == \A t \in Thread : FailedIs(t)

(* A generation that failed stays failed: no operation of the store takes one that
   is finished. *)
LEMMA FailedForGood ==
  ASSUME Typed, [Next]_vars, NEW g \in Gen, status[g] = "failed"
  PROVE  status'[g] = "failed"
<1>1. [Store!Next]_(Store!vars)
  BY NextOfStore
<1>2. CASE UNCHANGED Store!vars
  BY <1>2 DEF Store!vars
<1>3. CASE Store!Next
  <2>1. PICK h \in Gen :
          \/ status' = status
          \/ status[h] \in {"unused", "running"} /\ \E s : status' = [status EXCEPT ![h] = s]
    BY <1>3 DEF Store!Next, Gen, Store!StartGeneration, Store!IsNextId,
       Store!StageSource,
         Store!StageRemovedSource, Store!RecordQualityIssues, Store!ActivateGeneration,
         Store!FailGeneration, Store!RestorePreviousGeneration, Store!Running, Store!Gen
  <2> QED
    BY <2>1 DEF Typed, TablesOK, Store!TypeOK, Gen
<1> QED
  BY <1>1, <1>2, <1>3

(* The thread that moves reports a failure only after recording it. *)
LEMMA FailedMoves ==
  ASSUME Typed, Typed', FailedInv, NEW t \in Thread, Enter(t) \/ Busy(t) \/ Step(t)
  PROVE  FailedIs(t)'
<1> USE LocalsAt
<1> SUFFICES ASSUME pc'[t] \in {"clear", "release"}, outcome'[t] = "failed",
                    job'[t].gen # Null
             PROVE  status'[job'[t].gen] = "failed"
  BY DEF FailedIs
<1>1. CASE Fail(t)
  BY <1>1 DEF Fail, Store!FailGeneration, Typed, TablesOK, Store!TypeOK, Gen
<1>2. CASE AnswerUnchanged(t) \/ AnswerPublished(t) \/ Drop(t)
  BY <1>2 DEF AnswerUnchanged, AnswerPublished, Drop, Typed, TablesOK
<1>3. CASE FailBare(t)
  BY <1>3 DEF FailBare
<1>4. CASE ClearProgress(t)
  BY <1>4 DEF ClearProgress, Go, FailedInv, FailedIs, store
<1>5. ASSUME NEW k \in Key, LookAt(t, k) \/ Stage(t, k) PROVE FALSE
  BY <1>5 DEF LookAt, Stage, Go, Typed
<1>6. ASSUME NEW k \in Event,
             Reuse(t, k) \/ Fingerprint(t, k) \/ Parse(t, k) \/ Verify(t, k)
      PROVE  FALSE
  BY <1>6 DEF Reuse, Fingerprint, Parse, Verify, LoopOf, Go, Typed
<1>7. CASE Raise(t)
  BY <1>7 DEF Raise, Typed
<1>8. CASE \/ Enter(t) \/ Busy(t) \/ ResolveRoot(t) \/ FindUnchanged(t) \/ FindChanged(t)
           \/ Start(t) \/ DiscoverRoster(t) \/ DiscoverSchedule(t) \/ SkipEvents(t)
           \/ ListActuals(t) \/ ActualsDone(t) \/ ListCalls(t) \/ CallsDone(t)
           \/ RecordBlocking(t) \/ BeginActivation(t) \/ Commit(t) \/ Release(t) \/ Reply(t)
  BY <1>8 DEF Enter, Busy, ResolveRoot, FindUnchanged, FindChanged, Start,
     DiscoverRoster,
       DiscoverSchedule, SkipEvents, ListActuals, ActualsDone, ListCalls, CallsDone,
       RecordBlocking, BeginActivation, Commit, Release, Reply, Go, Typed
<1> QED
  BY <1>1, <1>2, <1>3, <1>4, <1>5, <1>6, <1>7, <1>8 DEF Step

(* A step settles the outcome of its own thread only. *)
LEMMA OutcomeOfOne ==
  ASSUME Typed, NEW t \in Thread, Enter(t) \/ Busy(t) \/ Step(t)
  PROVE  \A u \in Thread \ {t} : outcome'[u] = outcome[u]
<1>1. UNCHANGED outcome \/ \E o : outcome' = [outcome EXCEPT ![t] = o]
  <2>1. ASSUME NEW k \in Key, LookAt(t, k) \/ Stage(t, k) PROVE UNCHANGED outcome
    BY <2>1 DEF LookAt, Stage, Locally
  <2>2. ASSUME NEW k \in Event,
               Reuse(t, k) \/ Fingerprint(t, k) \/ Parse(t, k) \/ Verify(t, k)
        PROVE  UNCHANGED outcome
    BY <2>2 DEF Reuse, Fingerprint, Parse, Verify, Locally
  <2> QED
    BY <2>1, <2>2 DEF Step, Enter, Busy, ResolveRoot, FindUnchanged, FindChanged,
       AnswerUnchanged, Start, DiscoverRoster, DiscoverSchedule, SkipEvents,
       ListActuals,
       ActualsDone, ListCalls, CallsDone, RecordBlocking, BeginActivation, Commit,
       AnswerPublished, Raise, FailBare, Fail, Drop, ClearProgress, Release, Reply,
       Locally
<1> QED
  BY <1>1 DEF Typed, TablesOK

(* The record of a failure stays while its refresh clears up. *)
LEMMA FailedNext ==
  ASSUME Typed, Typed', FailedInv, [Next]_vars PROVE FailedInv'
<1>1. ASSUME NEW u \in Thread, job'[u] = job[u], pc'[u] = pc[u], outcome'[u] = outcome[u]
      PROVE  FailedIs(u)'
  <2>1. job[u].gen \in Gen \cup {Null}
    BY LocalsAt
  <2> QED
    BY <1>1, <2>1, FailedForGood DEF FailedInv, FailedIs
<1>2. ASSUME NEW t \in Thread, Enter(t) \/ Busy(t) \/ Step(t) PROVE FailedInv'
  <2>1. FailedIs(t)'
    BY <1>2, FailedMoves
  <2>2. \A u \in Thread \ {t} : FailedIs(u)'
    BY <1>1, <1>2, OneMoves, OutcomeOfOne
  <2> QED
    BY <2>1, <2>2 DEF FailedInv
<1>3. CASE Crash
  BY <1>3 DEF Crash, FailedInv, FailedIs
<1>4. CASE (Surroundings /\ ~Crash) \/ UNCHANGED vars
  <2>1. UNCHANGED <<pc, job, outcome>>
    BY <1>4 DEF Surroundings, DeleteFile, WriteFile, SetPointer, Undo, unmoved, vars
  <2> QED
    BY <1>1, <2>1 DEF FailedInv
<1> QED
  BY <1>2, <1>3, <1>4 DEF Next

(* FailurePreserves: a refresh that reports a failure leaves its generation failed,
   never current and nobody's base, whatever other processes publish or undo
   meanwhile: a failed generation is final, and pointer and bases name generations
   that succeeded. *)
THEOREM FailuresPreserve == Spec => []FailurePreserves
<1>1. Init => FailedInv
  BY DEF Init, FailedInv, FailedIs
<1>2. Typed /\ Typed' /\ FailedInv /\ [Next]_vars => FailedInv'
  BY FailedNext
<1>3. Typed /\ FailedInv /\ Store!LineageSound => FailurePreserves
  <2> SUFFICES ASSUME Typed, FailedInv, Store!LineageSound, NEW t \in Thread,
                      pc[t] \in {"clear", "release"}, outcome[t] = "failed", job[t].gen # Null
               PROVE  /\ status[job[t].gen] = "failed" /\ active # job[t].gen
                      /\ \A h \in Gen : base[h] # job[t].gen
    BY DEF FailurePreserves
  <2>1. status[job[t].gen] = "failed"
    BY DEF FailedInv, FailedIs
  <2> QED
    BY <2>1 DEF Store!LineageSound, Store!Succeeded, Null, Gen
<1> QED
  BY <1>1, <1>2, <1>3, SpecTyped, SpecStore, PTL DEF Spec

--------------------------------------------------------------------------------
(* What was ever recorded of a file of a folder: a size and time has one
   content, and none is newer than the last move of the surroundings. *)
Dated(n, h, v) == v.stat <= n + 1 /\ v.content = h[v.stat]
History == [0..MaxTicks + 1 -> Content \cup {NoContent}]

Remembers(n, h, j, k) ==
  /\ Dated(n, h, j.inv[k]) /\ Dated(n, h, j.plan[k]) /\ Dated(n, h, j.found[k])
  /\ k \in Event => Dated(n, h, j.seen[k])

Remembered(h, r, k) ==
  /\ h[NoStat] = NoContent
  /\ Dated(ticks, h, disk[r][k])
  /\ \A g \in Gen : catalog[g] = r /\ manifest[g][k].state = "present" =>
       Dated(ticks, h, manifest[g][k])
  /\ \A t \in Thread : job[t].root = r => Remembers(ticks, h, job[t], k)

StatsTell == \A r \in Root, k \in Key : \E h \in History : Remembered(h, r, k)

(* What a refresh takes a file for that it does not hash. *)
Taken(t, k) == [content |-> ContentTaken(t, k), stat |-> FileOf(t, k).stat]

(* A step after which a refresh knows of its files what it knew, or what is there,
   or what the current cut says. *)
Learns(t) ==
  /\ job'[t].root = job[t].root
  /\ \A k \in Key :
       /\ job'[t].inv[k] \in {job[t].inv[k], NoFile, FileOf(t, k)}
       /\ job'[t].found[k] \in {job[t].found[k], FileOf(t, k)}
       /\ \/ job'[t].plan[k] = job[t].plan[k]
          \/ VersionOf(job'[t].plan[k]) \in {FileOf(t, k), Taken(t, k)}
          \/ k \in Event /\ VersionOf(job'[t].plan[k]) = job[t].seen[k]
  /\ \A k \in Event : job'[t].seen[k] \in {job[t].seen[k], NoFile, Taken(t, k)}

(* What is on disk is remembered, and so is what a refresh takes it for when its
   size and time agree with the current cut. *)
LEMMA TakenDated ==
  ASSUME Typed, NEW t \in Thread, NEW k \in Key, job[t].root \in Root,
         NEW h, Remembered(h, job[t].root, k)
  PROVE  Dated(ticks, h, FileOf(t, k)) /\ Dated(ticks, h, Taken(t, k)) /\ Dated(ticks, h, NoFile)
<1>1. Dated(ticks, h, FileOf(t, k))
  BY DEF Remembered, FileOf
<1>2. Dated(ticks, h, NoFile)
  BY DEF Remembered, Dated, NoFile, NoStat, Typed, TablesOK
<1>3. CASE AgreesWithActive(t, k)
  <2>1. /\ active \in Gen /\ catalog[active] = job[t].root
        /\ manifest[active][k].state = "present"
        /\ manifest[active][k].stat = FileOf(t, k).stat
    BY <1>3 DEF AgreesWithActive, Candidates
  <2>2. Dated(ticks, h, manifest[active][k])
    BY <2>1 DEF Remembered
  <2> QED
    BY <1>1, <1>2, <1>3, <2>1, <2>2 DEF Dated, Taken, ContentTaken
<1>4. CASE ~AgreesWithActive(t, k)
  BY <1>1, <1>2, <1>4 DEF Dated, Taken, ContentTaken
<1> QED
  BY <1>3, <1>4

(* What a refresh learns is remembered already. *)
LEMMA LearnsDated ==
  ASSUME Typed, NEW t \in Thread, Learns(t), UNCHANGED ticks, NEW k \in Key,
         job[t].root \in Root, NEW h, Remembered(h, job[t].root, k)
  PROVE  Remembers(ticks, h, job'[t], k)
<1>1. Dated(ticks, h, FileOf(t, k)) /\ Dated(ticks, h, Taken(t, k)) /\ Dated(ticks, h, NoFile)
  BY TakenDated
<1>2. Remembers(ticks, h, job[t], k)
  BY DEF Remembered
<1>3. Dated(ticks, h, job'[t].inv[k]) /\ Dated(ticks, h, job'[t].found[k])
  BY <1>1, <1>2 DEF Learns, Remembers
<1>4. Dated(ticks, h, VersionOf(job'[t].plan[k])) => Dated(ticks, h, job'[t].plan[k])
  BY DEF Dated, VersionOf
<1>5. Dated(ticks, h, job'[t].plan[k])
  BY <1>1, <1>2, <1>4 DEF Learns, Remembers
<1>6. k \in Event => Dated(ticks, h, job'[t].seen[k])
  BY <1>1, <1>2 DEF Learns, Remembers
<1> QED
  BY <1>3, <1>5, <1>6 DEF Remembers

(* The files are the surroundings' to write. *)
LEMMA WorldKept ==
  ASSUME NEW t \in Thread, Enter(t) \/ Busy(t) \/ Step(t)
  PROVE  UNCHANGED world
<1>1. ASSUME NEW k \in Key, LookAt(t, k) \/ Stage(t, k) PROVE UNCHANGED world
  BY <1>1 DEF LookAt, Stage, Locally
<1>2. ASSUME NEW k \in Event,
             Reuse(t, k) \/ Fingerprint(t, k) \/ Parse(t, k) \/ Verify(t, k)
      PROVE  UNCHANGED world
  BY <1>2 DEF Reuse, Fingerprint, Parse, Verify, Locally
<1> QED
  BY <1>1, <1>2 DEF Step, Enter, Busy, ResolveRoot, FindUnchanged, FindChanged,
     AnswerUnchanged, Start, DiscoverRoster, DiscoverSchedule, SkipEvents, ListActuals,
     ActualsDone, ListCalls, CallsDone, RecordBlocking, BeginActivation, Commit,
     AnswerPublished, Raise, FailBare, Fail, Drop, ClearProgress, Release, Reply,
     Locally

(* Every step of a refresh learns, resolves the folder or forgets everything. *)
LEMMA LearnsSteps ==
  ASSUME Typed, NEW t \in Thread, Enter(t) \/ Busy(t) \/ Step(t)
  PROVE  Learns(t) \/ ResolveRoot(t) \/ job'[t] = NoJob
<1> USE LocalsAt
<1>1. CASE UNCHANGED job
  BY <1>1 DEF Learns
<1>2. ASSUME NEW T, job' = [job EXCEPT ![t].todo = T] PROVE Learns(t)
  BY <1>2 DEF Typed, Job, Learns
<1>3. CASE \/ Enter(t) \/ Busy(t) \/ AnswerUnchanged(t) \/ ActualsDone(t)
           \/ RecordBlocking(t) \/ Commit(t) \/ AnswerPublished(t) \/ Raise(t)
           \/ FailBare(t) \/ Fail(t) \/ Drop(t) \/ ClearProgress(t) \/ Reply(t)
  BY <1>1, <1>3 DEF Enter, Busy, AnswerUnchanged, ActualsDone, RecordBlocking, Commit,
     AnswerPublished, Raise, FailBare, Fail, Drop, ClearProgress, Reply
<1>4. CASE \/ SkipEvents(t) \/ ListActuals(t) \/ ListCalls(t) \/ CallsDone(t)
           \/ (\E k \in Event : Verify(t, k)) \/ (\E k \in Key : Stage(t, k))
  <2>1. \E T : job' = [job EXCEPT ![t].todo = T]
    BY <1>4 DEF SkipEvents, ListActuals, ListCalls, CallsDone, Verify, Stage
  <2> QED
    BY <1>2, <2>1
<1>5. CASE Release(t)
  BY <1>5 DEF Release, Typed
<1>6. ASSUME NEW k \in Key, LookAt(t, k) PROVE Learns(t)
  <2>1. PICK T : job' = [job EXCEPT ![t].inv[k] = FileOf(t, k), ![t].todo = T]
    BY <1>6 DEF LookAt
  <2>2. /\ job'[t].inv = [job[t].inv EXCEPT ![k] = FileOf(t, k)]
        /\ job'[t].root = job[t].root /\ job'[t].found = job[t].found
        /\ job'[t].plan = job[t].plan /\ job'[t].seen = job[t].seen
    BY <2>1 DEF Typed, Job
  <2> QED
    BY <2>2 DEF Learns
<1>7. CASE FindUnchanged(t) \/ FindChanged(t)
  <2>1. /\ job'[t].inv = NoJob.inv
        /\ job'[t].root = job[t].root /\ job'[t].found = job[t].found
        /\ job'[t].plan = job[t].plan /\ job'[t].seen = job[t].seen
    BY <1>7 DEF FindUnchanged, FindChanged, Typed, Job
  <2>2. \A k \in Key : NoJob.inv[k] = NoFile
    BY DEF NoJob
  <2> QED
    BY <2>1, <2>2 DEF Learns
<1>8. CASE Start(t)
  <2>1. \E g : job' = [job EXCEPT ![t].gen = g]
    BY <1>8 DEF Start
  <2>2. /\ job'[t].inv = job[t].inv
        /\ job'[t].root = job[t].root /\ job'[t].found = job[t].found
        /\ job'[t].plan = job[t].plan /\ job'[t].seen = job[t].seen
    BY <2>1 DEF Typed, Job
  <2> QED
    BY <2>2 DEF Learns
<1>9. CASE DiscoverRoster(t) \/ DiscoverSchedule(t)
  <2>1. PICK k \in {Roster, Schedule}, p \in Plan : Reads(t, k, p)
    BY <1>9, ReadPlans
  <2> QED
    BY <2>1 DEF Learns, Reads, Plans
<1>10. ASSUME NEW k \in Event, Reuse(t, k) PROVE Learns(t)
  <2>1. PICK p \in Plan, g \in Gen : Reuses(t, k, g, p)
    BY <1>10, ReusePlans
  <2>2. VersionOf(p) = Taken(t, k)
    BY <2>1 DEF Reuses, VersionOf, Taken
  <2> QED
    BY <2>1, <2>2 DEF Learns, Reuses, Plans
<1>11. ASSUME NEW k \in Event, Fingerprint(t, k) PROVE Learns(t)
  <2>1. PICK T : job' = [job EXCEPT ![t].todo = T, ![t].seen[k] = Taken(t, k)]
    BY <1>11 DEF Fingerprint, Taken
  <2>2. /\ job'[t].inv = job[t].inv /\ job'[t].root = job[t].root
        /\ job'[t].found = job[t].found /\ job'[t].plan = job[t].plan
        /\ job'[t].seen = [job[t].seen EXCEPT ![k] = Taken(t, k)]
    BY <2>1 DEF Typed, Job
  <2> QED
    BY <2>2 DEF Learns
<1>12. ASSUME NEW k \in Event, Parse(t, k) PROVE Learns(t)
  <2>1. PICK p \in Plan : Parses(t, k, p)
    BY <1>12, ParsePlans
  <2> QED
    BY <2>1 DEF Learns, Parses, Plans
<1>13. CASE BeginActivation(t)
  <2>1. /\ job'[t].found = disk[job[t].root]
        /\ job'[t].root = job[t].root /\ job'[t].inv = job[t].inv
        /\ job'[t].plan = job[t].plan /\ job'[t].seen = job[t].seen
    BY <1>13 DEF BeginActivation, Typed, Job
  <2> QED
    BY <2>1 DEF Learns, FileOf
<1> QED
  BY <1>3, <1>4, <1>5, <1>6, <1>7, <1>8, <1>9, <1>10, <1>11, <1>12, <1>13 DEF Step

(* The same histories remember what a step of a refresh adds: a row that is staged
   is a plan, and a generation that begins has no rows. *)
LEMMA StatsMove ==
  ASSUME Typed, Typed', Shown, RootsInv, StatsTell,
         NEW t \in Thread, Enter(t) \/ Busy(t) \/ Step(t)
  PROVE  StatsTell'
<1>1. UNCHANGED <<disk, ticks>>
  BY WorldKept DEF world
<1> SUFFICES ASSUME NEW r \in Root, NEW k \in Key
             PROVE  \E h \in History : Remembered(h, r, k)'
  BY DEF StatsTell, History
<1>2. PICK h \in History : Remembered(h, r, k)
  BY DEF StatsTell
<1>3. h[NoStat] = NoContent /\ Dated(ticks, h, disk'[r][k]) /\ Dated(ticks, h, NoFile)
  BY <1>1, <1>2 DEF Remembered, Dated, NoFile, NoStat, Typed, TablesOK
<1>4. ASSUME NEW u \in Thread, job'[u].root = r PROVE Remembers(ticks, h, job'[u], k)
  <2>1. CASE u # t
    BY <1>2, <1>4, <2>1, OneMoves DEF Remembered
  <2>2. CASE u = t /\ Learns(t)
    <3>1. job[t].root = r
      BY <1>4, <2>2 DEF Learns
    <3> QED
      BY <1>1, <1>2, <2>2, <3>1, LearnsDated
  <2>3. CASE u = t /\ ResolveRoot(t)
    <3>1. job[t] = NoJob
      BY <2>3, LocalsAt DEF ResolveRoot, Go, Locates
    <3>2. /\ job'[t].inv = job[t].inv /\ job'[t].found = job[t].found
          /\ job'[t].plan = job[t].plan /\ job'[t].seen = job[t].seen
      BY <2>3 DEF ResolveRoot, Typed, Job
    <3> QED
      BY <1>3, <2>3, <3>1, <3>2 DEF Remembers, NoJob, NoPlan, NoFile, Dated
  <2>4. CASE u = t /\ job'[t] = NoJob
    BY <1>4, <2>4, CoordinatorAssumption DEF NoJob
  <2> QED
    BY <2>1, <2>2, <2>3, <2>4, LearnsSteps
<1>5. ASSUME NEW g \in Gen, catalog'[g] = r, manifest'[g][k].state = "present"
      PROVE  Dated(ticks, h, manifest'[g][k])
  <2>1. CASE UNCHANGED <<manifest, catalog>>
    BY <1>2, <1>5, <2>1 DEF Remembered
  <2>2. CASE Start(t)
    <3>1. PICK i \in Gen : /\ Store!StartGeneration(i)
                           /\ catalog' = [catalog EXCEPT ![i] = job[t].root]
      BY <2>2 DEF Start
    <3>2. status[i] = "unused" /\ manifest' = manifest
      BY <3>1 DEF Store!StartGeneration, Store!IsNextId, Gen, Store!Gen
    <3>3. g # i
      BY <1>5, <3>2 DEF RootsInv, UnusedEmpty, Store!NoRow
    <3> QED
      BY <1>2, <1>5, <3>1, <3>2, <3>3 DEF Remembered, Typed, TablesOK
  <2>3. ASSUME NEW i \in Key, Stage(t, i) PROVE Dated(ticks, h, manifest'[g][k])
    <3> DEFINE p == job[t].plan[i]
               row == Store!PresentRow(VersionOf(p), p.owner)
    <3>1. /\ job[t].gen \in Gen /\ job[t].gen # Null /\ catalog' = catalog
          /\ manifest' = [manifest EXCEPT ![job[t].gen][i] = row]
      BY <2>3, StageWrites DEF Gen, Store!Gen, Null, Store!Null
    <3>2. row.stat = p.stat /\ row.content = p.content
      BY PresentRowIs DEF VersionOf
    <3> HIDE DEF row
    <3>3. manifest'[g][k] =
            IF g = job[t].gen /\ k = i THEN row ELSE manifest[g][k]
      BY <3>1 DEF Typed, TablesOK, Store!TypeOK, Gen
    <3>4. CASE g = job[t].gen /\ k = i
      <4>1. job[t].root = r
        BY <1>5, <3>1, <3>4 DEF RootsInv, PlansOfOneRoot
      <4>2. Dated(ticks, h, p)
        BY <1>2, <3>4, <4>1 DEF Remembered, Remembers
      <4> QED
        BY <3>2, <3>3, <3>4, <4>2 DEF Dated
    <3>5. CASE ~(g = job[t].gen /\ k = i)
      BY <1>2, <1>5, <3>1, <3>3, <3>5 DEF Remembered
    <3> QED
      BY <3>4, <3>5
  <2> QED
    BY <2>1, <2>2, <2>3, QuietSteps DEF Quiet, DiscoverRoster, DiscoverSchedule, Reuse,
       Parse, Locally, store, evidence, Commit, Fail, Store!ActivateGeneration,
       Store!FailGeneration
<1> QED
  BY <1>1, <1>2, <1>3, <1>4, <1>5 DEF Remembered, Remembers, Dated

(* A file that is written extends its history at a size and time nobody holds. *)
LEMMA StatsSurroundings ==
  ASSUME QuietRewrites = FALSE, Typed, StatsTell, Surroundings \/ UNCHANGED vars
  PROVE  StatsTell'
<1>1. UNCHANGED <<manifest, catalog>>
  BY DEF Surroundings, DeleteFile, WriteFile, SetPointer, Undo, Crash, vars, store,
     evidence,
         Store!RestorePreviousGeneration
<1>2. ticks \in Nat /\ ticks' \in Nat /\ ticks <= ticks'
  BY DEF Surroundings, DeleteFile, WriteFile, SetPointer, Undo, Crash, vars, world,
     Tick,
         Typed, TablesOK
<1>3. UNCHANGED job \/ job' = [t \in Thread |-> NoJob]
  BY DEF Surroundings, DeleteFile, WriteFile, SetPointer, Undo, Crash, unmoved, vars
<1> SUFFICES ASSUME NEW r \in Root, NEW k \in Key
             PROVE  \E h \in History : Remembered(h, r, k)'
  BY DEF StatsTell, History
<1>4. PICK h \in History : Remembered(h, r, k)
  BY DEF StatsTell
<1>5. /\ disk[r][k].stat \in 0..MaxTicks + 1
      /\ \A g \in Gen : manifest[g][k].state = "present" =>
           manifest[g][k].stat \in 0..MaxTicks + 1
      /\ \A t \in Thread : /\ job[t].inv[k].stat \in 0..MaxTicks + 1
                           /\ job[t].plan[k].stat \in 0..MaxTicks + 1
                           /\ job[t].found[k].stat \in 0..MaxTicks + 1
                           /\ k \in Event => job[t].seen[k].stat \in 0..MaxTicks + 1
  <2>1. \A f \in File \cup {NoFile} : f.stat \in 0..MaxTicks + 1
    BY CoordinatorAssumption DEF File, NoFile, Stat, NoStat
  <2>2. \A p \in Plan \cup {NoPlan} : p.stat \in 0..MaxTicks + 1
    BY CoordinatorAssumption DEF Plan, NoPlan, Stat, NoStat
  <2>3. \A g \in Gen : manifest[g][k].state = "present" =>
           manifest[g][k].stat \in 0..MaxTicks + 1
    BY PresentType, CoordinatorAssumption DEF Stat
  <2>4. disk[r][k] \in File \cup {NoFile}
    BY DEF Typed, TablesOK
  <2>5. ASSUME NEW t \in Thread
        PROVE  /\ job[t].inv[k] \in File \cup {NoFile}
               /\ job[t].plan[k] \in Plan \cup {NoPlan}
               /\ job[t].found[k] \in File \cup {NoFile}
               /\ k \in Event => job[t].seen[k] \in File \cup {NoFile}
    BY LocalsAt
  <2> QED
    BY <2>1, <2>2, <2>3, <2>4, <2>5
<1>6. ASSUME NEW i \in History,
             \A s \in 0..MaxTicks + 1 : s <= ticks + 1 => i[s] = h[s],
             Dated(ticks', i, disk'[r][k])
      PROVE  Remembered(i, r, k)'
  <2>1. \A v : v.stat \in 0..MaxTicks + 1 /\ Dated(ticks, h, v) => Dated(ticks', i, v)
    BY <1>2, <1>6 DEF Dated
  <2>2. i[NoStat] = NoContent
    BY <1>2, <1>4, <1>6, CoordinatorAssumption DEF Remembered, NoStat
  <2>3. \A g \in Gen : catalog'[g] = r /\ manifest'[g][k].state = "present" =>
          Dated(ticks', i, manifest'[g][k])
    BY <1>1, <1>4, <1>5, <2>1 DEF Remembered
  <2>4. ASSUME NEW t \in Thread, job'[t].root = r PROVE Remembers(ticks', i, job'[t], k)
    <3>1. job'[t] = job[t]
      BY <1>3, <2>4, CoordinatorAssumption DEF NoJob
    <3>2. Remembers(ticks, h, job[t], k)
      BY <1>4, <2>4, <3>1 DEF Remembered
    <3> QED
      BY <1>5, <2>1, <3>1, <3>2 DEF Remembers
  <2> QED
    BY <1>6, <2>2, <2>3, <2>4 DEF Remembered
<1>7. CASE disk'[r][k] = disk[r][k]
  <2>1. Dated(ticks', h, disk'[r][k])
    BY <1>2, <1>4, <1>5, <1>7 DEF Remembered, Dated
  <2> QED
    BY <1>6, <2>1
<1>8. CASE disk'[r][k] = NoFile
  <2>1. Dated(ticks', h, disk'[r][k])
    <3>1. h[NoStat] = NoContent
      BY <1>4 DEF Remembered
    <3>2. NoStat <= ticks' + 1
      <4>1. \A n \in Nat : NoStat <= n + 1
        BY DEF NoStat
      <4> QED
        BY <1>2, <4>1
    <3> QED
      BY <1>8, <3>1, <3>2 DEF Dated, NoFile
  <2> QED
    BY <1>6, <2>1
<1>9. CASE \E c \in Content : disk'[r][k] = [content |-> c, stat |-> ticks + 2]
                                /\ ticks < MaxTicks /\ ticks' = ticks + 1
  <2>1. PICK c \in Content : disk'[r][k] = [content |-> c, stat |-> ticks + 2]
    BY <1>9
  <2> DEFINE i == [h EXCEPT ![ticks + 2] = c]
  <2>2. ticks + 2 \in 0..MaxTicks + 1
    BY <1>2, <1>9, CoordinatorAssumption
  <2>3. i \in History /\ i[ticks + 2] = c
    BY <2>2 DEF History
  <2>4. \A s \in 0..MaxTicks + 1 : s <= ticks + 1 => i[s] = h[s]
    BY <1>2 DEF History
  <2> HIDE DEF i
  <2>5. Dated(ticks', i, disk'[r][k])
    BY <1>2, <1>9, <2>1, <2>3 DEF Dated
  <2> QED
    BY <1>6, <2>3, <2>4, <2>5
<1>10. disk'[r][k] \in {disk[r][k], NoFile}
       \/ \E c \in Content : disk'[r][k] = [content |-> c, stat |-> ticks + 2]
                              /\ ticks < MaxTicks /\ ticks' = ticks + 1
  <2>1. ASSUME NEW q \in Root, NEW l \in Key, DeleteFile(q, l)
        PROVE  disk'[r][k] \in {disk[r][k], NoFile}
    BY <2>1 DEF DeleteFile, Typed, TablesOK
  <2>2. ASSUME NEW q \in Root, NEW l \in Key, NEW c \in Content, WriteFile(q, l, c)
        PROVE  /\ ticks < MaxTicks /\ ticks' = ticks + 1
               /\ disk'[r][k] \in {disk[r][k], [content |-> c, stat |-> ticks + 2]}
    BY <2>2 DEF WriteFile, Tick, Typed, TablesOK
  <2>3. CASE (\E q \in Root : SetPointer(q)) \/ Undo \/ Crash \/ UNCHANGED vars
    BY <2>3 DEF SetPointer, Undo, Crash, vars, world
  <2> QED
    BY <2>1, <2>2, <2>3 DEF Surroundings
<1> QED
  BY <1>7, <1>8, <1>9, <1>10

(* At first a file has one content under its one size and time. *)
LEMMA StatsInit == Init => StatsTell
<1> SUFFICES ASSUME Init, NEW r \in Root, NEW k \in Key
             PROVE  \E h \in History : Remembered(h, r, k)
  BY DEF StatsTell
<1>1. /\ disk[r][k] \in {NoFile} \cup [content : Content, stat : {1}] /\ ticks = 0
      /\ manifest[1] = manifest[1] /\ \A g \in Gen : manifest[g][k] = Store!NoRow
      /\ \A t \in Thread : job[t] = NoJob
  BY DEF Init, Store!Init, Gen
<1> DEFINE h == [s \in 0..MaxTicks + 1 |-> IF s = 0 THEN NoContent ELSE disk[r][k].content]
<1>2. h \in History /\ h[0] = NoContent /\ h[1] = disk[r][k].content
  BY <1>1, CoordinatorAssumption DEF History, NoFile
<1> HIDE DEF h
<1>3. Dated(ticks, h, disk[r][k]) /\ Dated(ticks, h, NoFile) /\ Dated(ticks, h, NoPlan)
  BY <1>1, <1>2 DEF Dated, NoFile, NoPlan, NoStat
<1>4. Remembers(ticks, h, NoJob, k)
  BY <1>3 DEF Remembers, NoJob
<1>5. Remembered(h, r, k)
  BY <1>1, <1>2, <1>3, <1>4 DEF Remembered, Store!NoRow, NoStat
<1> QED
  BY <1>2, <1>5

(* A size and time tells the content, as long as no rewrite keeps them. *)
LEMMA SpecStats == ASSUME QuietRewrites = FALSE PROVE Spec => []StatsTell
<1>1. Typed /\ Typed' /\ Shown /\ RootsInv /\ StatsTell /\ [Next]_vars => StatsTell'
  <2> SUFFICES ASSUME Typed, Typed', Shown, RootsInv, StatsTell, [Next]_vars
               PROVE  StatsTell'
    OBVIOUS
  <2>1. ASSUME NEW t \in Thread, Enter(t) \/ Busy(t) \/ Step(t) PROVE StatsTell'
    BY <2>1, StatsMove
  <2> QED
    BY <2>1, StatsSurroundings DEF Next
<1> QED
  BY <1>1, StatsInit, SpecTyped, SpecShown, SpecRoots, PTL DEF Spec

(* UnchangedTruthful: the fast path compares sizes and times of the inventory with
   those of the current cut, and is right about the bytes. *)
THEOREM UnchangedIsTruthful == ASSUME QuietRewrites = FALSE PROVE Spec => UnchangedTruthful
<1>1. ASSUME Typed, StatsTell, [Next]_vars, NEW t \in Thread,
             pc[t] = "inventory", pc'[t] = "unchanged", NEW k \in Key
      PROVE  job[t].inv[k].content = manifest[active][k].content
  <2>1. FindUnchanged(t)
    <3>1. ASSUME NEW u \in Thread, u # t, Enter(u) \/ Busy(u) \/ Step(u) PROVE FALSE
      BY <1>1, <3>1, OneMoves
    <3>2. CASE Step(t)
      <4>1. ASSUME NEW i \in Key, LookAt(t, i) \/ Stage(t, i) PROVE FALSE
        BY <1>1, <4>1 DEF LookAt, Stage, Go, Typed
      <4>2. ASSUME NEW i \in Event,
                   Reuse(t, i) \/ Fingerprint(t, i) \/ Parse(t, i) \/ Verify(t, i)
            PROVE  FALSE
        BY <1>1, <4>2 DEF Reuse, Fingerprint, Parse, Verify, LoopOf, Go, Typed
      <4>3. CASE Raise(t)
        BY <1>1, <4>3 DEF Raise, Typed
      <4> QED
        BY <1>1, <3>2, <4>1, <4>2, <4>3 DEF Step, ResolveRoot, FindChanged,
           AnswerUnchanged,
           Start, DiscoverRoster, DiscoverSchedule, SkipEvents, ListActuals,
           ActualsDone,
           ListCalls, CallsDone, RecordBlocking, BeginActivation, Commit,
           AnswerPublished,
           FailBare, Fail, Drop, ClearProgress, Release, Reply, Go, Typed
    <3>3. CASE Enter(t) \/ Busy(t)
      BY <1>1, <3>3 DEF Enter, Busy, Go
    <3>4. CASE Surroundings \/ UNCHANGED vars
      BY <1>1, <3>4 DEF Surroundings, DeleteFile, WriteFile, SetPointer, Undo, Crash,
                        unmoved, vars
    <3> QED
      BY <1>1, <3>1, <3>2, <3>3, <3>4 DEF Next
  <2>2. job[t].root \in Root
    BY <1>1, LocalsAt DEF Locates
  <2>3. /\ active \in Gen /\ catalog[active] = job[t].root
        /\ manifest[active][k] # Store!NoRow <=> job[t].inv[k] # NoFile
        /\ manifest[active][k] # Store!NoRow =>
             /\ manifest[active][k].state = "present"
             /\ manifest[active][k].stat = job[t].inv[k].stat
    BY <1>1, <2>1 DEF FindUnchanged, MatchesActiveCut, Typed, TablesOK, Store!TypeOK,
       Gen, Null
  <2>4. CASE manifest[active][k] = Store!NoRow
    BY <2>3, <2>4 DEF Store!NoRow, NoFile
  <2>5. CASE manifest[active][k] # Store!NoRow
    <3>1. PICK h \in History : Remembered(h, job[t].root, k)
      BY <1>1, <2>2 DEF StatsTell
    <3>2. Dated(ticks, h, manifest[active][k]) /\ Dated(ticks, h, job[t].inv[k])
      BY <2>3, <2>5, <3>1 DEF Remembered, Remembers
    <3> QED
      BY <2>3, <2>5, <3>2 DEF Dated
  <2> QED
    BY <2>4, <2>5
<1>2. Typed /\ StatsTell /\ [Next]_vars =>
        [\A t \in Thread : pc[t] = "inventory" /\ pc'[t] = "unchanged" =>
           \A k \in Key : job[t].inv[k].content = manifest[active][k].content]_vars
  BY <1>1
<1> QED
  BY <1>2, SpecTyped, SpecStats, PTL DEF Spec, UnchangedTruthful

--------------------------------------------------------------------------------
(* The rows of an event file that a refresh plans for were parsed from the bytes of
   the plan, scoped by the roster it read. *)
PlansFaithful(t) ==
  LET j == job[t]
  IN  j.gen # Null => \A k \in Event : j.plan[k] # NoPlan =>
        /\ pc[t] # "roster"
        /\ bronze[j.plan[k].owner][k] =
             [content |-> j.plan[k].content, roster |-> j.plan[Roster].content]

RowsInv ==
  /\ BronzeFaithful
  /\ \A t \in Thread : PlansFaithful(t)

(* Steps that write no evidence keep plans and rows faithful. *)
LEMMA RowsQuiet ==
  ASSUME RowsInv, NEW t \in Thread, Quiet(t)
  PROVE  RowsInv'
<1>1. BronzeFaithful'
  BY DEF RowsInv, BronzeFaithful, Quiet
<1>2. ASSUME NEW u \in Thread PROVE PlansFaithful(u)'
  <2>1. CASE job'[u].gen = Null
    BY <2>1 DEF PlansFaithful
  <2>2. CASE job'[u].gen # Null
    <3>1. /\ job'[u].gen = job[u].gen /\ job'[u].plan = job[u].plan
          /\ pc'[u] = "roster" => pc[u] = "roster"
          /\ bronze' = bronze
      BY <2>2 DEF Quiet
    <3> QED
      BY <2>2, <3>1 DEF RowsInv, PlansFaithful
  <2> QED
    BY <2>1, <2>2
<1> QED
  BY <1>1, <1>2 DEF RowsInv

(* A generation begins without plans. *)
LEMMA RowsStart ==
  ASSUME Typed, Shown, RowsInv, NEW t \in Thread, Start(t)
  PROVE  RowsInv'
<1>1. UNCHANGED <<manifest, bronze>>
  BY DEF Start, Store!StartGeneration
<1>2. BronzeFaithful'
  BY <1>1 DEF RowsInv, BronzeFaithful
<1>3. job'[t].plan = NoJob.plan
  <2>1. pc[t] = "start" /\ \E g : job' = [job EXCEPT ![t].gen = g]
    BY DEF Start, Go
  <2> QED
    BY <2>1, GenNull DEF Typed, Job
<1>4. PlansFaithful(t)'
  BY <1>3, CoordinatorAssumption DEF PlansFaithful, NoJob, Key
<1>5. ASSUME NEW u \in Thread \ {t} PROVE PlansFaithful(u)'
  BY <1>1, OneMoves DEF RowsInv, PlansFaithful, Step
<1> QED
  BY <1>2, <1>4, <1>5 DEF RowsInv

(* The roster and the schedule are read before any event file is planned, and the
   schedule scopes nothing. *)
LEMMA RowsRead ==
  ASSUME Typed, Shown, RowsInv, NEW t \in Thread, DiscoverRoster(t) \/ DiscoverSchedule(t)
  PROVE  RowsInv'
<1>1. UNCHANGED <<manifest, bronze>>
  BY DEF DiscoverRoster, DiscoverSchedule, Locally, store, evidence
<1>2. BronzeFaithful'
  BY <1>1 DEF RowsInv, BronzeFaithful
<1>3. PICK k \in {Roster, Schedule}, p \in Plan : Reads(t, k, p)
  BY ReadPlans
<1>4. ASSUME NEW u \in Thread \ {t} PROVE PlansFaithful(u)'
  BY <1>1, OneMoves DEF RowsInv, PlansFaithful, Step
<1>5. PlansFaithful(t)'
  <2>1. /\ job'[t].gen = job[t].gen /\ job[t].gen # Null /\ pc'[t] # "roster"
        /\ \A i \in Key : job'[t].plan[i] = IF i = k THEN p ELSE job[t].plan[i]
    <3>1. pc[t] \in {"roster", "schedule"} /\ pc'[t] \in {"schedule", "list_actuals"}
      BY DEF DiscoverRoster, DiscoverSchedule, Go, Typed
    <3> QED
      BY <1>3, <3>1, LocalsAt DEF Reads, Plans, Locates, Begun, Gen, Null, Store!Gen,
         Store!Null
  <2>2. \A i \in Event : i # k /\ i \in Key /\ Roster \in Key
    BY CoordinatorAssumption DEF Key
  <2>3. PlansFaithful(t)
    BY DEF RowsInv
  <2>4. CASE k = Roster
    <3>1. pc[t] = "roster"
      BY <1>3, <2>4, CoordinatorAssumption DEF Reads
    <3> QED
      BY <2>1, <2>2, <2>3, <3>1 DEF PlansFaithful
  <2>5. CASE k # Roster
    BY <1>1, <2>1, <2>2, <2>3, <2>5 DEF PlansFaithful
  <2> QED
    BY <2>4, <2>5
<1> QED
  BY <1>2, <1>4, <1>5 DEF RowsInv

(* The rows that are reused were parsed from the bytes, and under the roster, of
   the generation whose manifest they were found in. *)
LEMMA RowsReuse ==
  ASSUME Typed, Shown, RowsInv, NEW t \in Thread, NEW k \in Event, Reuse(t, k)
  PROVE  RowsInv'
<1>1. UNCHANGED <<manifest, bronze>>
  BY DEF Reuse, Locally, store, evidence
<1>2. BronzeFaithful'
  BY <1>1 DEF RowsInv, BronzeFaithful
<1>3. PICK p \in Plan, g \in Gen : Reuses(t, k, g, p)
  BY ReusePlans
<1>4. ASSUME NEW u \in Thread \ {t} PROVE PlansFaithful(u)'
  BY <1>1, OneMoves DEF RowsInv, PlansFaithful, Step
<1>5. bronze[p.owner][k] = [content |-> p.content, roster |-> job[t].plan[Roster].content]
  <2>1. /\ manifest[g][k].state = "present" /\ manifest[g][Roster].state = "present"
        /\ manifest[g][Roster].content = job[t].plan[Roster].content
    BY <1>3 DEF Reuses, Candidates
  <2>2. p.owner = manifest[g][k].bronze /\ p.content = manifest[g][k].content
    BY <1>3 DEF Reuses
  <2> QED
    BY <2>1, <2>2 DEF RowsInv, BronzeFaithful
<1>6. PlansFaithful(t)'
  <2>1. /\ job'[t].gen = job[t].gen /\ pc'[t] # "roster" /\ pc[t] # "roster"
        /\ \A i \in Key : job'[t].plan[i] = IF i = k THEN p ELSE job[t].plan[i]
    <3>1. pc[t] \in {"actuals", "calls"} /\ pc'[t] = pc[t]
      BY <1>3 DEF Reuses, Reuse, Go, Typed
    <3> QED
      BY <1>3, <3>1, LocalsAt DEF Reuses, Plans
  <2>2. \A i \in Event : i # Roster /\ i \in Key /\ Roster \in Key
    BY CoordinatorAssumption DEF Key
  <2>3. PlansFaithful(t)
    BY DEF RowsInv
  <2> QED
    BY <1>1, <1>5, <2>1, <2>2, <2>3 DEF PlansFaithful
<1> QED
  BY <1>2, <1>4, <1>6 DEF RowsInv

(* What is parsed has the size and time, and so the bytes, of the fingerprint; and
   no manifest names the rows yet that are written. *)
LEMMA RowsParse ==
  ASSUME Typed, Shown, RootsInv, Store!BronzeOneHop, StatsTell, RowsInv,
         NEW t \in Thread, NEW k \in Event, Parse(t, k)
  PROVE  RowsInv'
<1> DEFINE g == job[t].gen
           rows == [content |-> FileOf(t, k).content, roster |-> job[t].plan[Roster].content]
<1>1. PICK p \in Plan : Parses(t, k, p)
  BY ParsePlans
<1>2. /\ pc[t] = "parse" /\ pc'[t] # "roster" /\ k \in Key
      /\ g \in Gen /\ g # Null /\ job[t].root \in Root /\ manifest' = manifest
      /\ bronze' = [bronze EXCEPT ![g][k] = rows] /\ p.owner = g
  <2>1. pc[t] = "parse" /\ pc'[t] = LoopOf(k)
    BY <1>1 DEF Parse, Go, Typed
  <2>2. g \in Gen /\ job[t].root \in Root
    BY <2>1, LocalsAt DEF Locates, Begun
  <2> QED
    BY <1>1, <2>1, <2>2 DEF LoopOf, Key, Gen, Null, Store!Gen, Store!Null, Parse,
       store, Parses
<1>3. \A h \in Gen, i \in Event :
        bronze'[h][i] = IF h = g /\ i = k THEN rows ELSE bronze[h][i]
  BY <1>2 DEF Typed, TablesOK
<1>4. \A i \in Key : manifest[g][i] = Store!NoRow
  <2>1. "parse" \notin Staging
    BY DEF Staging
  <2> QED
    BY <1>2, <2>1 DEF RootsInv, StagedAsPlanned
<1>5. rows.content = p.content
  <2>1. PICK h \in History : Remembered(h, job[t].root, k)
    BY <1>2 DEF StatsTell
  <2>2. Dated(ticks, h, FileOf(t, k)) /\ Dated(ticks, h, job[t].seen[k])
    BY <2>1 DEF Remembered, Remembers, FileOf
  <2>3. p.content = job[t].seen[k].content /\ FileOf(t, k).stat = job[t].seen[k].stat
    BY <1>1 DEF Parses, VersionOf
  <2> QED
    BY <2>2, <2>3 DEF Dated
<1> HIDE DEF rows
<1>6. BronzeFaithful'
  <2> SUFFICES ASSUME NEW h \in Gen, NEW i \in Event, manifest[h][i].state = "present",
                      manifest[h][Roster].state = "present"
               PROVE  bronze'[manifest[h][i].bronze][i] =
                        [content |-> manifest[h][i].content,
                         roster |-> manifest[h][Roster].content]
    BY <1>2 DEF BronzeFaithful
  <2>1. i \in Key
    BY DEF Key
  <2>2. manifest[h][i].bronze \in Gen
    BY <2>1, PresentType
  <2>3. h # g
    BY <1>4, <2>1 DEF Store!NoRow
  <2>4. manifest[h][i].bronze # g
    BY <1>4, <2>1, <2>3 DEF Store!BronzeOneHop, Store!NoRow, Gen
  <2> QED
    BY <1>3, <2>2, <2>4 DEF RowsInv, BronzeFaithful
<1>7. ASSUME NEW u \in Thread \ {t} PROVE PlansFaithful(u)'
  <2>1. job'[u].gen = Null
    BY <1>2, Alone, OneMoves DEF Outside, Step
  <2> QED
    BY <2>1 DEF PlansFaithful
<1>8. PlansFaithful(t)'
  <2>1. /\ job'[t].gen = g
        /\ \A i \in Key : job'[t].plan[i] = IF i = k THEN p ELSE job[t].plan[i]
    BY <1>1, LocalsAt DEF Parses, Plans
  <2>2. \A i \in Event : i # Roster /\ i \in Key /\ Roster \in Key
    BY CoordinatorAssumption DEF Key
  <2>3. rows = [content |-> p.content, roster |-> job[t].plan[Roster].content]
    BY <1>5 DEF rows
  <2>4. job'[t].plan[Roster] = job[t].plan[Roster]
    BY <2>1, <2>2
  <2>5. ASSUME NEW i \in Event, job'[t].plan[i] # NoPlan
        PROVE  bronze'[job'[t].plan[i].owner][i] =
                 [content |-> job'[t].plan[i].content, roster |-> job'[t].plan[Roster].content]
    <3>1. CASE i = k
      BY <1>2, <1>3, <2>1, <2>2, <2>3, <2>4, <3>1
    <3>2. CASE i # k
      <4>1. job'[t].plan[i] = job[t].plan[i]
        BY <2>1, <2>2, <3>2
      <4>2. job[t].plan[i].owner \in Gen
        BY <2>2, <2>5, <4>1, LocalsAt DEF Plan
      <4>3. PlansFaithful(t)
        BY DEF RowsInv
      <4> QED
        BY <1>2, <1>3, <2>4, <2>5, <3>2, <4>1, <4>2, <4>3 DEF PlansFaithful
    <3> QED
      BY <3>1, <3>2
  <2> QED
    BY <1>2, <2>1, <2>5 DEF PlansFaithful
<1> QED
  BY <1>6, <1>7, <1>8 DEF RowsInv

(* What is staged is what was planned: bytes and roster of one refresh. *)
LEMMA RowsStage ==
  ASSUME Typed, Shown, RootsInv', RowsInv, NEW t \in Thread, NEW k \in Key, Stage(t, k)
  PROVE  RowsInv'
<1> DEFINE g == job[t].gen
<1>1. /\ g \in Gen /\ g # Null /\ pc'[t] # "roster" /\ bronze' = bronze
      /\ job'[t].gen = g /\ job'[t].plan = job[t].plan
  <2>1. g \in Gen /\ pc'[t] = "stage" /\ bronze' = bronze
    BY StageWrites
  <2>2. job'[t].gen = g /\ job'[t].plan = job[t].plan
    BY StageWrites
  <2> QED
    BY <2>1, <2>2 DEF Gen, Store!Gen, Null, Store!Null
<1>2. \A h \in Gen \ {g} : manifest'[h] = manifest[h]
  <2>1. manifest' = [manifest EXCEPT ![g][k] =
           Store!PresentRow(VersionOf(job[t].plan[k]), job[t].plan[k].owner)]
    BY StageWrites
  <2> QED
    BY <2>1 DEF Typed, TablesOK, Store!TypeOK, Gen
<1>3. ASSUME NEW u \in Thread \ {t} PROVE PlansFaithful(u)'
  BY <1>1, OneMoves DEF RowsInv, PlansFaithful, Step
<1>4. PlansFaithful(t)'
  BY <1>1, StageWrites DEF RowsInv, PlansFaithful
<1>5. BronzeFaithful'
  <2> SUFFICES ASSUME NEW h \in Gen, NEW i \in Event, manifest'[h][i].state = "present",
                      manifest'[h][Roster].state = "present"
               PROVE  bronze'[manifest'[h][i].bronze][i] =
                        [content |-> manifest'[h][i].content,
                         roster |-> manifest'[h][Roster].content]
    BY DEF BronzeFaithful
  <2>1. CASE h # g
    BY <1>1, <1>2, <2>1 DEF RowsInv, BronzeFaithful
  <2>2. CASE h = g
    <3>1. ASSUME NEW l \in Key, manifest'[g][l].state = "present"
          PROVE  /\ job[t].plan[l] # NoPlan
                 /\ manifest'[g][l].content = job[t].plan[l].content
                 /\ manifest'[g][l].bronze = job[t].plan[l].owner
      <4>1. /\ job[t].plan[l] # NoPlan
            /\ manifest'[g][l] =
                 Store!PresentRow(VersionOf(job[t].plan[l]), job[t].plan[l].owner)
        BY <1>1, <3>1 DEF RootsInv, StagedAsPlanned, Store!NoRow
      <4> QED
        BY <4>1, PresentRowIs DEF VersionOf
    <3>2. i \in Key /\ Roster \in Key
      BY DEF Key
    <3>3. PlansFaithful(t)
      BY DEF RowsInv
    <3> QED
      BY <1>1, <2>2, <3>1, <3>2, <3>3 DEF PlansFaithful
  <2> QED
    BY <2>1, <2>2
<1> QED
  BY <1>3, <1>4, <1>5 DEF RowsInv

(* A generation that ends keeps its rows. *)
LEMMA RowsEnd ==
  ASSUME Typed, RowsInv, NEW t \in Thread, Commit(t) \/ Fail(t)
  PROVE  RowsInv'
<1>1. UNCHANGED <<manifest, bronze, job>> /\ pc'[t] # "roster"
  BY DEF Commit, Fail, Store!ActivateGeneration, Store!FailGeneration, evidence, Go,
     Typed
<1>2. BronzeFaithful'
  BY <1>1 DEF RowsInv, BronzeFaithful
<1>3. ASSUME NEW u \in Thread PROVE PlansFaithful(u)'
  <2>1. u # t => pc'[u] = pc[u]
    BY OneMoves DEF Step
  <2> QED
    BY <1>1, <2>1 DEF RowsInv, PlansFaithful
<1> QED
  BY <1>2, <1>3 DEF RowsInv

(* The surroundings write no rows; a crash forgets the plans. *)
LEMMA RowsSurroundings ==
  ASSUME RowsInv, Surroundings \/ UNCHANGED vars
  PROVE  RowsInv'
<1>1. UNCHANGED <<manifest, bronze>>
  BY DEF Surroundings, DeleteFile, WriteFile, SetPointer, Undo, Crash, vars, store,
     evidence,
         Store!RestorePreviousGeneration
<1>2. BronzeFaithful'
  BY <1>1 DEF RowsInv, BronzeFaithful
<1>3. ASSUME NEW t \in Thread PROVE PlansFaithful(t)'
  <2>1. CASE Crash
    BY <2>1 DEF Crash, NoJob, PlansFaithful
  <2>2. CASE ~Crash
    <3>1. UNCHANGED <<pc, job>>
      BY <2>2 DEF Surroundings, DeleteFile, WriteFile, SetPointer, Undo, unmoved, vars
    <3> QED
      BY <1>1, <3>1 DEF RowsInv, PlansFaithful
  <2> QED
    BY <2>1, <2>2
<1> QED
  BY <1>2, <1>3 DEF RowsInv

(* Nothing is planned and no row is there at first. *)
LEMMA RowsInit == Init => RowsInv
<1> SUFFICES ASSUME Init PROVE RowsInv
  OBVIOUS
<1>1. \A t \in Thread : job[t].gen = Null
  BY DEF Init, NoJob
<1>2. \A g \in Gen, k \in Event : manifest[g][k] = Store!NoRow
  BY DEF Init, Store!Init, Gen, Key
<1> QED
  BY <1>1, <1>2 DEF RowsInv, BronzeFaithful, PlansFaithful, Store!NoRow

(* Plans and manifests are faithful to the raw rows throughout. *)
LEMMA SpecRows == ASSUME QuietRewrites = FALSE PROVE Spec => []RowsInv
<1>1. Typed /\ Typed' /\ Shown /\ RootsInv /\ RootsInv' /\ Store!BronzeOneHop /\ StatsTell
        /\ RowsInv /\ [Next]_vars => RowsInv'
  <2> SUFFICES ASSUME Typed, Typed', Shown, RootsInv, RootsInv', Store!BronzeOneHop,
                      StatsTell, RowsInv, [Next]_vars
               PROVE  RowsInv'
    OBVIOUS
  <2>1. ASSUME NEW t \in Thread, Enter(t) \/ Busy(t) \/ Step(t) PROVE RowsInv'
    BY <2>1, QuietSteps, RowsQuiet, RowsStart, RowsRead, RowsReuse, RowsParse,
       RowsStage,
       RowsEnd
  <2> QED
    BY <2>1, RowsSurroundings DEF Next
<1> QED
  BY <1>1, RowsInit, SpecTyped, SpecShown, SpecRoots, SpecStore, SpecStats, PTL DEF Spec

(* BronzeFaithful: the raw rows a manifest names, inserted by whichever refresh, were
   parsed from the bytes it records and scoped by the roster it records. *)
THEOREM BronzeIsFaithful == ASSUME QuietRewrites = FALSE PROVE Spec => []BronzeFaithful
<1>1. RowsInv => BronzeFaithful
  BY DEF RowsInv
<1> QED
  BY <1>1, SpecRows, PTL

--------------------------------------------------------------------------------
(* A file that was looked at again had its planned size and time when the
   activation began; one that still has them has not been written since. *)
Verified(t) ==
  LET j == job[t]
  IN  pc[t] \in {"publish", "health"} => \A k \in Event \cap Planned(t) :
        IF k \in j.todo
          THEN FileOf(t, k).stat = j.plan[k].stat => FileOf(t, k) = j.found[k]
          ELSE j.found[k].stat = j.plan[k].stat

(* A cut is committed when every file has been looked at again. *)
DoneVerifying(t) == pc[t] = "health" => job[t].todo = {}

VerifyInv == \A t \in Thread : Verified(t) /\ DoneVerifying(t)

(* The steps of an activation. *)
LEMMA ActivatingSteps ==
  ASSUME Typed, NEW t \in Thread, Enter(t) \/ Busy(t) \/ Step(t),
         pc'[t] \in {"publish", "health"}
  PROVE  BeginActivation(t) \/ (\E k \in Event : Verify(t, k)) \/ Commit(t)
<1>1. ASSUME NEW k \in Key, LookAt(t, k) \/ Stage(t, k) PROVE FALSE
  BY <1>1 DEF LookAt, Stage, Go, Typed
<1>2. ASSUME NEW k \in Event, Reuse(t, k) \/ Fingerprint(t, k) \/ Parse(t, k) PROVE FALSE
  BY <1>2 DEF Reuse, Fingerprint, Parse, LoopOf, Go, Typed
<1>3. CASE Raise(t)
  BY <1>3 DEF Raise, Typed
<1> QED
  BY <1>1, <1>2, <1>3 DEF Step, Enter, Busy, ResolveRoot, FindUnchanged, FindChanged,
     AnswerUnchanged, Start, DiscoverRoster, DiscoverSchedule, SkipEvents, ListActuals,
     ActualsDone, ListCalls, CallsDone, RecordBlocking, AnswerPublished, FailBare, Fail,
     Drop, ClearProgress, Release, Reply, Go, Typed

(* An activation begins with nothing verified, verifies file by file, and commits
   when nothing is left; nobody else writes files or its locals. *)
LEMMA VerifyMoves ==
  ASSUME Typed, VerifyInv, NEW t \in Thread, Enter(t) \/ Busy(t) \/ Step(t)
  PROVE  VerifyInv'
<1>1. disk' = disk
  BY WorldKept DEF world
<1>2. ASSUME NEW u \in Thread \ {t} PROVE Verified(u)' /\ DoneVerifying(u)'
  BY <1>1, OneMoves DEF VerifyInv, Verified, DoneVerifying, Planned, FileOf
<1>3. CASE pc'[t] \notin {"publish", "health"}
  BY <1>2, <1>3 DEF VerifyInv, Verified, DoneVerifying
<1>4. CASE BeginActivation(t)
  <2>1. /\ job'[t].todo = Planned(t) \cap Event /\ job'[t].found = disk[job[t].root]
        /\ job'[t].root = job[t].root /\ job'[t].plan = job[t].plan /\ pc'[t] = "publish"
    BY <1>4 DEF BeginActivation, Go, Typed, Job
  <2> QED
    BY <1>1, <1>2, <2>1 DEF VerifyInv, Verified, DoneVerifying, Planned, FileOf
<1>5. ASSUME NEW k \in Event, Verify(t, k) PROVE VerifyInv'
  <2>1. /\ job'[t].todo = job[t].todo \ {k} /\ job'[t].found = job[t].found
        /\ job'[t].root = job[t].root /\ job'[t].plan = job[t].plan
        /\ pc[t] = "publish" /\ pc'[t] = "publish" /\ k \in job[t].todo
        /\ FileOf(t, k).stat = job[t].plan[k].stat
    BY <1>5 DEF Verify, Go, Typed, Job
  <2>2. Verified(t)
    BY DEF VerifyInv
  <2>3. Verified(t)'
    BY <1>1, <2>1, <2>2 DEF Verified, Planned, FileOf
  <2> QED
    BY <1>2, <2>1, <2>3 DEF VerifyInv, DoneVerifying
<1>6. CASE Commit(t)
  <2>1. UNCHANGED job /\ job[t].todo = {} /\ pc[t] = "publish" /\ pc'[t] = "health"
    BY <1>6 DEF Commit, Go, Typed
  <2> QED
    BY <1>1, <1>2, <2>1 DEF VerifyInv, Verified, DoneVerifying, Planned, FileOf
<1> QED
  BY <1>3, <1>4, <1>5, <1>6, ActivatingSteps

(* A file that is written has a size and time that no plan has, and one that is
   deleted has none. *)
LEMMA VerifySurroundings ==
  ASSUME QuietRewrites = FALSE, Typed, StatsTell, VerifyInv, Surroundings \/ UNCHANGED vars
  PROVE  VerifyInv'
<1>1. CASE Crash
  BY <1>1 DEF Crash, VerifyInv, Verified, DoneVerifying
<1>2. CASE ~Crash
  <2>1. UNCHANGED <<pc, job>>
    BY <1>2 DEF Surroundings, DeleteFile, WriteFile, SetPointer, Undo, unmoved, vars
  <2>2. ASSUME NEW t \in Thread, NEW k \in Event, pc[t] \in {"publish", "health"},
               job[t].plan[k] # NoPlan
        PROVE  \/ disk'[job[t].root][k] = FileOf(t, k)
               \/ disk'[job[t].root][k].stat # job[t].plan[k].stat
    <3>1. job[t].root \in Root /\ k \in Key
      BY <2>2, LocalsAt DEF Locates, Begun, Key
    <3>2. job[t].plan[k].stat \in Stat /\ job[t].plan[k].stat # NoStat
      BY <2>2, <3>1, LocalsAt DEF Plan, Stat, NoStat
    <3>3. job[t].plan[k].stat <= ticks + 1
      <4>1. PICK h \in History : Remembered(h, job[t].root, k)
        BY <3>1 DEF StatsTell
      <4> QED
        BY <3>1, <4>1 DEF Remembered, Remembers, Dated
    <3>4. ticks \in Nat /\ job[t].plan[k].stat \in Nat
      BY <3>2, CoordinatorAssumption DEF Stat, Typed, TablesOK
    <3>5. ticks + 2 # job[t].plan[k].stat
      BY <3>3, <3>4
    <3> DEFINE now == disk'[job[t].root][k]
               Harmless == now = FileOf(t, k) \/ now.stat # job[t].plan[k].stat
    <3>6. ASSUME NEW r \in Root, NEW l \in Key, DeleteFile(r, l) PROVE Harmless
      <4>1. now \in {FileOf(t, k), NoFile}
        BY <3>1, <3>6 DEF DeleteFile, FileOf, Typed, TablesOK
      <4> QED
        BY <3>2, <4>1 DEF NoFile
    <3>7. ASSUME NEW r \in Root, NEW l \in Key, NEW c \in Content, WriteFile(r, l, c)
          PROVE  Harmless
      <4>1. now \in {FileOf(t, k), [content |-> c, stat |-> ticks + 2]}
        BY <3>1, <3>7 DEF WriteFile, FileOf, Typed, TablesOK
      <4> QED
        BY <3>5, <4>1
    <3>8. CASE (\E r \in Root : SetPointer(r)) \/ Undo \/ UNCHANGED vars
      BY <3>8 DEF SetPointer, Undo, vars, world, FileOf
    <3>9. CASE Surroundings
      <4>1. \/ \E r \in Root, l \in Key : DeleteFile(r, l)
            \/ \E r \in Root, l \in Key, c \in Content : WriteFile(r, l, c)
            \/ (\E r \in Root : SetPointer(r)) \/ Undo
        BY <1>2, <3>9 DEF Surroundings
      <4> QED
        BY <3>6, <3>7, <3>8, <4>1
    <3> QED
      BY <3>8, <3>9
  <2>3. ASSUME NEW t \in Thread PROVE Verified(t)' /\ DoneVerifying(t)'
    <3>1. Verified(t) /\ DoneVerifying(t)
      BY DEF VerifyInv
    <3> QED
      BY <2>1, <2>2, <3>1 DEF Verified, DoneVerifying, Planned, FileOf
  <2> QED
    BY <2>3 DEF VerifyInv
<1> QED
  BY <1>1, <1>2

(* ActivationVerifiesBytes: the last look compares sizes and times file by file while
   others go on writing; still every event file of a committed cut had, when the
   activation began, the bytes the cut records. *)
THEOREM ActivationHasVerified ==
  ASSUME QuietRewrites = FALSE PROVE Spec => []ActivationVerifiesBytes
<1>1. Init => VerifyInv
  BY DEF Init, VerifyInv, Verified, DoneVerifying
<1>2. Typed /\ StatsTell /\ VerifyInv /\ [Next]_vars => VerifyInv'
  <2> SUFFICES ASSUME Typed, StatsTell, VerifyInv, [Next]_vars PROVE VerifyInv'
    OBVIOUS
  <2>1. ASSUME NEW t \in Thread, Enter(t) \/ Busy(t) \/ Step(t) PROVE VerifyInv'
    BY <2>1, VerifyMoves
  <2> QED
    BY <2>1, VerifySurroundings DEF Next
<1>3. Typed /\ StatsTell /\ VerifyInv => ActivationVerifiesBytes
  <2> SUFFICES ASSUME Typed, StatsTell, VerifyInv, NEW t \in Thread, pc[t] = "health",
                      NEW k \in Event \cap Planned(t)
               PROVE  job[t].plan[k].content = job[t].found[k].content
    BY DEF ActivationVerifiesBytes
  <2>1. job[t].root \in Root /\ k \in Key
    BY LocalsAt DEF Locates, Begun, Key
  <2>2. PICK h \in History : Remembered(h, job[t].root, k)
    BY <2>1 DEF StatsTell
  <2>3. Dated(ticks, h, job[t].plan[k]) /\ Dated(ticks, h, job[t].found[k])
    BY <2>2 DEF Remembered, Remembers
  <2>4. job[t].found[k].stat = job[t].plan[k].stat
    BY DEF VerifyInv, Verified, DoneVerifying
  <2> QED
    BY <2>3, <2>4 DEF Dated
<1> QED
  BY <1>1, <1>2, <1>3, SpecTyped, SpecStats, PTL DEF Spec
====
