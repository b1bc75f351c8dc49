--------------------------- MODULE RefreshCoordinator ---------------------------
(***************************************************************************)
(* One refresh, end to end (RtaRefreshCoordinator.refresh), as the request *)
(* threads of the local server run it over the generation store: a lock    *)
(* that admits one refresh, an inventory of the source folder, discovery   *)
(* and parsing of the files, Bronze rows and evidence staged under a       *)
(* running generation, and activation with a last look at the files.       *)
(*                                                                         *)
(* Meanwhile files are written, replaced and deleted, the source folder is *)
(* pointed elsewhere, the last activation may be undone, and the process   *)
(* may stop at any point and be started again.                             *)
(*                                                                         *)
(* A check that fails raises, and so may any read, write or parse: Raise   *)
(* stands for all of them.  An action below therefore states only what     *)
(* holds when its stage completes.                                         *)
(***************************************************************************)
EXTENDS Naturals, FiniteSetsExt

CONSTANTS
  Thread,        \* request threads of the server
  Root,          \* source folders that data/source-root.txt may name
  Actual,        \* keys of the Agent Status and LILO files
  Calls,         \* keys of the Call by Call files
  Roster,        \* key of the FTE workbook
  Schedule,      \* key of the published schedule
  Content,       \* bytes of a file
  Blocking,      \* those a roster or schedule may not have: an error finding
  NoContent,     \* the content of a file that is not there
  NoRoot,        \* no folder
  NoThread,      \* the lock is free
  QuietRewrites, \* whether a rewrite may keep a file's size and time
  BusyStore,     \* whether a write may find the database locked for too long
  MaxTicks,      \* bound: moves of the surroundings
  MaxGen         \* bound: refreshes that get as far as a generation

Event == Actual \cup Calls
Key == Event \cup {Roster, Schedule}

ASSUME CoordinatorAssumption ==
  /\ Actual \cap Calls = {} /\ Roster # Schedule
  /\ Roster \notin Event /\ Schedule \notin Event
  /\ Blocking \subseteq Content
  /\ NoContent \notin Content /\ NoRoot \notin Root /\ NoThread \notin Thread
  /\ QuietRewrites \in BOOLEAN /\ BusyStore \in BOOLEAN
  /\ MaxTicks \in Nat /\ MaxGen \in Nat

Stat == 1..MaxTicks + 1   \* (size, time): that of the first files, then one a move
NoStat == 0
Severity == {"error"}   \* findings of a lower severity decide nothing here

VARIABLES
  status, base, manifest, issues, active,  \* the store, see RefreshStore
  catalog,   \* catalog_sha256 of a generation: the folder it was read from
  bronze,    \* raw event rows per generation and key: what they were parsed from
  disk,      \* the files: per folder and key, bytes and (size, time)
  ticks,     \* how often the surroundings have moved
  pointer,   \* the folder data/source-root.txt names
  lock,      \* _refresh_lock
  progress,  \* whether _progress of the coordinator is set
  writer,    \* the thread inside the activation transaction
  pc,        \* where each thread is in refresh()
  job,       \* the local variables of each refresh()
  outcome    \* how it ends

Store == INSTANCE RefreshStore

store == <<status, base, manifest, issues, active>>
evidence == <<catalog, bronze>>
world == <<disk, ticks, pointer>>
vars == <<store, evidence, world, lock, progress, writer, pc, job, outcome>>

Gen == Store!Gen
Null == Store!Null

File == [content : Content, stat : Stat]
NoFile == [content |-> NoContent, stat |-> NoStat]

Plan == [content : Content, stat : Stat, owner : Gen]
NoPlan == [content |-> NoContent, stat |-> NoStat, owner |-> Null]

(* What the raw rows of an event file depend on: its bytes and the roster that
   scoped them. *)
Rows == [content : Content, roster : Content]
NoRows == [content |-> NoContent, roster |-> NoContent]

(* root, generation_id and inventory; the files the current loop has still to
   visit; the fingerprint handed to the parser; the parsed snapshot and the source
   plans.  found is history: the files as they were when the activation began.  A
   local that is read no more is forgotten. *)
Job == [root : Root \cup {NoRoot}, gen : Gen \cup {Null},
        inv : [Key -> File \cup {NoFile}], todo : SUBSET Key,
        seen : [Event -> File \cup {NoFile}], plan : [Key -> Plan \cup {NoPlan}],
        found : [Key -> File \cup {NoFile}]]
NoJob == [root |-> NoRoot, gen |-> Null,
          inv |-> [k \in Key |-> NoFile], todo |-> {},
          seen |-> [k \in Event |-> NoFile], plan |-> [k \in Key |-> NoPlan],
          found |-> [k \in Key |-> NoFile]]

(* The stages in which an exception leads to the except clauses. *)
Stages ==
  {"resolve", "inventory", "unchanged", "start", "roster", "schedule",
   "list_actuals", "actuals", "list_calls", "calls", "parse", "stage", "publish",
   "health"}

PC == Stages \cup {"idle", "failing", "clear", "release", "reply"}

Outside == {"idle", "reply"}        \* where a thread has no business with the lock
Reported == Stages \ {"resolve"}    \* where it has set its progress

Outcome == {"none", "busy", "unchanged", "published", "failed", "dropped"}

FileOf(t, k) == disk[job[t].root][k]
Present(t) == {k \in Key : FileOf(t, k) # NoFile}
Planned(t) == {k \in Key : job[t].plan[k] # NoPlan}
VersionOf(p) == [content |-> p.content, stat |-> p.stat]

--------------------------------------------------------------------------------
Init ==
  /\ Store!Init
  /\ catalog = [g \in Gen |-> NoRoot]
  /\ bronze = [g \in Gen |-> [k \in Event |-> NoRows]]
  /\ disk \in [Root -> [Key -> {NoFile} \cup [content : Content, stat : {1}]]]
  /\ \A r \in Root, k \in {Roster, Schedule} : disk[r][k] # NoFile
  /\ ticks = 0
  /\ pointer \in Root
  /\ lock = NoThread
  /\ progress = FALSE
  /\ writer = NoThread
  /\ pc = [t \in Thread |-> "idle"]
  /\ job = [t \in Thread |-> NoJob]
  /\ outcome = [t \in Thread |-> "none"]

(* A thread goes on from one place to another. *)
Go(t, from, to) == pc[t] = from /\ pc' = [pc EXCEPT ![t] = to]

(* The steps of a refresh that touch nothing but its locals and its progress. *)
Locally == UNCHANGED <<store, evidence, world, lock, writer, outcome>>
Report == progress' = TRUE

--------------------------------------------------------------------------------
(* Admission. *)

(* Fault: a refresh does not ask whether another one is running. *)
EnterUnlocked(t) ==
  /\ Go(t, "idle", "resolve")
  /\ lock' = t
  /\ UNCHANGED <<store, evidence, world, progress, writer, job, outcome>>

Enter(t) ==
  /\ Go(t, "idle", "resolve")
  /\ lock = NoThread
  /\ lock' = t
  /\ UNCHANGED <<store, evidence, world, progress, writer, job, outcome>>

Busy(t) ==
  /\ Go(t, "idle", "reply")
  /\ lock # NoThread
  /\ outcome' = [outcome EXCEPT ![t] = "busy"]
  /\ UNCHANGED <<store, evidence, world, lock, progress, writer, job>>

--------------------------------------------------------------------------------
(* Inventory and the fast path. *)

ResolveRoot(t) ==
  /\ Go(t, "resolve", "inventory")
  /\ Report
  /\ job' = [job EXCEPT ![t].root = pointer, ![t].todo = Key]
  /\ Locally

(* Files are looked at one after the other. *)
LookAt(t, k) ==
  /\ Go(t, "inventory", "inventory")
  /\ k \in job[t].todo
  /\ job' = [job EXCEPT ![t].inv[k] = FileOf(t, k), ![t].todo = @ \ {k}]
  /\ UNCHANGED progress
  /\ Locally

(* Fault: the fast path compares the files it found and misses the removed. *)
MatchesWhatIsThere(t) ==
  /\ active # Null
  /\ Store!Succeeded(active)
  /\ catalog[active] = job[t].root
  /\ \A k \in Key : job[t].inv[k] # NoFile =>
       /\ manifest[active][k].state = "present"
       /\ manifest[active][k].stat = job[t].inv[k].stat

(* The inventory is that of the active cut: the same folder, the same files,
   the same sizes and times. *)
MatchesActiveCut(t) ==
  /\ active # Null
  /\ Store!Succeeded(active)
  /\ catalog[active] = job[t].root
  /\ \A k \in Key :
       LET row == manifest[active][k]
       IN  /\ row # Store!NoRow <=> job[t].inv[k] # NoFile
           /\ row # Store!NoRow =>
                row.state = "present" /\ row.stat = job[t].inv[k].stat

FindUnchanged(t) ==
  /\ Go(t, "inventory", "unchanged")
  /\ job[t].todo = {}
  /\ MatchesActiveCut(t)
  /\ Report
  /\ job' = [job EXCEPT ![t].inv = NoJob.inv]
  /\ Locally

FindChanged(t) ==
  /\ Go(t, "inventory", "start")
  /\ job[t].todo = {}
  /\ ~MatchesActiveCut(t)
  /\ job' = [job EXCEPT ![t].inv = NoJob.inv]
  /\ UNCHANGED progress
  /\ Locally

(* The answer carries source_health(), which may raise: a stage of its own. *)
AnswerUnchanged(t) ==
  /\ Go(t, "unchanged", "clear")
  /\ outcome' = [outcome EXCEPT ![t] = "unchanged"]
  /\ UNCHANGED <<store, evidence, world, lock, progress, writer, job>>

--------------------------------------------------------------------------------
(* Discovery. *)

Start(t) ==
  /\ Go(t, "start", "roster")
  /\ \E g \in Gen :
       /\ Store!StartGeneration(g)
       /\ catalog' = [catalog EXCEPT ![g] = job[t].root]
       /\ job' = [job EXCEPT ![t].gen = g]
  /\ UNCHANGED <<bronze, world, lock, progress, writer, outcome>>

(* Fault: a file that is not there is read as an empty one. *)
ReadMissing(t, k) ==
  job' = [job EXCEPT ![t].plan[k] =
            [content |-> FileOf(t, k).content, stat |-> FileOf(t, k).stat,
             owner |-> job[t].gen]]

(* The roster and the schedule are hashed before and after they are read. *)
ReadWhole(t, k) ==
  /\ FileOf(t, k) # NoFile
  /\ job' = [job EXCEPT ![t].plan[k] =
               [content |-> FileOf(t, k).content, stat |-> FileOf(t, k).stat,
                owner |-> job[t].gen]]

DiscoverRoster(t) ==
  /\ Go(t, "roster", "schedule")
  /\ Report
  /\ ReadWhole(t, Roster)
  /\ Locally

DiscoverSchedule(t) ==
  /\ Go(t, "schedule", "list_actuals")
  /\ Report
  /\ ReadWhole(t, Schedule)
  /\ Locally

Blocked(t) == \E k \in {Roster, Schedule} : job[t].plan[k].content \in Blocking

(* Blocking findings: only the snapshot is staged, as evidence of the failure. *)
SkipEvents(t) ==
  /\ Go(t, "list_actuals", "stage")
  /\ Blocked(t)
  /\ Report
  /\ job' = [job EXCEPT ![t].todo = Planned(t)]
  /\ Locally

(* Each folder is listed when its turn comes. *)
ListActuals(t) ==
  /\ Go(t, "list_actuals", "actuals")
  /\ ~Blocked(t)
  /\ job' = [job EXCEPT ![t].todo = Present(t) \cap Actual]
  /\ UNCHANGED progress
  /\ Locally

ListCalls(t) ==
  /\ Go(t, "list_calls", "calls")
  /\ job' = [job EXCEPT ![t].todo = Present(t) \cap Calls]
  /\ UNCHANGED progress
  /\ Locally

LoopOf(k) == IF k \in Actual THEN "actuals" ELSE "calls"

(* Fault: rows read from another folder are reused. *)
CandidatesOfAnyRoot(t, k) ==
  {g \in Gen :
     /\ Store!Succeeded(g)
     /\ manifest[g][k].state = "present"
     /\ manifest[g][Roster].state = "present"
     /\ manifest[g][Roster].content = job[t].plan[Roster].content}

(* The generations whose Bronze rows for the file may be used again. *)
Candidates(t, k) ==
  {g \in Gen :
     /\ Store!Succeeded(g)
     /\ catalog[g] = job[t].root
     /\ manifest[g][k].state = "present"
     /\ manifest[g][Roster].state = "present"
     /\ manifest[g][Roster].content = job[t].plan[Roster].content}

(* Size and time are compared with the current cut only; a file that agrees is
   not hashed, and is taken to have the bytes recorded there. *)
AgreesWithActive(t, k) ==
  /\ active \in Candidates(t, k)
  /\ manifest[active][k].stat = FileOf(t, k).stat

ContentTaken(t, k) ==
  IF AgreesWithActive(t, k) THEN manifest[active][k].content ELSE FileOf(t, k).content

KnownVersions(t, k) ==
  IF AgreesWithActive(t, k)
    THEN {active}
    ELSE {g \in Candidates(t, k) : manifest[g][k].content = FileOf(t, k).content}

OwnerOf(t, k) == manifest[Max(KnownVersions(t, k))][k].bronze

(* A version is known and its rows are all there. *)
Reusable(t, k) == KnownVersions(t, k) # {} /\ bronze[OwnerOf(t, k)][k] # NoRows

Reuse(t, k) ==
  /\ Go(t, LoopOf(k), LoopOf(k))
  /\ k \in job[t].todo
  /\ FileOf(t, k) # NoFile
  /\ Reusable(t, k)
  /\ job' = [job EXCEPT
       ![t].todo = @ \ {k},
       ![t].plan[k] = [content |-> ContentTaken(t, k), stat |-> FileOf(t, k).stat,
                       owner |-> OwnerOf(t, k)]]
  /\ Report
  /\ Locally

(* Otherwise the fingerprint just taken is what the parser must find. *)
Fingerprint(t, k) ==
  /\ Go(t, LoopOf(k), "parse")
  /\ k \in job[t].todo
  /\ FileOf(t, k) # NoFile
  /\ ~Reusable(t, k)
  /\ job' = [job EXCEPT
       ![t].todo = @ \ {k},
       ![t].seen[k] = [content |-> ContentTaken(t, k), stat |-> FileOf(t, k).stat]]
  /\ Report
  /\ Locally

(* Fault: the rows are committed without a second look at the file. *)
ParseWhatIsThere(t, k) ==
  LET j == job[t]
  IN  /\ Go(t, "parse", LoopOf(k))
      /\ j.seen[k] # NoFile
      /\ FileOf(t, k) # NoFile
      /\ bronze' = [bronze EXCEPT ![j.gen][k] =
           [content |-> FileOf(t, k).content, roster |-> j.plan[Roster].content]]
      /\ job' = [job EXCEPT
           ![t].seen[k] = NoFile,
           ![t].plan[k] =
             [content |-> j.seen[k].content, stat |-> j.seen[k].stat, owner |-> j.gen]]
      /\ UNCHANGED <<store, catalog, world, lock, progress, writer, outcome>>

(* The rows of one file are inserted in one transaction, which commits if the
   file still has the size and time of its fingerprint. *)
Parse(t, k) ==
  LET j == job[t]
  IN  /\ Go(t, "parse", LoopOf(k))
      /\ j.seen[k] # NoFile
      /\ FileOf(t, k).stat = j.seen[k].stat
      /\ bronze' = [bronze EXCEPT ![j.gen][k] =
           [content |-> FileOf(t, k).content, roster |-> j.plan[Roster].content]]
      /\ job' = [job EXCEPT
           ![t].seen[k] = NoFile,
           ![t].plan[k] =
             [content |-> j.seen[k].content, stat |-> j.seen[k].stat, owner |-> j.gen]]
      /\ UNCHANGED <<store, catalog, world, lock, progress, writer, outcome>>

ActualsDone(t) ==
  /\ Go(t, "actuals", "list_calls")
  /\ job[t].todo = {}
  /\ UNCHANGED <<job, progress>>
  /\ Locally

CallsDone(t) ==
  /\ Go(t, "calls", "stage")
  /\ job[t].todo = {}
  /\ Report
  /\ job' = [job EXCEPT ![t].todo = Planned(t)]
  /\ Locally

--------------------------------------------------------------------------------
(* Staging and publication. *)

(* One transaction per source. *)
Stage(t, k) ==
  LET p == job[t].plan[k]
  IN  /\ Go(t, "stage", "stage")
      /\ k \in job[t].todo
      /\ Store!StageSource(job[t].gen, k, VersionOf(p), p.owner)
      /\ job' = [job EXCEPT ![t].todo = @ \ {k}]
      /\ UNCHANGED <<evidence, world, lock, progress, writer, outcome>>

(* The findings are recorded last, and the refresh gives up. *)
RecordBlocking(t) ==
  /\ Go(t, "stage", "failing")
  /\ job[t].todo = {}
  /\ Blocked(t)
  /\ Store!RecordQualityIssues(job[t].gen, {"error"})
  /\ UNCHANGED <<evidence, world, lock, progress, writer, job, outcome>>

(* Activation takes the write lock and keeps it until it commits. *)
BeginActivation(t) ==
  /\ Go(t, "stage", "publish")
  /\ job[t].todo = {}
  /\ ~Blocked(t)
  /\ writer = NoThread
  /\ Store!Running(job[t].gen)
  /\ active = base[job[t].gen]
  /\ "error" \notin issues[job[t].gen]
  /\ writer' = t
  /\ Report
  /\ job' = [job EXCEPT ![t].todo = Planned(t) \cap Event,
                         ![t].found = disk[job[t].root]]
  /\ UNCHANGED <<store, evidence, world, lock, outcome>>

(* Fault: the publication trusts the fingerprints of the discovery. *)
VerifyNothing(t, k) ==
  /\ Go(t, "publish", "publish")
  /\ k \in job[t].todo
  /\ Report
  /\ job' = [job EXCEPT ![t].todo = @ \ {k}]
  /\ Locally

(* Every event file is looked at again; the roster and the schedule are not. *)
Verify(t, k) ==
  /\ Go(t, "publish", "publish")
  /\ k \in job[t].todo
  /\ FileOf(t, k).stat = job[t].plan[k].stat
  /\ Report
  /\ job' = [job EXCEPT ![t].todo = @ \ {k}]
  /\ Locally

Commit(t) ==
  /\ Go(t, "publish", "health")
  /\ job[t].todo = {}
  /\ Store!ActivateGeneration(job[t].gen)
  /\ writer' = NoThread
  /\ Report
  /\ UNCHANGED <<evidence, world, lock, job, outcome>>

AnswerPublished(t) ==
  /\ Go(t, "health", "clear")
  /\ outcome' = [outcome EXCEPT ![t] = "published"]
  /\ UNCHANGED <<store, evidence, world, lock, progress, writer, job>>

--------------------------------------------------------------------------------
(* The except clauses and the finally clause. *)

(* Any stage may raise; an open activation is rolled back. *)
Raise(t) ==
  /\ pc[t] \in Stages
  /\ pc' = [pc EXCEPT ![t] = "failing"]
  /\ writer' = IF writer = t THEN NoThread ELSE writer
  /\ UNCHANGED <<store, evidence, world, lock, progress, job, outcome>>

(* No generation was started: there is nothing to fail. *)
FailBare(t) ==
  /\ Go(t, "failing", "clear")
  /\ job[t].gen = Null
  /\ outcome' = [outcome EXCEPT ![t] = "failed"]
  /\ UNCHANGED <<store, evidence, world, lock, progress, writer, job>>

(* Fault: a failure is reported without asking what became of the generation. *)
FailAnyGeneration(t) ==
  /\ Go(t, "failing", "clear")
  /\ job[t].gen # Null
  /\ status' = [status EXCEPT ![job[t].gen] = "failed"]
  /\ outcome' = [outcome EXCEPT ![t] = "failed"]
  /\ UNCHANGED <<base, manifest, issues, active, evidence, world,
                 lock, progress, writer, job>>

Fail(t) ==
  /\ Go(t, "failing", "clear")
  /\ job[t].gen # Null
  /\ Store!FailGeneration(job[t].gen)
  /\ outcome' = [outcome EXCEPT ![t] = "failed"]
  /\ UNCHANGED <<evidence, world, lock, progress, writer, job>>

(* Fault: the failure is retried until the store accepts it. *)
NeverDrop(t) ==
  /\ Go(t, "failing", "failing")
  /\ job[t].gen # Null
  /\ UNCHANGED <<store, evidence, world, lock, progress, writer, job, outcome>>

(* Fault: fail_generation raises past the release of the lock. *)
DropHoldingLock(t) ==
  /\ Go(t, "failing", "reply")
  /\ job[t].gen # Null
  /\ BusyStore \/ ~Store!Running(job[t].gen)
  /\ outcome' = [outcome EXCEPT ![t] = "dropped"]
  /\ UNCHANGED <<store, evidence, world, lock, progress, writer, job>>

(* fail_generation raises in turn, because the database is locked or because the
   generation has succeeded: no diagnostic, no failure code, no response. *)
Drop(t) ==
  /\ Go(t, "failing", "clear")
  /\ job[t].gen # Null
  /\ BusyStore \/ ~Store!Running(job[t].gen)
  /\ outcome' = [outcome EXCEPT ![t] = "dropped"]
  /\ UNCHANGED <<store, evidence, world, lock, progress, writer, job>>

ClearProgress(t) ==
  /\ Go(t, "clear", "release")
  /\ progress' = FALSE
  /\ UNCHANGED <<store, evidence, world, lock, writer, job, outcome>>

Release(t) ==
  /\ Go(t, "release", "reply")
  /\ lock' = NoThread
  /\ job' = [job EXCEPT ![t] = NoJob]
  /\ UNCHANGED <<store, evidence, world, progress, writer, outcome>>

(* The handler is done with the request.  It writes a response to each outcome but
   "dropped": there the exception ends the connection without one. *)
Reply(t) ==
  /\ Go(t, "reply", "idle")
  /\ outcome' = [outcome EXCEPT ![t] = "none"]
  /\ UNCHANGED <<store, evidence, world, lock, progress, writer, job>>

Step(t) ==
  \/ ResolveRoot(t)
  \/ \E k \in Key : LookAt(t, k)
  \/ FindUnchanged(t) \/ FindChanged(t) \/ AnswerUnchanged(t)
  \/ Start(t) \/ DiscoverRoster(t) \/ DiscoverSchedule(t) \/ SkipEvents(t)
  \/ ListActuals(t) \/ ActualsDone(t) \/ ListCalls(t) \/ CallsDone(t)
  \/ \E k \in Event : Reuse(t, k) \/ Fingerprint(t, k) \/ Parse(t, k) \/ Verify(t, k)
  \/ \E k \in Key : Stage(t, k)
  \/ RecordBlocking(t) \/ BeginActivation(t) \/ Commit(t) \/ AnswerPublished(t)
  \/ Raise(t) \/ FailBare(t) \/ Fail(t) \/ Drop(t)
  \/ ClearProgress(t) \/ Release(t) \/ Reply(t)

--------------------------------------------------------------------------------
(* The surroundings. *)

Tick == ticks < MaxTicks /\ ticks' = ticks + 1
unmoved == <<lock, progress, writer, pc, job, outcome>>

(* A file is written or replaced whole.  Unless QuietRewrites allows it, the
   result has a size and time that no file had before. *)
WriteFile(r, k, c) ==
  /\ Tick
  /\ \/ disk' = [disk EXCEPT ![r][k] = [content |-> c, stat |-> ticks + 2]]
     \/ /\ QuietRewrites
        /\ disk[r][k] # NoFile
        /\ disk' = [disk EXCEPT ![r][k].content = c]
  /\ UNCHANGED <<store, evidence, pointer, unmoved>>

DeleteFile(r, k) ==
  /\ Tick
  /\ disk[r][k] # NoFile
  /\ disk' = [disk EXCEPT ![r][k] = NoFile]
  /\ UNCHANGED <<store, evidence, pointer, unmoved>>

SetPointer(r) ==
  /\ Tick
  /\ pointer' = r
  /\ UNCHANGED <<store, evidence, disk, unmoved>>

(* The last activation is undone by a caller outside refresh(). *)
Undo ==
  /\ Tick
  /\ writer = NoThread
  /\ \E g \in Gen : Store!RestorePreviousGeneration(g)
  /\ UNCHANGED <<evidence, disk, pointer, unmoved>>

(* The process stops and is started again: the database and the files are what
   is left.  A transaction that was open is rolled back. *)
Crash ==
  /\ Tick
  /\ lock' = NoThread
  /\ progress' = FALSE
  /\ writer' = NoThread
  /\ pc' = [t \in Thread |-> "idle"]
  /\ job' = [t \in Thread |-> NoJob]
  /\ outcome' = [t \in Thread |-> "none"]
  /\ UNCHANGED <<store, evidence, disk, pointer>>

Surroundings ==
  \/ \E r \in Root, k \in Key :
       DeleteFile(r, k) \/ \E c \in Content : WriteFile(r, k, c)
  \/ \E r \in Root : SetPointer(r)
  \/ Undo
  \/ Crash

Next ==
  \/ \E t \in Thread : Enter(t) \/ Busy(t) \/ Step(t)
  \/ Surroundings

Spec == Init /\ [][Next]_vars

(* A thread that is inside refresh() is scheduled again and again.  Nothing
   obliges a client to ask for a refresh, a file to change or the process to
   stop. *)
FairSpec == Spec /\ \A t \in Thread : WF_vars(Step(t))

--------------------------------------------------------------------------------
(* The locals, the lock and the tables hold values of their types, and what the
   coordinator adds to the store does. *)
TypeOK ==
  /\ Store!TypeOK
  /\ catalog \in [Gen -> Root \cup {NoRoot}]
  /\ bronze \in [Gen -> [Event -> Rows \cup {NoRows}]]
  /\ disk \in [Root -> [Key -> File \cup {NoFile}]]
  /\ ticks \in 0..MaxTicks
  /\ pointer \in Root
  /\ lock \in Thread \cup {NoThread}
  /\ progress \in BOOLEAN
  /\ writer \in Thread \cup {NoThread}
  /\ pc \in [Thread -> PC]
  /\ job \in [Thread -> Job]
  /\ outcome \in [Thread -> Outcome]

(* One refresh at a time, and its progress is shown from its first stage to its
   last and never outlives it: whoever is between the acquisition of the lock
   and its release holds it, and _progress is set exactly then, but for the
   moments after the acquisition and before the release. *)
OneRefreshShown ==
  /\ \A t \in Thread : pc[t] \notin Outside <=> lock = t
  /\ progress => lock # NoThread
  /\ \A t \in Thread : pc[t] \in Reported => progress

(* Activation verifies the bytes: every event file of a cut that was committed
   had, when its activation began, exactly the bytes the cut records. *)
ActivationVerifiesBytes ==
  \A t \in Thread : pc[t] = "health" =>
    \A k \in Event \cap Planned(t) :
      job[t].plan[k].content = job[t].found[k].content

(* The Bronze rows an event file of a cut resolves to, which may have been
   inserted by another refresh, were parsed from the bytes this cut records and
   scoped by the roster this cut records. *)
BronzeFaithful ==
  \A g \in Gen, k \in Event :
    LET row == manifest[g][k]
        roster == manifest[g][Roster]
    IN  row.state = "present" /\ roster.state = "present" =>
          bronze[row.bronze][k] = [content |-> row.content, roster |-> roster.content]

(* Rows read from one source folder are never published in a cut of another. *)
RootsNeverMix ==
  \A g \in Gen, k \in Key :
    LET row == manifest[g][k]
    IN  row.state = "present" => catalog[row.bronze] = catalog[g]

(* A refresh that reports a failure changed nothing that is served: its
   generation is failed, was never published and is nobody's base. *)
FailurePreserves ==
  \A t \in Thread : pc[t] \in {"clear", "release"} /\ outcome[t] = "failed" =>
    LET g == job[t].gen
    IN  g # Null => /\ status[g] = "failed"
                    /\ active # g
                    /\ \A h \in Gen : base[h] # g

(* Whoever fails learns why: a refresh that ends is answered, with a result or
   with a failure whose code and diagnostic have been written. *)
FailuresDiagnosed == \A t \in Thread : outcome[t] # "dropped"

(* A cut accepted as unchanged has the bytes of the files that were looked at,
   one after the other, although only their sizes and times were compared. *)
UnchangedTruthful ==
  [][\A t \in Thread : pc[t] = "inventory" /\ pc'[t] = "unchanged" =>
       \A k \in Key : job[t].inv[k].content = manifest[active][k].content]_vars

(* Whatever the refreshes, the files and the crashes do, the database sees only
   the operations of the store. *)
ImplementsStore == Store!Spec

(* refresh() always comes to an end that it has a name for, and leaves the lock:
   unchanged, published, failed or, where the failure could not be recorded,
   dropped; unless the process ends first.  It is not said that every request gets
   a response: one that was dropped gets none, see FailuresDiagnosed. *)
EveryRefreshEnds ==
  \A t \in Thread :
    pc[t] \notin Outside ~>
      \/ pc[t] = "reply" /\ lock # t
           /\ outcome[t] \in {"unchanged", "published", "failed", "dropped"}
      \/ pc[t] = "idle"

(* The lock never stays held: a later refresh is always admitted. *)
AlwaysAdmitsAgain == []<>(lock = NoThread)
================================================================================
