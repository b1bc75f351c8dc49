------------------------------ MODULE ProbeRunner ------------------------------
(***************************************************************************)
(* The compatibility page (HomePage.tsx) and its runner (runner.ts): the   *)
(* probes run one after another, the first asks the host, each of the      *)
(* others is a Worker with a time limit.  ReportPath adds what becomes of  *)
(* the report of all of them at the host.                                  *)
(*                                                                         *)
(* Pages may overlap: two tabs, or a page left and opened again while its  *)
(* run goes on.  They share one database in the browser's private file     *)
(* system, which admits one of them at a time (duckdbOpfs.worker.ts).      *)
(***************************************************************************)
EXTENDS Naturals, Sequences, FiniteSets, FiniteSetsExt

CONSTANTS
  Pages,   \* opened compatibility pages
  Kinds,   \* probeOrder: a sequence of "host", "worker" and "opfs"
  MaxRuns, \* bound: runs of all pages
  Nobody   \* no page has the database open

Probes == DOMAIN Kinds

ASSUME ProbeRunnerAssumption ==
  /\ IsFiniteSet(Pages) /\ Nobody \notin Pages /\ MaxRuns \in Nat
  /\ Kinds \in Seq({"host", "worker", "opfs"}) \ {<<>>}

NoMail == "none"

VARIABLES
  pc,      \* of runAll: "idle", "probing", "saving", "done"
  runs,    \* how often a page ran the probes
  results, \* of the current run
  worker,  \* per page and probe: "none" or what its Worker is doing
  mail,    \* the event a Worker has sent and the page has not handled
  made,    \* history: the probes of the current run a Worker was made for
  wrote,   \* the counter a page's worker wrote into the database
  counter, \* the stored counter
  opened,  \* who has the database open
  message  \* saveMessage of the page

page == <<pc, runs, results, message>>
database == <<wrote, counter, opened>>
workers == <<worker, mail, made>>
vars == <<page, workers, database>>

Current(p) == Len(results[p]) + 1
Probing(p, kinds) == pc[p] = "probing" /\ Kinds[Current(p)] \in kinds

Report(p) ==
  [probes |-> results[p],
   overall |-> IF \A i \in DOMAIN results[p] : results[p][i].status = "pass" THEN "pass" ELSE "fail"]

(* validate_report and _probe_counts *)
Acceptable(report) ==
  /\ Len(report.probes) = Len(Kinds)
  /\ {report.probes[i].name : i \in DOMAIN report.probes} = Probes
  /\ report.overall = IF \E i \in DOMAIN report.probes : report.probes[i].status = "fail"
                        THEN "fail" ELSE "pass"

(* What a terminated Worker held is released, what it sent is dropped. *)
Terminate(p, probe) ==
  /\ worker' = [worker EXCEPT ![<<p, probe>>] = "none"]
  /\ mail' = [mail EXCEPT ![<<p, probe>>] = NoMail]
  /\ opened' = IF opened = p /\ Kinds[probe] = "opfs" THEN Nobody ELSE opened
  /\ UNCHANGED made

(* timedProbe returns and the loop goes on. *)
Settle(p, status) ==
  LET n == Current(p) IN
  /\ results' = [results EXCEPT ![p] = Append(@, [name |-> n, status |-> status])]
  /\ pc' = [pc EXCEPT ![p] = IF n = Len(Kinds) THEN "saving" ELSE "probing"]
  /\ UNCHANGED <<runs, message>>

RunAll(p) ==
  /\ pc[p] \in {"idle", "done"} /\ MapThenSumSet(LAMBDA q : runs[q], Pages) < MaxRuns
  /\ pc' = [pc EXCEPT ![p] = "probing"] /\ runs' = [runs EXCEPT ![p] = @ + 1]
  /\ results' = [results EXCEPT ![p] = <<>>] /\ message' = [message EXCEPT ![p] = "none"]
  /\ made' = [made EXCEPT ![p] = {}]
  /\ UNCHANGED <<worker, mail, database>>

(* new Worker(...) and postMessage *)
StartWorker(p) ==
  /\ Probing(p, {"worker", "opfs"})
  /\ worker[<<p, Current(p)>>] = "none" /\ mail[<<p, Current(p)>>] = NoMail
  /\ worker' = [worker EXCEPT ![<<p, Current(p)>>] = "working"]
  /\ made' = [made EXCEPT ![p] = @ \cup {Current(p)}]
  /\ UNCHANGED <<page, mail, database>>

HostAnswers(p) ==
  /\ Probing(p, {"host"})
  /\ \E status \in {"pass", "fail"} : Settle(p, status)
  /\ UNCHANGED <<workers, database>>

--------------------------------------------------------------------------------
(* Inside the Workers *)

Sends(p, i, event) == mail' = [mail EXCEPT ![<<p, i>>] = event]
Becomes(p, i, stage) == worker' = [worker EXCEPT ![<<p, i>>] = stage]

WorkerAnswers(p, i) ==
  /\ Kinds[i] = "worker" /\ worker[<<p, i>>] = "working"
  /\ \E event \in {"ok", "bad"} : Sends(p, i, event)
  /\ Becomes(p, i, "answered")
  /\ UNCHANGED <<page, made, database>>

(* The module cannot be loaded, or something throws outside the handler. *)
WorkerErrors(p, i) ==
  /\ worker[<<p, i>>] \notin {"none", "answered"}
  /\ Sends(p, i, "error") /\ Becomes(p, i, "answered")
  /\ opened' = IF opened = p /\ Kinds[i] = "opfs" THEN Nobody ELSE opened
  /\ UNCHANGED <<page, made, wrote, counter>>

OpenFirst(p, i) ==
  /\ Kinds[i] = "opfs" /\ worker[<<p, i>>] = "working" /\ opened = Nobody
  /\ opened' = p /\ Becomes(p, i, "writing")
  /\ UNCHANGED <<page, mail, made, wrote, counter>>

(* UPDATE and CHECKPOINT *)
WriteCounter(p, i) ==
  /\ worker[<<p, i>>] = "writing"
  /\ counter' = counter + 1 /\ Becomes(p, i, "counted")
  /\ UNCHANGED <<page, mail, made, wrote, opened>>

(* SELECT, close and terminate *)
CloseFirst(p, i) ==
  /\ worker[<<p, i>>] = "counted"
  /\ wrote' = [wrote EXCEPT ![p] = counter]
  /\ opened' = Nobody /\ Becomes(p, i, "written")
  /\ UNCHANGED <<page, mail, made, counter>>

OpenAgain(p, i) ==
  /\ worker[<<p, i>>] = "written" /\ opened = Nobody
  /\ opened' = p /\ Becomes(p, i, "reading")
  /\ UNCHANGED <<page, mail, made, wrote, counter>>

(* Whoever finds the database open throws. *)
Refused(p, i) ==
  /\ Kinds[i] = "opfs" /\ worker[<<p, i>>] \in {"working", "written"} /\ opened # Nobody
  /\ Sends(p, i, "bad") /\ Becomes(p, i, "answered")
  /\ UNCHANGED <<page, made, database>>

ReadBack(p, i) ==
  /\ worker[<<p, i>>] = "reading"
  /\ Sends(p, i, IF counter = wrote[p] THEN "ok" ELSE "bad") /\ Becomes(p, i, "answered")
  /\ opened' = Nobody
  /\ UNCHANGED <<page, made, wrote, counter>>

InWorker(p, i) ==
  \/ WorkerAnswers(p, i) \/ WorkerErrors(p, i) \/ OpenFirst(p, i) \/ WriteCounter(p, i)
  \/ CloseFirst(p, i) \/ OpenAgain(p, i) \/ Refused(p, i) \/ ReadBack(p, i)

--------------------------------------------------------------------------------
(* Back on the page *)

Deliver(p) ==
  LET i == Current(p) IN
  /\ Probing(p, {"worker", "opfs"}) /\ mail[<<p, i>>] # NoMail
  /\ Settle(p, IF mail[<<p, i>>] = "ok" THEN "pass" ELSE "fail")
  /\ Terminate(p, i)
  /\ UNCHANGED <<wrote, counter>>

(* Fault: the Worker runs on. *)
TimeOutLeavingWorker(p) ==
  /\ Probing(p, {"worker", "opfs"}) /\ worker[<<p, Current(p)>>] # "none"
  /\ Settle(p, "fail")
  /\ UNCHANGED <<workers, database>>

(* Fault: the Worker is ended and nobody is told. *)
TimeOutUntold(p) ==
  /\ Probing(p, {"worker", "opfs"}) /\ worker[<<p, Current(p)>>] # "none"
  /\ Terminate(p, Current(p))
  /\ UNCHANGED <<page, wrote, counter>>

TimeOut(p) ==
  /\ Probing(p, {"worker", "opfs"}) /\ worker[<<p, Current(p)>>] # "none"
  /\ Settle(p, "fail")
  /\ Terminate(p, Current(p))
  /\ UNCHANGED <<wrote, counter>>

(* The report stays on the page, whether or not the host could keep it. *)
Save(p, said) ==
  /\ pc[p] = "saving"
  /\ pc' = [pc EXCEPT ![p] = "done"] /\ message' = [message EXCEPT ![p] = said]
  /\ UNCHANGED <<runs, results, workers, database>>

Init ==
  /\ pc = [p \in Pages |-> "idle"] /\ runs = [p \in Pages |-> 0]
  /\ results = [p \in Pages |-> <<>>] /\ message = [p \in Pages |-> "none"]
  /\ worker = [w \in Pages \X Probes |-> "none"] /\ mail = [w \in Pages \X Probes |-> NoMail]
  /\ made = [p \in Pages |-> {}]
  /\ wrote = [p \in Pages |-> 0] /\ counter = 0 /\ opened = Nobody

OnPage(p) == RunAll(p) \/ StartWorker(p) \/ HostAnswers(p) \/ Deliver(p) \/ TimeOut(p)

Probe == \E p \in Pages : OnPage(p) \/ \E i \in Probes : InWorker(p, i)

(* A probe that was started is answered by the host or ended by its time limit, *)
(* and a Worker made when it is due; a Worker owes nothing.                      *)
ProbesGoOn ==
  \A p \in Pages : WF_vars(StartWorker(p)) /\ WF_vars(HostAnswers(p)) /\ WF_vars(TimeOut(p))

--------------------------------------------------------------------------------
(* Properties *)

(* Types, and that a run has no more results than there are probes. *)
TypeOK ==
  /\ \A p \in Pages : /\ pc[p] \in {"idle", "probing", "saving", "done"}
                      /\ Len(results[p]) <= Len(Kinds) /\ runs[p] \in 0..MaxRuns
                      /\ pc[p] \in {"saving", "done"} => Len(results[p]) = Len(Kinds)
                      /\ pc[p] = "probing" => Current(p) \in Probes
  /\ opened \in Pages \cup {Nobody}

(* No Worker outlives the probe it was made for: whichever of answer, error and
   time limit comes first ends it (runner.ts:69-98), so the heavy ones never run
   side by side in one page and none keeps the database of the next run open. *)
WorkersEndWithTheirProbe ==
  \A p \in Pages, i \in Probes :
    worker[<<p, i>>] # "none" => pc[p] = "probing" /\ i = Current(p)

(* A probe has passed only by the word of a Worker that was made for it in this very
   run: what a Worker of an earlier run, or of the probe before, still had to say when
   its time was up is never taken for the answer of the next (runner.ts:69-98). *)
PassesAreOfThisRun ==
  \A p \in Pages : \A i \in DOMAIN results[p] :
    Kinds[i] # "host" /\ results[p][i].status = "pass" => i \in made[p]
================================================================================
