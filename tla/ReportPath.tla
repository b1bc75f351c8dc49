------------------------------ MODULE ReportPath ------------------------------
(***************************************************************************)
(* A compatibility report on its way: from the run of the probes on a page *)
(* (ProbeRunner) through the request that carries it (server.py) into the  *)
(* file and the row the host keeps of it (SharedTemporary).                *)
(*                                                                         *)
(* Each request runs on a thread of its own.  The connection of a request  *)
(* may be lost while the host works on, so that the page starts another    *)
(* run, and the request of that run meets the one before.                  *)
(*                                                                         *)
(* The other two files that are replaced in the same way, the folder       *)
(* pointer and the diagnostic, have no page in front: in their situations  *)
(* calls just happen.                                                      *)
(***************************************************************************)
EXTENDS ProbeRunner

CONSTANTS
  Text,       \* what each call writes, piece by piece
  Situations  \* see SharedTemporary

Calls == Pages \X (1..MaxRuns)

ASSUME ReportPathAssumption ==
  /\ Nobody \notin Calls
  /\ \A w \in Calls : Text[w] \in Seq({Text[w][i] : i \in DOMAIN Text[w]}) \ {<<>>}
  /\ \A s \in Situations : /\ s.protocol \in {"setup", "report", "diagnostic"}
                           /\ s.overlap \in BOOLEAN /\ s.locked \in BOOLEAN

VARIABLES
  situation, call, written, handle, data, temporary, destination, rows, pointedAt

Host == INSTANCE SharedTemporary WITH Writers <- Calls, pc <- call

host == <<situation, call, written, handle, data, temporary, destination, rows, pointedAt>>

HasPages == situation.protocol = "report"

CallOf(p) == <<p, runs[p]>>
Ended(w) == call[w] \in {"done", "failed", "killed"}

--------------------------------------------------------------------------------
(* The request arrives, is validated, and the file is opened. *)
Arrive(p) ==
  /\ pc[p] = "saving" /\ Acceptable(Report(p))
  /\ Host!Open(CallOf(p))
  /\ UNCHANGED vars

(* The host has answered: 200, or an error. *)
Answered(p) ==
  /\ pc[p] = "saving" /\ (Ended(CallOf(p)) \/ ~Acceptable(Report(p)))
  /\ Save(p, IF call[CallOf(p)] = "done" THEN "saved" ELSE "not saved")
  /\ UNCHANGED host

(* The connection is lost; what has arrived goes on. *)
Disconnected(p) == Save(p, "not saved") /\ UNCHANGED host

(* The thread of a request, or a setup, or a failed refresh. *)
Work(w) ==
  /\ \/ ~HasPages /\ Host!Open(w)
     \/ Host!Write(w) \/ Host!Close(w) \/ Host!Replace(w) \/ Host!FailWriting(w)
     \/ Host!CleanUp(w) \/ Host!Record(w)
  /\ UNCHANGED vars

Stopped == Host!Kill /\ UNCHANGED vars

PathInit == Init /\ Host!Init

PathNext ==
  \/ HasPages /\ Probe /\ UNCHANGED host
  \/ \E p \in Pages : Arrive(p) \/ Answered(p) \/ Disconnected(p)
  \/ \E w \in Calls : Work(w)
  \/ Stopped

(* The host takes every request up and works on it to its end; a connection may *)
(* be lost, a process stop, but neither has to.                                  *)
PathSpec ==
  /\ PathInit /\ [][PathNext]_<<vars, host>>
  /\ ProbesGoOn
  /\ \A p \in Pages : WF_<<vars, host>>(Arrive(p)) /\ WF_<<vars, host>>(Answered(p))
  /\ \A w \in Calls : WF_<<vars, host>>(Work(w))

--------------------------------------------------------------------------------
(* Properties *)

(* Types of both components, and that a call belongs to a run that was begun. *)
PathTypeOK ==
  /\ TypeOK
  /\ situation \in Situations
  /\ HasPages => \A w \in Calls : call[w] # "idle" => w[2] <= runs[w[1]]

(* The file that is replaced is whole, whatever calls were stopped half-way
   before; of reports, which may overlap, this is not claimed (setup.py:24-25,
   rta_refresh.py:905-906). *)
AlwaysWhole == Host!AlwaysWhole

(* What is said to be saved is saved: a page shows "saved" only if the very run it
   shows has replaced the report and left its row, and no call leaves a row that
   did not replace the report first, although connections are lost, the page starts
   again and the host may stop.  Where requests do not overlap, the report that was
   put there is that of the run, from its first piece to its last; where they do,
   CompleteResultStored fails (HomePage.tsx:20-47, storage.py:588-611). *)
SavedIsSaved ==
  /\ Host!SavedIsSaved
  /\ \A p \in Pages : message[p] = "saved" =>
       /\ CallOf(p) \in rows \cap Host!Replaced
       /\ ~situation.overlap => Host!PutItsText(CallOf(p))

AtRest(p) == pc[p] = "idle" \/ (pc[p] = "done" /\ message[p] # "none")

(* Every run comes to its end, with a result for every probe and a word about the
   report, although Workers may say nothing at all and hosts may stop: again and
   again each page is at rest, and one that has run its probes has a message then
   (runner.ts:69-72, HomePage.tsx:20-47). *)
RunsEnd == \A p \in Pages : []<>AtRest(p)

--------------------------------------------------------------------------------
(* What the documentation leads a reader to expect and the code does not keep *)

(* docs/PORTABLE_DEPLOYMENT.md:129: "The complete result is atomically stored": not
   if two requests overlap, when a page says "saved" of a file that has the report of
   another run, or pieces of both (storage.py:588-590). *)
CompleteResultStored ==
  \A p \in Pages : message[p] = "saved" => Host!PutItsText(CallOf(p))

(* setup.py:13: "Atomically record one validated local directory path", however
   many setups are running: not if two of them overlap. *)
PointerRecordedAtomically == Host!PointerRecordedAtomically
================================================================================
