---------------------------- MODULE SharedTemporary ----------------------------
(***************************************************************************)
(* Three files are replaced through a temporary file with a fixed name:    *)
(* data/source-root.txt by SETUP.cmd (configure_source_root), the last     *)
(* browser report by the host (save_report), which then records a row of   *)
(* it, and the diagnostic of a failed refresh (_write_failure_diagnostic). *)
(* A behaviour is about one of them.                                       *)
(*                                                                         *)
(* A write is not one step: opening truncates, and the text arrives piece  *)
(* by piece at the place where the writer is.  Two writers of one name     *)
(* write into one file, and go on writing into it after it was renamed.    *)
(***************************************************************************)
EXTENDS Naturals, Sequences, FiniteSets

CONSTANTS
  Writers,    \* one call each: setups, or report and refresh threads
  Text,       \* what each of them writes, piece by piece
  Situations, \* which file, whether two calls may overlap, whether open files are locked
  Nobody      \* a directory entry without a file

Hole == "hole"   \* what is read where nothing was written

VARIABLES
  situation,   \* protocol: "setup", "report" or "diagnostic"; overlap; locked, as on Windows
  pc,          \* where each call is
  written,     \* pieces it has written
  handle,      \* the file it writes to, named after the call that created it
  data,        \* the files
  temporary,   \* directory entry of the temporary name
  destination, \* directory entry of the real name
  rows,        \* compatibility_run
  pointedAt    \* history: what has been put in the destination's place, and by whom

directory == <<temporary, destination>>
vars == <<situation, pc, written, handle, data, directory, rows, pointedAt>>

Replaced == {put.by : put \in pointedAt}

Busy(w) == pc[w] \notin {"idle", "done", "failed", "killed"}
OpenFiles == {handle[w] : w \in {v \in Writers : pc[v] = "writing"}}

(* Windows: a file that is open can be neither renamed nor removed. *)
Locked(file) == situation.locked /\ file \in OpenFiles

Go(w, step) == pc' = [pc EXCEPT ![w] = step] /\ UNCHANGED situation

(* Refreshes write their diagnostic under the refresh lock; people may be told *)
(* to run one setup at a time; reports come in on threads of their own.        *)
MayOpen(w) == pc[w] = "idle" /\ (situation.overlap \/ \A v \in Writers : ~Busy(v))

(* setup.py:26: the temporary name is removed whatever happened; *)
(* what is not there is not missed, what is open cannot go.      *)
LeaveFailed == IF situation.protocol = "setup" THEN "cleanup" ELSE "failed"
LeaveDone == IF situation.protocol = "setup" THEN "cleanup" ELSE "done"

(* Fault: what a call that was stopped has left is written over, not away. *)
OpenOver(w) ==
  /\ MayOpen(w)
  /\ temporary' = IF temporary = Nobody THEN w ELSE temporary
  /\ handle' = [handle EXCEPT ![w] = temporary']
  /\ Go(w, "writing")
  /\ UNCHANGED <<written, data, destination, rows, pointedAt>>

(* open(..., "w") creates the file or truncates the one that is there. *)
Open(w) ==
  /\ MayOpen(w)
  /\ temporary' = IF temporary = Nobody THEN w ELSE temporary
  /\ handle' = [handle EXCEPT ![w] = temporary']
  /\ data' = [data EXCEPT ![temporary'] = <<>>]
  /\ Go(w, "writing")
  /\ UNCHANGED <<written, destination, rows, pointedAt>>

PutAt(text, i, piece) ==
  [j \in 1..(IF i > Len(text) THEN i ELSE Len(text)) |->
     IF j = i THEN piece ELSE IF j <= Len(text) THEN text[j] ELSE Hole]

Write(w) ==
  /\ pc[w] = "writing" /\ written[w] < Len(Text[w])
  /\ written' = [written EXCEPT ![w] = @ + 1]
  /\ data' = [data EXCEPT ![handle[w]] = PutAt(@, written[w] + 1, Text[w][written[w] + 1])]
  /\ UNCHANGED <<situation, pc, handle, directory, rows, pointedAt>>

Close(w) ==
  /\ pc[w] = "writing" /\ written[w] = Len(Text[w])
  /\ Go(w, "closed")
  /\ UNCHANGED <<written, handle, data, directory, rows, pointedAt>>

(* os.replace *)
Replace(w) ==
  /\ pc[w] = "closed" /\ temporary # Nobody /\ ~Locked(temporary) /\ ~Locked(destination)
  /\ destination' = temporary /\ temporary' = Nobody
  /\ pointedAt' = pointedAt \cup {[by |-> w, text |-> data[temporary]]}
  /\ Go(w, IF situation.protocol = "report" THEN "recording" ELSE LeaveDone)
  /\ UNCHANGED <<written, handle, data, rows>>

(* The disk is full, the temporary file was taken away, or it is in use. *)
FailWriting(w) ==
  /\ pc[w] \in {"writing", "closed"}
  /\ Go(w, LeaveFailed)
  /\ UNCHANGED <<written, handle, data, directory, rows, pointedAt>>

(* Windows refuses to remove an open file: then setup says that it failed. *)
CleanUp(w) ==
  /\ pc[w] = "cleanup"
  /\ temporary' = IF Locked(temporary) THEN temporary ELSE Nobody
  /\ Go(w, IF w \in Replaced /\ ~Locked(temporary) THEN "done" ELSE "failed")
  /\ UNCHANGED <<written, handle, data, destination, rows, pointedAt>>

(* Fault: the reply is sent although no row could be written. *)
RecordOrNot(w) ==
  /\ pc[w] = "recording"
  /\ rows' \in {rows, rows \cup {w}}
  /\ Go(w, "done")
  /\ UNCHANGED <<written, handle, data, directory, pointedAt>>

(* initialize_database and INSERT: one of them may find the database locked or *)
(* damaged, and then the request has no reply.                                 *)
Record(w) ==
  /\ pc[w] = "recording"
  /\ \/ rows' = rows \cup {w} /\ Go(w, "done")
     \/ rows' = rows /\ Go(w, "failed")
  /\ UNCHANGED <<written, handle, data, directory, pointedAt>>

(* A setup is a process of its own; the threads of the host end together. *)
Kill ==
  \E dead \in IF situation.protocol = "setup" THEN {{w} : w \in Writers} ELSE {Writers} :
    /\ \E w \in dead : Busy(w)
    /\ pc' = [w \in Writers |-> IF w \in dead /\ Busy(w) THEN "killed" ELSE pc[w]]
    /\ UNCHANGED <<situation, written, handle, data, directory, rows, pointedAt>>

Init ==
  /\ situation \in Situations
  /\ pc = [w \in Writers |-> "idle"] /\ written = [w \in Writers |-> 0]
  /\ handle = [w \in Writers |-> Nobody] /\ data = [w \in Writers |-> <<>>]
  /\ temporary = Nobody /\ destination = Nobody /\ rows = {} /\ pointedAt = {}

Step(w) ==
  \/ Open(w) \/ Write(w) \/ Close(w) \/ Replace(w) \/ FailWriting(w)
  \/ CleanUp(w) \/ Record(w)

Next == Kill \/ \E w \in Writers : Step(w)

Spec == Init /\ [][Next]_vars

--------------------------------------------------------------------------------
(* Properties *)

(* The file is always whole: it has the text of one call from its first piece
   to its last, whatever calls failed or were killed half-way, and whoever left
   a temporary file behind (setup.py:24-25, storage.py:589-590, rta_refresh.py:905-906).
   Calls that overlap may mix their texts. *)
AlwaysWhole ==
  ~situation.overlap /\ destination # Nobody =>
    \E w \in Writers : data[destination] = Text[w]

(* The call has replaced the file, with its own text from the first piece to the last. *)
PutItsText(w) == [by |-> w, text |-> Text[w]] \in pointedAt

(* A call that is answered as saved has replaced the file and, if it was to leave
   a row, has left one; no row is left by a call that did not replace the file; and
   where calls do not overlap, what each of them put there is its own text. *)
SavedIsSaved ==
  /\ \A w \in Writers : pc[w] = "done" => w \in Replaced
  /\ \A w \in Writers : situation.protocol = "report" /\ pc[w] = "done" => w \in rows
  /\ rows \subseteq Replaced
  /\ ~situation.overlap => \A w \in Replaced : PutItsText(w)

--------------------------------------------------------------------------------
(* What the documentation leads a reader to expect and the code does not keep *)

(* setup.py:13: "Atomically record one validated local directory path", however
   many setups are running. *)
PointerRecordedAtomically ==
  situation.protocol = "setup" /\ destination # Nobody =>
    \E w \in Writers : data[destination] = Text[w]
================================================================================
