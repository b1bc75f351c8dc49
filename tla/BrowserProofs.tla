----------------------------- MODULE BrowserProofs -----------------------------
(***************************************************************************)
(* Proofs about what happens in the browser, and about what it is told.    *)
(*                                                                         *)
(* The compatibility page and the files that are replaced through a        *)
(* temporary one (ReportPath): for every number of pages, probes and calls, *)
(* every text and every situation of the three files.  The readiness and   *)
(* the Operate page (EvidencePages): for every number of generations,      *)
(* refreshes and answers under way.  The two share no state.               *)
(***************************************************************************)
EXTENDS ReportPath, EvidencePages, FoldLemmas

(* The compatibility report *)

CallStages ==
  {"idle", "writing", "closed", "recording", "cleanup", "done", "failed", "killed"}

(* A function of the calls, whatever its values. *)
OfCalls(f) == f = [w \in Calls |-> f[w]]

(* What a call has done at the place where it is. *)
Followed ==
  /\ call \in [Calls -> CallStages] /\ situation \in Situations
  /\ temporary \in Calls \cup {Nobody} /\ destination \in Calls \cup {Nobody}
  /\ OfCalls(handle) /\ OfCalls(data) /\ written \in [Calls -> Nat]
  /\ \A w \in Calls :
       /\ call[w] = "recording" => situation.protocol = "report" /\ w \in Host!Replaced
       /\ call[w] = "cleanup" => situation.protocol = "setup"
       /\ call[w] = "done" =>
            w \in Host!Replaced /\ (situation.protocol = "report" => w \in rows)
  /\ rows \subseteq Host!Replaced

Beginning(text, n) == [i \in 1..n |-> text[i]]

(* Without overlap one call works at a time; it has the temporary file open, which no
   other call has touched since and which is not the file that is replaced. *)
Alone == \A v, w \in Calls : Host!Busy(v) /\ Host!Busy(w) => v = w

FilesOpened ==
  /\ temporary # Nobody => call[temporary] # "idle"
  /\ destination # Nobody => call[destination] # "idle" /\ destination # temporary

OwnFile ==
  \A w \in Calls :
    /\ call[w] = "idle" => written[w] = 0
    /\ call[w] \in {"writing", "closed"} =>
         /\ temporary # Nobody /\ handle[w] = temporary
         /\ written[w] <= Len(Text[w]) /\ data[temporary] = Beginning(Text[w], written[w])
         /\ call[w] = "closed" => written[w] = Len(Text[w])

Whole == destination # Nobody => \E w \in Calls : data[destination] = Text[w]

OwnTexts == \A w \in Host!Replaced : Host!PutItsText(w)

Orderly == ~situation.overlap => Alone /\ FilesOpened /\ OwnFile /\ Whole /\ OwnTexts

HostInv == Followed /\ Orderly

--------------------------------------------------------------------------------
(* Texts are sequences, and nobody is a call. *)
LEMMA Texts ==
  ASSUME NEW w \in Calls
  PROVE  /\ Len(Text[w]) \in Nat \ {0} /\ Text[w] = Beginning(Text[w], Len(Text[w]))
         /\ w # Nobody
<1> DEFINE Pieces == {Text[w][i] : i \in DOMAIN Text[w]}
<1>1. Text[w] \in Seq(Pieces) /\ Text[w] # <<>> /\ w # Nobody
  BY ReportPathAssumption
<1> HIDE DEF Pieces
<1> QED
  BY <1>1 DEF Beginning

(* A piece more is put behind what is there. *)
LEMMA PieceMore ==
  ASSUME NEW text, NEW n \in Nat
  PROVE  Host!PutAt(Beginning(text, n), n + 1, text[n + 1]) = Beginning(text, n + 1)
<1>1. Len(Beginning(text, n)) = n
  BY DEF Beginning
<1> QED
  BY <1>1 DEF Host!PutAt, Beginning

(* As long as nothing is replaced, what was put there is as it was. *)
LEMMA TextsStay ==
  ASSUME HostInv, ~situation.overlap, UNCHANGED pointedAt
  PROVE  OwnTexts' /\ Host!Replaced' = Host!Replaced
BY DEF HostInv, Orderly, OwnTexts, Host!Replaced, Host!PutItsText

(* A call opens its file: a new one, or what an earlier call has left, emptied. *)
LEMMA Opens ==
  ASSUME HostInv, NEW w \in Calls, Host!Open(w) PROVE HostInv'
<1>1. call[w] = "idle" /\ call' = [call EXCEPT ![w] = "writing"]
  BY DEF Host!Open, Host!MayOpen, Host!Go
<1>2. /\ temporary' = (IF temporary = Nobody THEN w ELSE temporary)
      /\ handle' = [handle EXCEPT ![w] = temporary']
      /\ data' = [data EXCEPT ![temporary'] = <<>>]
      /\ UNCHANGED <<situation, written, destination, rows, pointedAt>>
  BY DEF Host!Open, Host!Go
<1>3. temporary' \in Calls /\ temporary' # Nobody
  BY <1>2, Texts DEF HostInv, Followed
<1>4. Followed'
  BY <1>1, <1>2, <1>3 DEF HostInv, Followed, CallStages, OfCalls, Host!Replaced
<1>5. ASSUME ~situation.overlap PROVE (Alone /\ FilesOpened /\ OwnFile /\ Whole /\ OwnTexts)'
  <2>1. \A v \in Calls : ~Host!Busy(v)
    BY <1>5 DEF Host!Open, Host!MayOpen
  <2>2. \A v \in Calls : v # w => call'[v] = call[v] /\ ~Host!Busy(v)'
    BY <1>1, <2>1 DEF HostInv, Followed, Host!Busy
  <2>3. Alone'
    BY <2>2 DEF Alone
  <2>4. temporary' # destination /\ call'[w] = "writing" /\ call'[temporary'] # "idle"
    BY <1>1, <1>2, <1>5, Texts DEF HostInv, Followed, Orderly, FilesOpened
  <2>5. FilesOpened'
    BY <1>1, <1>2, <1>5, <2>4 DEF HostInv, Followed, Orderly, FilesOpened
  <2>6. OwnFile'
    <3>1. ASSUME NEW v \in Calls, v # w PROVE call'[v] \notin {"writing", "closed"}
      BY <2>1, <2>2, <3>1 DEF Host!Busy
    <3>2. written[w] = 0 /\ written' = written
      BY <1>1, <1>2, <1>5 DEF HostInv, Orderly, OwnFile
    <3>3. handle'[w] = temporary' /\ data'[temporary'] = <<>>
      BY <1>2, <1>3 DEF HostInv, Followed, OfCalls, Host!Replaced
    <3>4. Beginning(Text[w], 0) = <<>>
      BY DEF Beginning
    <3>5. \A v \in Calls : call'[v] = "idle" => written'[v] = 0
      BY <1>1, <1>2, <1>5 DEF HostInv, Orderly, OwnFile, Followed
    <3> QED
      BY <1>3, <2>4, <3>1, <3>2, <3>3, <3>4, <3>5, Texts DEF OwnFile
  <2>7. Whole'
    BY <1>2, <1>3, <1>5, <2>4 DEF HostInv, Followed, Orderly, Whole, OfCalls
  <2> QED
    BY <1>2, <1>5, <2>3, <2>5, <2>6, <2>7, TextsStay
<1> QED
  BY <1>2, <1>4, <1>5 DEF HostInv, Orderly

(* It writes a piece. *)
LEMMA Writes ==
  ASSUME HostInv, NEW w \in Calls, Host!Write(w) PROVE HostInv'
<1>1. /\ call[w] = "writing" /\ written[w] < Len(Text[w])
      /\ written' = [written EXCEPT ![w] = written[w] + 1]
      /\ data' = [data EXCEPT ![handle[w]] =
                    Host!PutAt(data[handle[w]], written[w] + 1, Text[w][written[w] + 1])]
      /\ UNCHANGED <<situation, call, handle, temporary, destination, rows, pointedAt>>
  BY DEF Host!Write, Host!directory
<1>2. Followed'
  BY <1>1 DEF HostInv, Followed, OfCalls, Host!Replaced
<1>3. ASSUME ~situation.overlap PROVE (Alone /\ FilesOpened /\ OwnFile /\ Whole /\ OwnTexts)'
  <2>1. Alone' /\ FilesOpened'
    BY <1>1, <1>3 DEF HostInv, Orderly, Alone, FilesOpened, Host!Busy
  <2>2. /\ temporary \in Calls /\ handle[w] = temporary /\ written[w] \in Nat
        /\ data[temporary] = Beginning(Text[w], written[w]) /\ temporary # destination
    BY <1>1, <1>3 DEF HostInv, Followed, Orderly, OwnFile, FilesOpened
  <2>3. data'[temporary] = Beginning(Text[w], written[w] + 1)
    BY <1>1, <2>2, PieceMore DEF HostInv, Followed, OfCalls, Host!Replaced
  <2>4. \A v \in Calls : call[v] \in {"writing", "closed"} => v = w
    BY <1>1, <1>3 DEF HostInv, Orderly, Alone, Host!Busy
  <2>5. OwnFile'
    <3>1. written'[w] = written[w] + 1 /\ written[w] + 1 <= Len(Text[w])
      BY <1>1, <2>2, Texts DEF HostInv, Followed
    <3>2. \A v \in Calls : v # w => written'[v] = written[v]
      BY <1>1 DEF HostInv, Followed
    <3>3. /\ \A v \in Calls : call[v] = "idle" => written[v] = 0
          /\ temporary # Nobody
      BY <1>1, <1>3 DEF HostInv, Orderly, OwnFile
    <3> QED
      BY <1>1, <2>2, <2>3, <2>4, <3>1, <3>2, <3>3 DEF OwnFile
  <2>6. Whole'
    BY <1>1, <1>3, <2>2 DEF HostInv, Followed, Orderly, Whole, OfCalls
  <2> QED
    BY <1>1, <1>3, <2>1, <2>5, <2>6, TextsStay
<1> QED
  BY <1>1, <1>2, <1>3 DEF HostInv, Orderly

(* A call goes on without touching a file, fails or is stopped. *)
LEMMA CallsGoOn ==
  ASSUME HostInv, NEW dead \in SUBSET Calls, call' \in [Calls -> CallStages],
         \A v \in Calls : v \notin dead => call'[v] = call[v],
         \A v \in dead : /\ call[v] # "idle" /\ call'[v] # "idle"
                         /\ Host!Busy(v)' => Host!Busy(v)
                         /\ call'[v] = "closed" =>
                              call[v] \in {"writing", "closed"} /\ written[v] = Len(Text[v])
                         /\ call'[v] \notin {"writing", "recording", "done"}
                         /\ call'[v] = "cleanup" => situation.protocol = "setup",
         UNCHANGED <<situation, written, handle, data, temporary, destination, rows, pointedAt>>
  PROVE  HostInv'
<1>1. Followed'
  BY DEF HostInv, Followed, OfCalls, Host!Replaced
<1>2. ASSUME ~situation.overlap PROVE (Alone /\ FilesOpened /\ OwnFile /\ Whole /\ OwnTexts)'
  <2>1. Alone'
    <3>1. \A v \in Calls : Host!Busy(v)' => Host!Busy(v)
      BY DEF Host!Busy
    <3> QED
      BY <1>2, <3>1 DEF HostInv, Orderly, Alone
  <2>2. FilesOpened'
    BY <1>2 DEF HostInv, Followed, Orderly, FilesOpened
  <2>3. OwnFile'
    BY <1>2 DEF HostInv, Orderly, OwnFile
  <2>4. Whole'
    BY <1>2 DEF HostInv, Orderly, Whole
  <2> QED
    BY <1>2, <2>1, <2>2, <2>3, <2>4, TextsStay
<1> QED
  BY <1>1, <1>2 DEF HostInv, Orderly

(* The file is closed when all is written. *)
LEMMA Closes ==
  ASSUME HostInv, NEW w \in Calls, Host!Close(w) PROVE HostInv'
<1>1. /\ call[w] = "writing" /\ written[w] = Len(Text[w])
      /\ call' = [call EXCEPT ![w] = "closed"]
      /\ UNCHANGED <<situation, written, handle, data, temporary, destination, rows, pointedAt>>
  BY DEF Host!Close, Host!Go, Host!directory
<1>2. call' \in [Calls -> CallStages] /\ call'[w] = "closed"
      /\ \A v \in Calls : v \notin {w} => call'[v] = call[v]
  BY <1>1 DEF HostInv, Followed, CallStages
<1>3. Host!Busy(w)
  BY <1>1 DEF Host!Busy
<1> DEFINE dead == {w}
<1>4. /\ dead \in SUBSET Calls
      /\ \A v \in Calls : v \notin dead => call'[v] = call[v]
      /\ \A v \in dead :
           /\ call[v] # "idle" /\ call'[v] # "idle" /\ (Host!Busy(v)' => Host!Busy(v))
           /\ call'[v] = "closed" =>
                call[v] \in {"writing", "closed"} /\ written[v] = Len(Text[v])
           /\ call'[v] \notin {"writing", "recording", "done"}
           /\ call'[v] = "cleanup" => situation.protocol = "setup"
  BY <1>1, <1>2, <1>3
<1> HIDE DEF dead
<1> QED
  BY <1>1, <1>2, <1>4, CallsGoOn

(* It fails; of setups, what is left is taken away. *)
LEMMA FailsWriting ==
  ASSUME HostInv, NEW w \in Calls, Host!FailWriting(w) PROVE HostInv'
<1>1. /\ call[w] \in {"writing", "closed"}
      /\ call' = [call EXCEPT ![w] = Host!LeaveFailed]
      /\ UNCHANGED <<situation, written, handle, data, temporary, destination, rows, pointedAt>>
  BY DEF Host!FailWriting, Host!Go, Host!directory
<1>2. \/ Host!LeaveFailed = "failed"
      \/ Host!LeaveFailed = "cleanup" /\ situation.protocol = "setup"
  BY DEF Host!LeaveFailed
<1>3. /\ call' \in [Calls -> CallStages] /\ call'[w] = Host!LeaveFailed
      /\ \A v \in Calls : v \notin {w} => call'[v] = call[v]
  BY <1>1, <1>2 DEF HostInv, Followed, CallStages
<1>4. Host!Busy(w)
  BY <1>1 DEF Host!Busy
<1> QED
  BY <1>1, <1>2, <1>3, <1>4, CallsGoOn

(* A process is stopped, and with it all the calls it has. *)
LEMMA Kills ==
  ASSUME HostInv, Host!Kill PROVE HostInv'
<1>1. PICK dead \in SUBSET Calls :
        /\ call' = [w \in Calls |->
                      IF w \in dead /\ Host!Busy(w) THEN "killed" ELSE call[w]]
        /\ UNCHANGED <<situation, written, handle, data, temporary, destination, rows, pointedAt>>
  BY DEF Host!Kill, Host!directory
<1> DEFINE gone == {w \in dead : Host!Busy(w)}
<1>2. /\ call' \in [Calls -> CallStages]
      /\ \A v \in Calls : v \notin gone => call'[v] = call[v]
      /\ \A v \in gone : call'[v] = "killed" /\ call[v] # "idle"
  BY <1>1 DEF HostInv, Followed, CallStages, Host!Busy
<1>3. gone \in SUBSET Calls /\ \A v \in gone : Host!Busy(v)
  OBVIOUS
<1> HIDE DEF gone
<1> QED
  BY <1>1, <1>2, <1>3, CallsGoOn

(* The temporary file, written to its end, takes the place of the file. *)
LEMMA Replaces ==
  ASSUME HostInv, NEW w \in Calls, Host!Replace(w) PROVE HostInv'
<1> DEFINE next == IF situation.protocol = "report" THEN "recording" ELSE Host!LeaveDone
<1>1. /\ call[w] = "closed" /\ temporary # Nobody
      /\ call' = [call EXCEPT ![w] = next]
      /\ destination' = temporary /\ temporary' = Nobody
      /\ pointedAt' = pointedAt \cup {[by |-> w, text |-> data[temporary]]}
      /\ UNCHANGED <<situation, written, handle, data, rows>>
  BY DEF Host!Replace, Host!Go
<1>2. \/ next = "recording" /\ situation.protocol = "report"
      \/ next = "cleanup" /\ situation.protocol = "setup"
      \/ next = "done" /\ situation.protocol # "report"
  BY DEF Host!LeaveDone
<1> HIDE DEF next
<1>5. Host!Replaced' = Host!Replaced \cup {w}
  <2> DEFINE put == [by |-> w, text |-> data[temporary]]
  <2>1. put.by = w /\ pointedAt' = pointedAt \cup {put}
    BY <1>1
  <2> HIDE DEF put
  <2> QED
    BY <2>1 DEF Host!Replaced
<1>3. Followed'
  BY <1>1, <1>2, <1>5 DEF HostInv, Followed, CallStages, OfCalls, Host!Replaced
<1>4. ASSUME ~situation.overlap PROVE (Alone /\ FilesOpened /\ OwnFile /\ Whole /\ OwnTexts)'
  <2>1. \A v \in Calls : v # w => call'[v] = call[v] /\ ~Host!Busy(v)
    BY <1>1, <1>4 DEF HostInv, Followed, Orderly, Alone, Host!Busy
  <2>2. call'[w] = next
    BY <1>1 DEF HostInv, Followed
  <2>3. Alone'
    BY <2>1 DEF Alone, Host!Busy
  <2>4. FilesOpened'
    <3>1. call[temporary] # "idle" /\ temporary \in Calls
      BY <1>1, <1>4 DEF HostInv, Followed, Orderly, FilesOpened
    <3> QED
      BY <1>1, <1>2, <2>1, <2>2, <3>1 DEF FilesOpened
  <2>5. OwnFile'
    BY <1>1, <1>2, <1>4, <2>1, <2>2 DEF HostInv, Orderly, OwnFile, Host!Busy
  <2>6. data[temporary] = Text[w]
    BY <1>1, <1>4, Texts DEF HostInv, Orderly, OwnFile
  <2>7. OwnTexts'
    BY <1>1, <1>4, <1>5, <2>6 DEF HostInv, Orderly, OwnTexts, Host!PutItsText
  <2> QED
    BY <1>1, <2>3, <2>4, <2>5, <2>6, <2>7 DEF Whole
<1> QED
  BY <1>1, <1>3, <1>4 DEF HostInv, Orderly

(* The temporary name is removed. *)
LEMMA CleansUp ==
  ASSUME HostInv, NEW w \in Calls, Host!CleanUp(w) PROVE HostInv'
<1>1. PICK next \in {"done", "failed"} :
        /\ call[w] = "cleanup" /\ call' = [call EXCEPT ![w] = next]
        /\ next = "done" => w \in Host!Replaced
        /\ temporary' \in {temporary, Nobody}
        /\ UNCHANGED <<situation, written, handle, data, destination, rows, pointedAt>>
  BY DEF Host!CleanUp, Host!Go
<1>2. call[w] = "cleanup" => situation.protocol = "setup"
  BY DEF HostInv, Followed
<1>3. Followed'
  BY <1>1, <1>2 DEF HostInv, Followed, CallStages, OfCalls, Host!Replaced
<1>4. ASSUME ~situation.overlap PROVE (Alone /\ FilesOpened /\ OwnFile /\ Whole /\ OwnTexts)'
  <2>1. /\ \A v \in Calls : v # w => call'[v] = call[v] /\ ~Host!Busy(v)
        /\ call'[w] = next
    BY <1>1, <1>4 DEF HostInv, Followed, Orderly, Alone, Host!Busy
  <2>2. Alone'
    BY <2>1 DEF Alone, Host!Busy
  <2>3. FilesOpened'
    BY <1>1, <1>4, <2>1 DEF HostInv, Followed, Orderly, FilesOpened
  <2>4. OwnFile'
    BY <1>1, <1>4, <2>1 DEF HostInv, Orderly, OwnFile, Host!Busy
  <2> QED
    BY <1>1, <1>4, <2>2, <2>3, <2>4, TextsStay DEF HostInv, Orderly, Whole
<1> QED
  BY <1>1, <1>3, <1>4 DEF HostInv, Orderly

(* A row is left of the report, or the call fails. *)
LEMMA Records ==
  ASSUME HostInv, NEW w \in Calls, Host!Record(w) PROVE HostInv'
<1>1. PICK next \in {"done", "failed"} :
        /\ call[w] = "recording" /\ call' = [call EXCEPT ![w] = next]
        /\ rows' = IF next = "done" THEN rows \cup {w} ELSE rows
        /\ UNCHANGED <<situation, written, handle, data, temporary, destination, pointedAt>>
  BY DEF Host!Record, Host!Go, Host!directory
<1>2. Followed'
  BY <1>1 DEF HostInv, Followed, CallStages, OfCalls, Host!Replaced
<1>3. ASSUME ~situation.overlap PROVE (Alone /\ FilesOpened /\ OwnFile /\ Whole /\ OwnTexts)'
  <2>1. /\ \A v \in Calls : v # w => call'[v] = call[v] /\ ~Host!Busy(v)
        /\ call'[w] = next
    BY <1>1, <1>3 DEF HostInv, Followed, Orderly, Alone, Host!Busy
  <2>2. Alone'
    BY <2>1 DEF Alone, Host!Busy
  <2>3. FilesOpened'
    BY <1>1, <1>3, <2>1 DEF HostInv, Followed, Orderly, FilesOpened
  <2>4. OwnFile'
    BY <1>1, <1>3, <2>1 DEF HostInv, Orderly, OwnFile, Host!Busy
  <2> QED
    BY <1>1, <1>3, <2>2, <2>3, <2>4, TextsStay DEF HostInv, Orderly, Whole
<1> QED
  BY <1>1, <1>2, <1>3 DEF HostInv, Orderly

(* At the start no call has been made. *)
LEMMA HostBegins ==
  ASSUME Host!Init PROVE HostInv
<1>1. Followed
  BY DEF Host!Init, Followed, CallStages, OfCalls, Host!Replaced
<1>2. Alone /\ FilesOpened /\ OwnFile /\ Whole /\ OwnTexts
  BY DEF Host!Init, Alone, FilesOpened, OwnFile, Whole, OwnTexts, Host!Busy, Host!Replaced
<1> QED
  BY <1>1, <1>2 DEF HostInv, Orderly
--------------------------------------------------------------------------------
(* Where the pages and their Workers can be. *)

Outcome == [name : Nat, status : {"pass", "fail"}]

WorkerStages == {"none", "working", "writing", "counted", "written", "reading", "answered"}

PagesTyped ==
  /\ pc \in [Pages -> {"idle", "probing", "saving", "done"}]
  /\ runs \in [Pages -> 0..MaxRuns] /\ results \in [Pages -> Seq(Outcome)]
  /\ message \in [Pages -> {"none", "saved", "not saved"}]
  /\ worker \in [Pages \X Probes -> WorkerStages] /\ made \in [Pages -> SUBSET Probes]
  /\ mail \in [Pages \X Probes -> {NoMail, "ok", "bad", "error"}]
  /\ opened \in Pages \cup {Nobody}

(* A run that has begun has a number; it has one result for each probe behind it. *)
Running ==
  \A p \in Pages :
    /\ Len(results[p]) <= Len(Kinds)
    /\ pc[p] \in {"saving", "done"} => Len(results[p]) = Len(Kinds)
    /\ pc[p] = "probing" => Len(results[p]) < Len(Kinds)
    /\ pc[p] # "idle" => runs[p] # 0

(* A Worker is one of the present probe of the present run; without it there is no mail. *)
Due(p, i) == /\ pc[p] = "probing" /\ i = Current(p) /\ i \in made[p]
             /\ Kinds[i] \in {"worker", "opfs"}

Workers ==
  /\ \A p \in Pages, i \in Probes : worker[<<p, i>>] # "none" => Due(p, i)
  /\ \A p \in Pages, i \in Probes : mail[<<p, i>>] # NoMail => worker[<<p, i>>] # "none"

PageInv == PagesTyped /\ Running /\ Workers /\ PassesAreOfThisRun

(* Only reports have pages, which make one call for each of their runs. *)
Between ==
  /\ ~HasPages => \A p \in Pages : pc[p] = "idle"
  /\ HasPages => \A w \in Calls : call[w] # "idle" => w[2] <= runs[w[1]]
  /\ \A p \in Pages : message[p] = "saved" => pc[p] = "done" /\ call[CallOf(p)] = "done"

PathInv == HostInv /\ PageInv /\ Between

(* There is a probe, and the probes are numbered. *)
LEMMA Numbered ==
  /\ MaxRuns \in Nat /\ Len(Kinds) \in Nat \ {0} /\ Probes = 1..Len(Kinds)
  /\ \A i \in Probes : Kinds[i] \in {"host", "worker", "opfs"}
BY ProbeRunnerAssumption DEF Probes

(* The results of a page are a sequence, which may begin anew or grow. *)
LEMMA ResultsOf ==
  ASSUME PagesTyped, NEW p \in Pages
  PROVE  /\ results[p] \in Seq(Outcome) /\ Len(results[p]) \in Nat
         /\ \A list \in Seq(Outcome) :
              [results EXCEPT ![p] = list] \in [Pages -> Seq(Outcome)]
<1>1. results \in [Pages -> Seq(Outcome)]
  BY DEF PagesTyped
<1> QED
  BY <1>1

(* The bound on the runs of all pages bounds those of each. *)
LEMMA RunsBounded ==
  ASSUME PagesTyped, NEW p \in Pages, MapThenSumSet(LAMBDA q : runs[q], Pages) < MaxRuns
  PROVE  runs[p] < MaxRuns
<1> DEFINE it == CHOOSE it : Sums(it, runs, Pages)
<1>1. MapThenSumSet(LAMBDA q : runs[q], Pages) = it[Pages]
  BY DEF MapThenSumSet, MapThenFoldSet, Sums, First
<1>2. \A q \in Pages : runs[q] \in Nat
  <2>1. runs \in [Pages -> 0..MaxRuns] /\ MaxRuns \in Nat
    BY Numbered DEF PagesTyped
  <2> QED
    BY <2>1
<1>3. Sums(it, runs, Pages)
  <2>1. IsFiniteSet(Pages) /\ \A q \in Pages : runs[q] \in Int
    BY <1>2, ProbeRunnerAssumption
  <2> QED
    BY <2>1, SumExists
<1> HIDE DEF it
<1>4. it[Pages] \in Nat /\ runs[p] <= it[Pages]
  BY <1>2, <1>3, SumAtLeast, ProbeRunnerAssumption
<1>5. it[Pages] < MaxRuns
  BY <1>1
<1> QED
  BY <1>2, <1>4, <1>5, ProbeRunnerAssumption

(* A page that probes is at one of the probes. *)
LEMMA AtProbe ==
  ASSUME PageInv, NEW p \in Pages, pc[p] = "probing"
  PROVE  Current(p) \in Probes /\ <<p, Current(p)>> \in Pages \X Probes
<1>1. Len(results[p]) \in Nat /\ Len(results[p]) < Len(Kinds)
  BY ResultsOf DEF PageInv, Running
<1> QED
  BY <1>1, Numbered DEF Current

(* One Worker does something. *)
LEMMA OneWorker ==
  ASSUME PagesTyped, NEW p \in Pages, NEW n \in Probes,
         NEW stage \in WorkerStages,
         worker' = [worker EXCEPT ![<<p, n>>] = stage]
  PROVE  /\ worker' \in [Pages \X Probes -> WorkerStages]
         /\ \A q \in Pages, i \in Probes :
              worker'[<<q, i>>] = IF q = p /\ i = n THEN stage ELSE worker[<<q, i>>]
BY DEF PagesTyped

(* It sends something, or what it has sent is dropped. *)
LEMMA OneMail ==
  ASSUME PagesTyped, NEW p \in Pages, NEW n \in Probes, NEW event,
         mail' = [mail EXCEPT ![<<p, n>>] = event]
  PROVE  \A q \in Pages, i \in Probes :
           mail'[<<q, i>>] = IF q = p /\ i = n THEN event ELSE mail[<<q, i>>]
<1>1. mail = [w \in Pages \X Probes |-> mail[w]]
  BY DEF PagesTyped
<1> QED
  BY <1>1

(* The probes are run once more: no Worker is left of the last time. *)
LEMMA RunsAll ==
  ASSUME PageInv, NEW p \in Pages, RunAll(p) PROVE PageInv'
<1>1. /\ pc[p] \in {"idle", "done"} /\ runs[p] < MaxRuns
      /\ pc' = [pc EXCEPT ![p] = "probing"] /\ runs' = [runs EXCEPT ![p] = runs[p] + 1]
      /\ results' = [results EXCEPT ![p] = <<>>]
      /\ message' = [message EXCEPT ![p] = "none"]
      /\ made' = [made EXCEPT ![p] = {}] /\ UNCHANGED <<worker, mail, opened>>
  BY RunsBounded DEF RunAll, PageInv, database
<1>2. <<>> \in Seq(Outcome) /\ Len(<<>>) = 0
  OBVIOUS
<1>3. /\ runs' \in [Pages -> 0..MaxRuns] /\ runs'[p] # 0
      /\ \A q \in Pages : q # p => runs'[q] = runs[q]
  <2>1. runs \in [Pages -> 0..MaxRuns] /\ MaxRuns \in Nat
    BY Numbered DEF PageInv, PagesTyped
  <2>2. runs[p] + 1 \in 0..MaxRuns /\ runs[p] + 1 # 0
    BY <1>1, <2>1
  <2> QED
    BY <1>1, <2>1, <2>2
<1>6. results' \in [Pages -> Seq(Outcome)] /\ Len(results'[p]) = 0
  BY <1>1, <1>2, ResultsOf DEF PageInv, PagesTyped
<1>7. PagesTyped'
  BY <1>1, <1>3, <1>6 DEF PageInv, PagesTyped
<1>4. Running'
  <2>1. /\ \A q \in Pages : q # p => results'[q] = results[q] /\ pc'[q] = pc[q]
        /\ pc'[p] = "probing"
    BY <1>1 DEF PageInv, PagesTyped
  <2> SUFFICES ASSUME NEW q \in Pages
               PROVE  /\ Len(results'[q]) <= Len(Kinds)
                      /\ pc'[q] \in {"saving", "done"} => Len(results'[q]) = Len(Kinds)
                      /\ pc'[q] = "probing" => Len(results'[q]) < Len(Kinds)
                      /\ pc'[q] # "idle" => runs'[q] # 0
    BY DEF Running
  <2>2. CASE q = p
    <3>1. 0 < Len(Kinds) /\ 0 <= Len(Kinds)
      BY Numbered
    <3> QED
      BY <1>3, <1>6, <2>1, <2>2, <3>1
  <2>3. CASE q # p
    BY <1>3, <2>1, <2>3 DEF PageInv, Running
  <2> QED
    BY <2>2, <2>3
<1>5. Workers'
  <2>1. \A q \in Pages : q # p => /\ results'[q] = results[q] /\ made'[q] = made[q]
                                 /\ pc'[q] = pc[q]
    BY <1>1 DEF PageInv, PagesTyped
  <2>2. \A i \in Probes : worker[<<p, i>>] = "none"
    BY <1>1 DEF PageInv, Workers, Due
  <2>3. \A q \in Pages, i \in Probes : q # p /\ Due(q, i) => Due(q, i)'
    BY <2>1 DEF Due, Current
  <2> QED
    BY <1>1, <2>2, <2>3 DEF PageInv, Workers
<1>8. PassesAreOfThisRun'
  <2>1. \A q \in Pages : q # p => results'[q] = results[q] /\ made'[q] = made[q]
    BY <1>1 DEF PageInv, PagesTyped
  <2>2. DOMAIN results'[p] = {}
    BY <1>6
  <2> QED
    BY <2>1, <2>2 DEF PageInv, PassesAreOfThisRun
<1> QED
  BY <1>7, <1>4, <1>5, <1>8 DEF PageInv

(* A result is there, and the Worker of its probe, if any, is gone. *)
LEMMA Settles ==
  ASSUME PageInv, NEW p \in Pages, pc[p] = "probing",
         NEW status \in {"pass", "fail"}, Settle(p, status),
         mail' \in [Pages \X Probes -> {NoMail, "ok", "bad", "error"}],
         opened' \in Pages \cup {Nobody},
         UNCHANGED made,
         \/ /\ worker' = [worker EXCEPT ![<<p, Current(p)>>] = "none"]
            /\ mail' = [mail EXCEPT ![<<p, Current(p)>>] = NoMail]
         \/ worker' = worker /\ mail' = mail /\ Kinds[Current(p)] = "host",
         Kinds[Current(p)] # "host" /\ status = "pass" => Current(p) \in made[p]
  PROVE  PageInv'
<1> DEFINE n == Current(p)
           result == [name |-> n, status |-> status]
<1>1. n \in Probes /\ n = Len(results[p]) + 1 /\ n \in Nat
  BY AtProbe, Numbered DEF Current
<1>2. /\ results' = [results EXCEPT ![p] = Append(results[p], result)]
      /\ pc' = [pc EXCEPT ![p] = IF n = Len(Kinds) THEN "saving" ELSE "probing"]
      /\ UNCHANGED <<runs, message>>
  BY DEF Settle
<1>3. /\ \/ /\ worker' = [worker EXCEPT ![<<p, n>>] = "none"]
            /\ mail' = [mail EXCEPT ![<<p, n>>] = NoMail]
         \/ worker' = worker /\ mail' = mail /\ Kinds[n] = "host"
      /\ Kinds[n] # "host" /\ status = "pass" => n \in made[p]
  OBVIOUS
<1>4. result \in Outcome /\ result.status = status
  BY <1>1 DEF Outcome
<1> HIDE DEF n, result
<1>5. /\ results' \in [Pages -> Seq(Outcome)] /\ Len(results'[p]) = n
      /\ \A q \in Pages : q # p => results'[q] = results[q] /\ pc'[q] = pc[q]
      /\ pc'[p] = IF n = Len(Kinds) THEN "saving" ELSE "probing"
      /\ results'[p] = Append(results[p], result)
  <2>1. /\ results[p] \in Seq(Outcome) /\ Len(results[p]) \in Nat
        /\ Append(results[p], result) \in Seq(Outcome)
        /\ Len(Append(results[p], result)) = Len(results[p]) + 1
    BY <1>4, ResultsOf DEF PageInv
  <2>2. results' \in [Pages -> Seq(Outcome)] /\ results'[p] = Append(results[p], result)
    BY <1>2, <2>1, ResultsOf DEF PageInv, PagesTyped
  <2> QED
    BY <1>1, <1>2, <2>1, <2>2 DEF PageInv, PagesTyped
<1>6. /\ worker' \in [Pages \X Probes -> WorkerStages]
      /\ \A q \in Pages, i \in Probes :
           /\ worker'[<<q, i>>] # "none" =>
                worker[<<q, i>>] # "none" /\ (q # p \/ i # n \/ Kinds[n] = "host")
           /\ mail'[<<q, i>>] # NoMail => worker'[<<q, i>>] # "none"
  <2>1. CASE /\ worker' = [worker EXCEPT ![<<p, n>>] = "none"]
             /\ mail' = [mail EXCEPT ![<<p, n>>] = NoMail]
    <3>1. \A q \in Pages, i \in Probes :
            mail'[<<q, i>>] = IF q = p /\ i = n THEN NoMail ELSE mail[<<q, i>>]
      BY <1>1, <2>1, OneMail DEF PageInv
    <3>2. "none" \in WorkerStages
      BY DEF WorkerStages
    <3>3. \A q \in Pages, i \in Probes :
            worker'[<<q, i>>] = IF q = p /\ i = n THEN "none" ELSE worker[<<q, i>>]
      BY <1>1, <2>1, <3>2, OneWorker DEF PageInv
    <3>4. worker' \in [Pages \X Probes -> WorkerStages]
      BY <2>1 DEF PageInv, PagesTyped, WorkerStages
    <3>5. \A q \in Pages, i \in Probes :
            mail[<<q, i>>] # NoMail => worker[<<q, i>>] # "none"
      BY DEF PageInv, Workers
    <3> QED
      BY <3>1, <3>3, <3>4, <3>5
  <2>2. CASE worker' = worker /\ mail' = mail /\ Kinds[n] = "host"
    BY <2>2 DEF PageInv, PagesTyped, Workers
  <2> QED
    BY <1>3, <2>1, <2>2
<1>7. PagesTyped'
  BY <1>2, <1>5, <1>6 DEF PageInv, PagesTyped
<1>8. Running'
  BY <1>1, <1>2, <1>5, Numbered DEF PageInv, Running
<1>9. Workers'
  <2> SUFFICES ASSUME NEW q \in Pages, NEW i \in Probes, worker'[<<q, i>>] # "none"
               PROVE  /\ pc'[q] = "probing" /\ i = Len(results'[q]) + 1
                      /\ Kinds[i] \in {"worker", "opfs"} /\ i \in made[q]
    BY <1>6 DEF Workers, Due, Current
  <2>1. worker[<<q, i>>] # "none" /\ (q # p \/ i # n \/ Kinds[n] = "host")
    BY <1>6
  <2>2. /\ pc[q] = "probing" /\ i = Len(results[q]) + 1 /\ Kinds[i] \in {"worker", "opfs"}
        /\ i \in made[q]
    BY <2>1 DEF PageInv, Workers, Due, Current
  <2> QED
    BY <1>1, <1>5, <2>1, <2>2
<1>10. PassesAreOfThisRun'
  <2> SUFFICES ASSUME NEW q \in Pages, NEW i \in DOMAIN results'[q],
                      Kinds[i] # "host", results'[q][i].status = "pass"
               PROVE  i \in made[q]
    BY DEF PassesAreOfThisRun
  <2>1. CASE q # p
    BY <1>5, <2>1 DEF PageInv, PassesAreOfThisRun
  <2>2. CASE q = p
    <3>1. results[p] \in Seq(Outcome) /\ results'[p] = Append(results[p], result)
      BY <1>5, ResultsOf DEF PageInv
    <3>2. \/ i \in DOMAIN results[p] /\ results'[p][i] = results[p][i]
          \/ i = n /\ results'[p][i] = result
      BY <1>1, <2>2, <3>1
    <3> QED
      BY <1>3, <1>4, <2>2, <3>2 DEF PageInv, PassesAreOfThisRun
  <2> QED
    BY <2>1, <2>2
<1> QED
  BY <1>7, <1>8, <1>9, <1>10 DEF PageInv

(* The host answers, a Worker has answered, or time is up. *)
LEMMA ProbeEnds ==
  ASSUME PageInv, NEW p \in Pages, HostAnswers(p) \/ Deliver(p) \/ TimeOut(p)
  PROVE  PageInv'
<1>1. CASE HostAnswers(p)
  <2>1. /\ pc[p] = "probing" /\ Kinds[Current(p)] = "host"
        /\ UNCHANGED <<worker, mail, made, opened>>
        /\ \E status \in {"pass", "fail"} : Settle(p, status)
    BY <1>1 DEF HostAnswers, Probing, workers, database
  <2>2. PICK status \in {"pass", "fail"} : Settle(p, status)
    BY <2>1
  <2>3. /\ mail' \in [Pages \X Probes -> {NoMail, "ok", "bad", "error"}]
        /\ opened' \in Pages \cup {Nobody}
    BY <2>1 DEF PageInv, PagesTyped
  <2> QED
    BY <2>1, <2>2, <2>3, Settles
<1>2. CASE Deliver(p) \/ TimeOut(p)
  <2>1. /\ pc[p] = "probing" /\ Terminate(p, Current(p))
        /\ \E status \in {"pass", "fail"} : Settle(p, status)
        /\ mail[<<p, Current(p)>>] # NoMail \/ worker[<<p, Current(p)>>] # "none"
    BY <1>2 DEF Deliver, TimeOut, Probing
  <2>2. PICK status \in {"pass", "fail"} : Settle(p, status)
    BY <2>1
  <2>3. /\ worker' = [worker EXCEPT ![<<p, Current(p)>>] = "none"]
        /\ mail' = [mail EXCEPT ![<<p, Current(p)>>] = NoMail]
        /\ opened' \in {opened, Nobody} /\ UNCHANGED made
    BY <2>1 DEF Terminate
  <2>5. Current(p) \in made[p]
    BY <2>1, AtProbe DEF PageInv, Workers, Due
  <2>4. /\ mail' \in [Pages \X Probes -> {NoMail, "ok", "bad", "error"}]
        /\ opened' \in Pages \cup {Nobody}
    BY <2>3 DEF PageInv, PagesTyped
  <2> QED
    BY <2>1, <2>2, <2>3, <2>4, <2>5, Settles
<1> QED
  BY <1>1, <1>2

(* A Worker is made for the probe that is due. *)
LEMMA StartsWorker ==
  ASSUME PageInv, NEW p \in Pages, StartWorker(p) PROVE PageInv'
<1>1. /\ pc[p] = "probing" /\ Kinds[Current(p)] \in {"worker", "opfs"}
      /\ worker' = [worker EXCEPT ![<<p, Current(p)>>] = "working"]
      /\ made' = [made EXCEPT ![p] = made[p] \cup {Current(p)}]
      /\ UNCHANGED <<pc, runs, results, message, mail, opened>>
  BY DEF StartWorker, Probing, page, database
<1>4. /\ Current(p) \in Probes /\ "working" \in WorkerStages
      /\ \A q \in Pages : made[q] \subseteq made'[q]
      /\ Current(p) \in made'[p]
  BY <1>1, AtProbe DEF PageInv, PagesTyped, WorkerStages
<1>5. /\ worker' \in [Pages \X Probes -> WorkerStages]
      /\ \A q \in Pages, i \in Probes :
           worker'[<<q, i>>] =
             IF q = p /\ i = Current(p) THEN "working" ELSE worker[<<q, i>>]
  BY <1>1, <1>4, OneWorker DEF PageInv
<1>7. made' \in [Pages -> SUBSET Probes]
  BY <1>1, <1>4 DEF PageInv, PagesTyped
<1>2. PagesTyped' /\ Running'
  BY <1>1, <1>5, <1>7 DEF PageInv, PagesTyped, Running
<1>3. Workers'
  <2>1. \A q \in Pages, i \in Probes : Due(q, i) => Due(q, i)'
    BY <1>1, <1>4 DEF Due, Current
  <2>2. \A i \in Probes : i = Current(p) => Due(p, i)'
    BY <1>1, <1>4 DEF Due, Current
  <2>3. \A q \in Pages, i \in Probes : worker'[<<q, i>>] # "none" => Due(q, i)'
    BY <1>5, <2>1, <2>2 DEF PageInv, Workers
  <2>4. \A q \in Pages, i \in Probes : mail[<<q, i>>] # NoMail => worker[<<q, i>>] # "none"
    BY DEF PageInv, Workers
  <2> QED
    BY <1>1, <1>5, <2>3, <2>4 DEF Workers
<1>6. PassesAreOfThisRun'
  BY <1>1, <1>4 DEF PageInv, PassesAreOfThisRun
<1> QED
  BY <1>2, <1>3, <1>6 DEF PageInv

(* What a Worker does makes no other Worker, and none where there was none. *)
LEMMA WorkersWork ==
  ASSUME PageInv, NEW p \in Pages, NEW i \in Probes, InWorker(p, i) PROVE PageInv'
<1>1. \E stage \in WorkerStages \ {"none", "working"},
         event \in {"ok", "bad", "error"} :
        /\ worker[<<p, i>>] # "none"
        /\ worker' = [worker EXCEPT ![<<p, i>>] = stage]
        /\ mail' = mail \/ mail' = [mail EXCEPT ![<<p, i>>] = event]
        /\ opened' \in {opened, Nobody, p}
        /\ UNCHANGED <<pc, runs, results, message, made>>
  <2>1. CASE WorkerAnswers(p, i)
    BY <2>1 DEF WorkerAnswers, Sends, Becomes, page, database, WorkerStages
  <2>2. CASE WorkerErrors(p, i)
    BY <2>2 DEF WorkerErrors, Sends, Becomes, page, database, WorkerStages
  <2>3. CASE OpenFirst(p, i) \/ OpenAgain(p, i)
    BY <2>3 DEF OpenFirst, OpenAgain, Sends, Becomes, page, database, WorkerStages
  <2>4. CASE WriteCounter(p, i) \/ CloseFirst(p, i)
    BY <2>4 DEF WriteCounter, CloseFirst, Sends, Becomes, page, database, WorkerStages
  <2>5. CASE Refused(p, i)
    BY <2>5 DEF Refused, Sends, Becomes, page, database, WorkerStages
  <2>6. CASE ReadBack(p, i)
    BY <2>6 DEF ReadBack, Sends, Becomes, page, database, WorkerStages
  <2> QED
    BY <2>1, <2>2, <2>3, <2>4, <2>5, <2>6 DEF InWorker
<1>2. PICK stage \in WorkerStages \ {"none", "working"},
           event \in {"ok", "bad", "error"} :
        /\ worker[<<p, i>>] # "none"
        /\ worker' = [worker EXCEPT ![<<p, i>>] = stage]
        /\ mail' = mail \/ mail' = [mail EXCEPT ![<<p, i>>] = event]
        /\ opened' \in {opened, Nobody, p}
        /\ UNCHANGED <<pc, runs, results, message, made>>
  BY <1>1
<1>3. /\ worker' \in [Pages \X Probes -> WorkerStages]
      /\ \A q \in Pages, j \in Probes :
           worker'[<<q, j>>] = IF q = p /\ j = i THEN stage ELSE worker[<<q, j>>]
  BY <1>2, OneWorker DEF PageInv
<1>4. mail' \in [Pages \X Probes -> {NoMail, "ok", "bad", "error"}]
  BY <1>2 DEF PageInv, PagesTyped
<1>5. PagesTyped' /\ Running'
  BY <1>2, <1>3, <1>4 DEF PageInv, PagesTyped, Running
<1>6. Workers'
  <2>1. \A q \in Pages, j \in Probes :
          mail'[<<q, j>>] = mail[<<q, j>>] \/ (q = p /\ j = i)
    <3>1. CASE mail' = mail
      BY <3>1
    <3>2. CASE mail' = [mail EXCEPT ![<<p, i>>] = event]
      <4>1. mail = [w \in Pages \X Probes |-> mail[w]]
        BY DEF PageInv, PagesTyped
      <4> QED
        BY <3>2, <4>1
    <3> QED
      BY <1>2, <3>1, <3>2
  <2>2. \A q \in Pages, j \in Probes : Due(q, j) => Due(q, j)'
    BY <1>2 DEF Due, Current
  <2> QED
    BY <1>2, <1>3, <2>1, <2>2 DEF PageInv, Workers
<1>7. PassesAreOfThisRun'
  BY <1>2 DEF PageInv, PassesAreOfThisRun
<1> QED
  BY <1>5, <1>6, <1>7 DEF PageInv

(* The report stays on the page. *)
LEMMA Saves ==
  ASSUME PageInv, NEW p \in Pages, NEW said \in {"saved", "not saved"}, Save(p, said)
  PROVE  PageInv'
<1>1. /\ pc[p] = "saving" /\ pc' = [pc EXCEPT ![p] = "done"]
      /\ message' = [message EXCEPT ![p] = said]
      /\ UNCHANGED <<runs, results, worker, mail, made, opened>>
  BY DEF Save, workers, database
<1>2. PagesTyped' /\ Running'
  BY <1>1 DEF PageInv, PagesTyped, Running
<1>3. Workers'
  <2>1. \A q \in Pages, i \in Probes : Due(q, i) => Due(q, i)'
    BY <1>1 DEF PageInv, PagesTyped, Due, Current
  <2> QED
    BY <1>1, <2>1 DEF PageInv, Workers
<1>4. PassesAreOfThisRun'
  BY <1>1 DEF PageInv, PassesAreOfThisRun
<1> QED
  BY <1>2, <1>3, <1>4 DEF PageInv

--------------------------------------------------------------------------------
(* What the pages do leaves the host as it is. *)
LEMMA HostStays ==
  ASSUME HostInv, UNCHANGED host PROVE HostInv'
BY DEF HostInv, host, Followed, Orderly, Alone, FilesOpened, OwnFile, Whole, OwnTexts, OfCalls,
       Host!Busy, Host!Replaced, Host!PutItsText

(* And the other way round. *)
LEMMA PagesStay ==
  ASSUME PageInv, UNCHANGED vars PROVE PageInv'
BY DEF PageInv, vars, page, workers, database, PagesTyped, Running, Workers, Due,
       PassesAreOfThisRun, Current

(* What happens to the calls leaves a call that has been made a call, and an answered
   one answered. *)
CallsKept ==
  \A w \in Calls : /\ call[w] # "idle" => call'[w] # "idle"
                   /\ call[w] = "done" => call'[w] = "done"

(* A host that works on leaves what pages were told and how far they are. *)
LEMMA BetweenStays ==
  ASSUME PathInv, UNCHANGED <<vars, situation>>, CallsKept,
         \A w \in Calls : HasPages /\ call[w] = "idle" /\ call'[w] # "idle" =>
                            w[2] <= runs[w[1]]
  PROVE  Between'
<1>1. \A p \in Pages : pc[p] = "done" => CallOf(p) \in Calls
  <2> SUFFICES ASSUME NEW p \in Pages, pc[p] = "done" PROVE CallOf(p) \in Calls
    OBVIOUS
  <2>1. runs[p] \in 0..MaxRuns /\ runs[p] # 0 /\ MaxRuns \in Nat
    BY Numbered DEF PathInv, PageInv, PagesTyped, Running
  <2> QED
    BY <2>1 DEF CallOf, Calls
<1>2. UNCHANGED <<pc, runs, message>>
  BY DEF vars, page
<1> QED
  BY <1>1, <1>2 DEF PathInv, Between, HasPages, CallOf, CallsKept

(* A run that is begun, a probe that ends or a Worker that works. *)
LEMMA ProbesKeep ==
  ASSUME PathInv, HasPages, Probe, UNCHANGED host PROVE PathInv'
<1>1. HostInv'
  BY HostStays DEF PathInv
<1>2. PICK p \in Pages : OnPage(p) \/ \E i \in Probes : InWorker(p, i)
  BY DEF Probe
<1>3. PageInv'
  BY <1>2, RunsAll, StartsWorker, ProbeEnds, WorkersWork DEF PathInv, OnPage
<1>4. /\ \A q \in Pages : /\ runs[q] <= runs'[q]
                          /\ message'[q] = "saved" =>
                               /\ message[q] = "saved" /\ runs'[q] = runs[q]
                               /\ pc[q] = "done" => pc'[q] = "done"
  <2>1. /\ \A q \in Pages : runs[q] \in Nat
        /\ runs = [q \in Pages |-> runs[q]] /\ message = [q \in Pages |-> message[q]]
        /\ pc = [q \in Pages |-> pc[q]]
    <3>1. /\ runs \in [Pages -> 0..MaxRuns] /\ MaxRuns \in Nat
          /\ message = [q \in Pages |-> message[q]] /\ pc = [q \in Pages |-> pc[q]]
      BY Numbered DEF PathInv, PageInv, PagesTyped
    <3> QED
      BY <3>1
  <2>2. CASE RunAll(p)
    BY <2>1, <2>2 DEF RunAll
  <2>3. CASE HostAnswers(p) \/ Deliver(p) \/ TimeOut(p)
    <3>1. pc[p] = "probing" /\ UNCHANGED <<runs, message>>
          /\ \A q \in Pages : q # p => pc'[q] = pc[q]
      BY <2>1, <2>3 DEF HostAnswers, Deliver, TimeOut, Settle, Probing
    <3> QED
      BY <2>1, <3>1
  <2>4. CASE StartWorker(p) \/ \E i \in Probes : InWorker(p, i)
    <3>1. UNCHANGED <<pc, runs, message>>
      BY <2>4 DEF StartWorker, InWorker, WorkerAnswers, WorkerErrors, OpenFirst, OpenAgain,
                  WriteCounter, CloseFirst, Refused, ReadBack, page
    <3> QED
      BY <2>1, <3>1
  <2> QED
    BY <1>2, <2>2, <2>3, <2>4 DEF OnPage
<1>5. UNCHANGED <<call, situation>>
  BY DEF host
<1>6. \A w \in Calls : w[1] \in Pages /\ w[2] \in Nat
  BY Numbered DEF Calls
<1>7. \A q \in Pages : runs[q] \in Nat /\ runs'[q] \in Nat
  <2>1. runs \in [Pages -> 0..MaxRuns] /\ runs' \in [Pages -> 0..MaxRuns] /\ MaxRuns \in Nat
    BY <1>3, Numbered DEF PathInv, PageInv, PagesTyped
  <2> QED
    BY <2>1
<1>8. Between'
  BY <1>4, <1>5, <1>6, <1>7 DEF PathInv, Between, HasPages, CallOf
<1> QED
  BY <1>1, <1>3, <1>8 DEF PathInv

(* The report of a run arrives at the host. *)
LEMMA Arrives ==
  ASSUME PathInv, NEW p \in Pages, Arrive(p) PROVE PathInv'
<1>1. pc[p] = "saving" /\ Host!Open(CallOf(p)) /\ UNCHANGED vars
  BY DEF Arrive
<1>2. runs[p] \in Nat /\ CallOf(p) \in Calls
  <2>1. runs[p] \in 0..MaxRuns /\ runs[p] # 0 /\ MaxRuns \in Nat
    BY <1>1, Numbered DEF PathInv, PageInv, PagesTyped, Running
  <2> QED
    BY <2>1 DEF CallOf, Calls
<1>3. HostInv' /\ PageInv'
  BY <1>1, <1>2, Opens, PagesStay DEF PathInv
<1>4. /\ call' = [call EXCEPT ![CallOf(p)] = "writing"] /\ call[CallOf(p)] = "idle"
      /\ UNCHANGED situation
  BY <1>1 DEF Host!Open, Host!MayOpen, Host!Go
<1>5. /\ \A w \in Calls : w # CallOf(p) => call'[w] = call[w]
      /\ call'[CallOf(p)] = "writing"
  BY <1>2, <1>4 DEF PathInv, HostInv, Followed
<1>6. CallOf(p)[2] <= runs[CallOf(p)[1]]
  BY <1>2 DEF CallOf
<1>7. Between'
  BY <1>1, <1>4, <1>5, <1>6, BetweenStays DEF CallsKept
<1> QED
  BY <1>3, <1>7 DEF PathInv

(* A page hears that its report is saved, that it is not, or nothing. *)
LEMMA Hears ==
  ASSUME PathInv, NEW p \in Pages, Answered(p) \/ Disconnected(p) PROVE PathInv'
<1>1. PICK said \in {"saved", "not saved"} :
        Save(p, said) /\ UNCHANGED host /\ (said = "saved" => call[CallOf(p)] = "done")
  BY DEF Answered, Disconnected
<1>2. HostInv' /\ PageInv'
  BY <1>1, HostStays, Saves DEF PathInv
<1>3. /\ pc[p] = "saving" /\ pc' = [pc EXCEPT ![p] = "done"]
      /\ message' = [message EXCEPT ![p] = said] /\ UNCHANGED <<runs, call, situation>>
  BY <1>1 DEF Save, host
<1>4. Between'
  <2>1. \A q \in Pages : /\ pc'[q] = IF q = p THEN "done" ELSE pc[q]
                         /\ message'[q] = IF q = p THEN said ELSE message[q]
    BY <1>3 DEF PathInv, PageInv, PagesTyped
  <2> QED
    BY <1>1, <1>3, <2>1 DEF PathInv, Between, HasPages, CallOf
<1> QED
  BY <1>2, <1>4 DEF PathInv

(* The host works on, or stops. *)
LEMMA HostWorks ==
  ASSUME PathInv, Stopped \/ \E w \in Calls : Work(w) PROVE PathInv'
<1>1. CASE Stopped
  <2>1. Host!Kill /\ UNCHANGED vars /\ HostInv'
    BY <1>1, Kills DEF Stopped, PathInv
  <2>2. UNCHANGED situation
    BY <2>1 DEF Host!Kill
  <2>3. \A w \in Calls : /\ call[w] \in {"idle", "done"} => call'[w] = call[w]
                         /\ call[w] \notin {"idle", "done"} => call'[w] # "idle"
    BY <2>1 DEF Host!Kill, Host!Busy
  <2>4. Between'
    BY <2>1, <2>2, <2>3, BetweenStays DEF CallsKept
  <2> QED
    BY <2>1, <2>4, PagesStay DEF PathInv
<1>2. ASSUME NEW w \in Calls, Work(w) PROVE PathInv'
  <2>1. HostInv' /\ UNCHANGED vars
    BY <1>2, Opens, Writes, Closes, Replaces, FailsWriting, CleansUp, Records DEF Work, PathInv
  <2>2. /\ UNCHANGED situation
        /\ call' = call \/ \E stage \in CallStages \ {"idle"} :
             /\ call' = [call EXCEPT ![w] = stage] /\ call[w] # "done"
             /\ call[w] = "idle" => ~HasPages
    <3>1. CASE ~HasPages /\ Host!Open(w)
      BY <3>1 DEF Host!Open, Host!MayOpen, Host!Go, CallStages
    <3>2. CASE Host!Write(w)
      BY <3>2 DEF Host!Write
    <3>3. CASE Host!Close(w)
      BY <3>3 DEF Host!Close, Host!Go, CallStages
    <3>4. CASE Host!Replace(w)
      BY <3>4 DEF Host!Replace, Host!Go, Host!LeaveDone, CallStages
    <3>5. CASE Host!FailWriting(w)
      BY <3>5 DEF Host!FailWriting, Host!Go, Host!LeaveFailed, CallStages
    <3>6. CASE Host!CleanUp(w)
      BY <3>6 DEF Host!CleanUp, Host!Go, CallStages
    <3>7. CASE Host!Record(w)
      BY <3>7 DEF Host!Record, Host!Go, CallStages
    <3> QED
      BY <1>2, <3>1, <3>2, <3>3, <3>4, <3>5, <3>6, <3>7 DEF Work
  <2>3. CallsKept /\ \A v \in Calls : HasPages /\ call[v] = "idle" => call'[v] = "idle"
    <3>1. call = [v \in Calls |-> call[v]]
      BY DEF PathInv, HostInv, Followed
    <3> QED
      BY <2>2, <3>1 DEF CallsKept, HasPages
  <2>4. Between'
    BY <2>1, <2>2, <2>3, BetweenStays
  <2> QED
    BY <2>1, <2>4, PagesStay DEF PathInv
<1> QED
  BY <1>1, <1>2

(* At the start no page has run anything and no call was made. *)
LEMMA PathBegins == PathInit => PathInv
<1> SUFFICES ASSUME PathInit PROVE PathInv
  OBVIOUS
<1>1. HostInv
  BY HostBegins DEF PathInit
<1>2. <<>> \in Seq(Outcome) /\ Len(<<>>) = 0
  OBVIOUS
<1>3. PageInv
  BY <1>2, Numbered DEF PathInit, Init, PageInv, PagesTyped, WorkerStages, Running, Workers,
                        PassesAreOfThisRun
<1>4. Between
  BY DEF PathInit, Init, Host!Init, Between
<1> QED
  BY <1>1, <1>3, <1>4 DEF PathInv

(* Pages and host keep PathInv together. *)
LEMMA SpecPath == PathSpec => []PathInv
<1>1. PathInv /\ UNCHANGED <<vars, host>> => PathInv'
  <2> SUFFICES ASSUME PathInv, UNCHANGED <<vars, host>> PROVE PathInv'
    OBVIOUS
  <2>1. UNCHANGED vars /\ UNCHANGED host /\ UNCHANGED <<situation, call>>
    BY DEF host
  <2>2. Between'
    BY <2>1, BetweenStays DEF CallsKept
  <2> QED
    BY <2>1, <2>2, HostStays, PagesStay DEF PathInv
<1>2. PathInv /\ PathNext => PathInv'
  BY ProbesKeep, Arrives, Hears, HostWorks DEF PathNext
<1> QED
  BY <1>1, <1>2, PathBegins, PTL DEF PathSpec

--------------------------------------------------------------------------------
(* Type correctness of the pages and the host, and that each call of a page belongs to
   a run the page has begun. *)
THEOREM PathTypeCorrect == PathSpec => []PathTypeOK
<1>1. PathInv => PathTypeOK
  <2> SUFFICES ASSUME PathInv PROVE PathTypeOK
    OBVIOUS
  <2>1. ASSUME NEW p \in Pages, pc[p] = "probing" PROVE Current(p) \in Probes
    BY <2>1, AtProbe DEF PathInv
  <2>2. TypeOK
    BY <2>1 DEF PathInv, PageInv, PagesTyped, Running, TypeOK
  <2> QED
    BY <2>2 DEF PathInv, HostInv, Followed, Between, PathTypeOK
<1> QED
  BY <1>1, SpecPath, PTL

(* No Worker outlives its probe, whichever of answer, error and time limit comes first
   (runner.ts:69-98). *)
THEOREM WorkersEnd == PathSpec => []WorkersEndWithTheirProbe
<1>1. PathInv => WorkersEndWithTheirProbe
  BY DEF PathInv, PageInv, Workers, Due, WorkersEndWithTheirProbe
<1> QED
  BY <1>1, SpecPath, PTL

(* No answer of a Worker that was ended counts for a probe or a run that came after it
   (runner.ts:69-98). *)
THEOREM LateWordsDoNotCount == PathSpec => []PassesAreOfThisRun
<1>1. PathInv => PassesAreOfThisRun
  BY DEF PathInv, PageInv
<1> QED
  BY <1>1, SpecPath, PTL

(* A file that is replaced is always one whole text, if calls do not overlap, whatever
   calls were stopped half-way and whoever left a temporary file behind
   (setup.py:24-25, rta_refresh.py:905-906). *)
THEOREM FilesAlwaysWhole == PathSpec => []AlwaysWhole
<1>1. PathInv => AlwaysWhole
  BY DEF PathInv, HostInv, Orderly, Whole, AlwaysWhole, Host!AlwaysWhole
<1> QED
  BY <1>1, SpecPath, PTL

(* What a page or a call says to be saved is saved, although connections are lost, pages
   start again and the host may stop: its row is there and it has replaced the file, where
   requests do not overlap with its own text, whole (HomePage.tsx:20-47,
   storage.py:588-611). *)
THEOREM WhatIsSaidToBeSaved == PathSpec => []SavedIsSaved
<1>1. PathInv => SavedIsSaved
  <2> SUFFICES ASSUME PathInv PROVE SavedIsSaved
    OBVIOUS
  <2>1. Host!SavedIsSaved
    BY DEF PathInv, HostInv, Followed, Orderly, OwnTexts, Host!SavedIsSaved
  <2>2. ASSUME NEW p \in Pages, message[p] = "saved"
        PROVE  /\ CallOf(p) \in rows \cap Host!Replaced
               /\ ~situation.overlap => Host!PutItsText(CallOf(p))
    <3>1. pc[p] = "done" /\ call[CallOf(p)] = "done" /\ HasPages
      BY <2>2 DEF PathInv, Between
    <3>2. runs[p] \in 0..MaxRuns /\ runs[p] # 0 /\ MaxRuns \in Nat
      BY <3>1, Numbered DEF PathInv, PageInv, PagesTyped, Running
    <3>3. CallOf(p) \in Calls
      BY <3>2 DEF CallOf, Calls
    <3> QED
      BY <3>1, <3>3 DEF PathInv, HostInv, Followed, Orderly, OwnTexts, HasPages
  <2> QED
    BY <2>1, <2>2 DEF SavedIsSaved
<1> QED
  BY <1>1, SpecPath, PTL

--------------------------------------------------------------------------------
(* The pages of the evidence *)

(* What the host says of its active generation. *)
Answers == [cut : Gen, ready : BOOLEAN, known : BOOLEAN]

CacheTyped ==
  /\ active \in Gen /\ asked \in 0..MaxRefreshes /\ moves \in 0..MaxChanges
  /\ own \in 0..asked
  /\ refresh \in [Requests -> {"none", "sent", "succeeded", "failed", "over"}]
  /\ fetch \in [Entries -> {"no", "sent", "answered"}]
  /\ cached \in [Entries -> Answers] /\ reply \in [Entries -> Answers]
  /\ after \in [Requests -> Answers]

(* No answer is ahead of the host. *)
Behind ==
  /\ \A r \in Requests : after[r].cut <= active
  /\ \A e \in Entries : /\ cached[e].cut <= active /\ reply[e].cut <= active
                        /\ fetch[e] = "answered" => reply[e].known = TRUE

PagesInv == CacheTyped /\ Behind

(* What the Operate page has shown was active at the time.  The health that comes next *)
(* is not older, nor is that in the cache, unless it was put there by a refresh that   *)
(* another one had overtaken.                                                           *)
NothingOlderComes ==
  /\ newest \in Gen /\ newest <= active
  /\ ~overtaken => newest <= cached[Health].cut
  /\ fetch[Health] = "answered" => newest <= reply[Health].cut

LEMMA PagesBegin == PagesInit => PagesInv /\ NothingOlderComes
<1> SUFFICES ASSUME PagesInit PROVE PagesInv /\ NothingOlderComes
  OBVIOUS
<1>1. 0 \in Gen /\ active \in Gen /\ Gen \subseteq Nat /\ 0 \in 0..MaxRefreshes /\ 0 \in 0..MaxChanges
  BY EvidencePagesAssumption DEF PagesInit, Gen
<1>2. NoData \in Answers /\ NoData.cut = 0 /\ Health \in Entries
  BY <1>1 DEF NoData, Answers, Entries
<1>3. CacheTyped
  BY <1>1, <1>2 DEF PagesInit, CacheTyped
<1>4. Behind /\ NothingOlderComes
  BY <1>1, <1>2 DEF PagesInit, Behind, NothingOlderComes
<1> QED
  BY <1>3, <1>4 DEF PagesInv

LEMMA AnswerType ==
  ASSUME PagesInv
  PROVE  /\ Answer \in Answers /\ Answer.cut = active /\ active <= active /\ Answer.known = TRUE
         /\ NoData \in Answers /\ NoData.cut = 0 /\ NoData.cut <= active
         /\ Health \in Entries /\ Gen \subseteq Nat
<1>1. Gen \subseteq Nat /\ 0 \in Gen /\ active \in Gen
  BY EvidencePagesAssumption DEF Gen, PagesInv, CacheTyped
<1>2. (active # 0 /\ selected) \in BOOLEAN
  OBVIOUS
<1> QED
  BY <1>1, <1>2 DEF Answer, Answers, NoData, Entries

(* What a step of the host, the cache or the refresh does to the answers. *)
LEMMA PagesStep ==
  ASSUME PagesInv, Step
  PROVE  PagesInv'
<1> USE AnswerType
<1>1. CacheTyped /\ Behind
  BY DEF PagesInv
<1>2. CASE Activate
  <2>1. active' = active + 1 /\ active' \in Gen
    BY <1>1, <1>2, EvidencePagesAssumption DEF Activate, CacheTyped, Gen
  <2>2. UNCHANGED <<moves, cached, error, fetch, reply, refresh, after, asked, own>>
    BY <1>2 DEF Activate, cache, mutation, requests
  <2>3. CacheTyped'
    BY <1>1, <2>1, <2>2 DEF CacheTyped
  <2>4. Behind'
    <3>1. active \in Nat /\ active' = active + 1
      BY <1>1, <2>1 DEF CacheTyped
    <3>2. \A n \in Nat : n <= active => n <= active'
      BY <3>1
    <3>3. /\ \A r \in Requests : after[r].cut \in Nat
          /\ \A e \in Entries : cached[e].cut \in Nat /\ reply[e].cut \in Nat
      BY <1>1 DEF CacheTyped, Answers
    <3> QED
      BY <1>1, <2>2, <3>2, <3>3 DEF Behind
  <2> QED
    BY <2>3, <2>4 DEF PagesInv
<1>3. CASE SetFolder \/ \E p \in {"readiness", "operate"} : Open(p)
  <2>1. /\ UNCHANGED <<active, cached, error, fetch, reply, refresh, after, asked>>
        /\ moves' \in 0..MaxChanges /\ own' \in 0..asked
    BY <1>1, <1>3, EvidencePagesAssumption
       DEF SetFolder, Open, hostState, cache, mutation, requests, CacheTyped
  <2> QED
    BY <1>1, <2>1 DEF PagesInv, CacheTyped, Behind
<1>4. ASSUME NEW e \in Entries, HostTells(e) PROVE PagesInv'
  <2>1. /\ fetch' = [fetch EXCEPT ![e] = "answered"] /\ reply' = [reply EXCEPT ![e] = Answer]
        /\ UNCHANGED <<active, moves, cached, refresh, after, asked, own>>
    BY <1>4 DEF HostTells, hostState, mutation, requests
  <2>2. CacheTyped'
    BY <1>1, <2>1 DEF CacheTyped
  <2>3. Behind'
    BY <1>1, <2>1 DEF Behind, CacheTyped
  <2> QED
    BY <2>2, <2>3 DEF PagesInv
<1>5. ASSUME NEW e \in Entries, Fetch(e) PROVE PagesInv'
  <2>1. /\ fetch' = [fetch EXCEPT ![e] = "sent"]
        /\ UNCHANGED <<active, moves, cached, reply, refresh, after, asked, own>>
    BY <1>5 DEF Fetch, hostState, mutation, requests
  <2>2. CacheTyped'
    BY <1>1, <2>1 DEF CacheTyped
  <2>3. Behind'
    BY <1>1, <2>1 DEF Behind, CacheTyped
  <2> QED
    BY <2>2, <2>3 DEF PagesInv
<1>6. ASSUME NEW e \in Entries, AnswerArrives(e) \/ Fails(e) PROVE PagesInv'
  <2>1. /\ fetch' = [fetch EXCEPT ![e] = "no"] /\ reply' = [reply EXCEPT ![e] = NoData]
        /\ cached' = cached \/ cached' = [cached EXCEPT ![e] = reply[e]]
        /\ UNCHANGED <<active, moves, refresh, after, asked, own>>
    BY <1>6 DEF AnswerArrives, Fails, FetchEnded, hostState, mutation, requests
  <2>2. CacheTyped'
    BY <1>1, <2>1 DEF CacheTyped
  <2>3. Behind'
    BY <1>1, <2>1 DEF Behind, CacheTyped
  <2> QED
    BY <2>2, <2>3 DEF PagesInv
<1>7. CASE AskRefresh
  <2>1. /\ UNCHANGED <<active, moves, cached, fetch, reply, after>>
        /\ refresh' = [refresh EXCEPT ![asked + 1] = "sent"]
        /\ asked' \in 0..MaxRefreshes /\ own' \in 0..asked'
    BY <1>1, <1>7, EvidencePagesAssumption DEF AskRefresh, hostState, cache, CacheTyped
  <2>2. CacheTyped'
    BY <1>1, <2>1 DEF CacheTyped
  <2> QED
    BY <1>1, <2>1, <2>2 DEF PagesInv, Behind
<1>8. ASSUME NEW r \in Requests, RefreshSucceeds(r) \/ RefreshFails(r) PROVE PagesInv'
  <2>1. /\ UNCHANGED <<active, moves, cached, fetch, reply, asked, own>>
        /\ \E outcome \in {"succeeded", "failed"} :
             refresh' = [refresh EXCEPT ![r] = outcome]
        /\ after' = after \/ after' = [after EXCEPT ![r] = Answer]
    BY <1>8 DEF RefreshSucceeds, RefreshFails, hostState, cache
  <2>2. CacheTyped'
    BY <1>1, <2>1 DEF CacheTyped
  <2>3. Behind'
    BY <1>1, <2>1 DEF Behind, CacheTyped
  <2> QED
    BY <2>2, <2>3 DEF PagesInv
<1>9. ASSUME NEW r \in Requests, OnSuccess(r) PROVE PagesInv'
  <2>1. /\ cached' = [cached EXCEPT ![Health] = after[r]]
        /\ after' = [after EXCEPT ![r] = NoData] /\ refresh' = [refresh EXCEPT ![r] = "over"]
        /\ own' \in {own, 0} /\ UNCHANGED <<active, moves, fetch, reply, asked>>
    BY <1>9 DEF OnSuccess, Returns, hostState
  <2>2. CacheTyped'
    BY <1>1, <2>1, EvidencePagesAssumption DEF CacheTyped
  <2>3. Behind'
    BY <1>1, <2>1 DEF Behind, CacheTyped
  <2> QED
    BY <2>2, <2>3 DEF PagesInv
<1>10. ASSUME NEW r \in Requests, OnError(r) PROVE PagesInv'
  <2>1. /\ \/ /\ fetch' = [fetch EXCEPT ![Health] = "sent"]
              /\ reply' = [reply EXCEPT ![Health] = NoData]
           \/ UNCHANGED <<fetch, reply>>
        /\ refresh' = [refresh EXCEPT ![r] = "over"]
        /\ own' \in {own, 0} /\ UNCHANGED <<active, moves, cached, after, asked>>
    BY <1>10 DEF OnError, Returns, hostState
  <2>2. CacheTyped'
    BY <1>1, <2>1, EvidencePagesAssumption DEF CacheTyped
  <2>3. Behind'
    BY <1>1, <2>1 DEF Behind, CacheTyped
  <2> QED
    BY <2>2, <2>3 DEF PagesInv
<1> QED
  BY <1>2, <1>3, <1>4, <1>5, <1>6, <1>7, <1>8, <1>9, <1>10 DEF Step

(* What the Operate page shows is what the cache says of the health, and no other *)
(* answer about it is on its way.                                                  *)
ShownIsKept ==
  /\ ShownCut \in Gen
  /\ ShownCut # 0 => fetch[Health] = "no" /\ ShownCut = cached[Health].cut

LEMMA ShownRight == PagesInv => ShownIsKept
<1> SUFFICES ASSUME PagesInv PROVE ShownIsKept
  OBVIOUS
<1>1. cached[Health].cut \in Gen /\ 0 \in Gen
  BY AnswerType, EvidencePagesAssumption DEF PagesInv, CacheTyped, Answers, Gen
<1> QED
  BY <1>1 DEF ShownIsKept, ShownCut, CutCurrent, ValidatingCut, IsCurrentOperateCut

LEMMA PagesStutter == PagesInv /\ UNCHANGED pageVars => PagesInv'
BY DEF pageVars, hostState, cache, mutation, requests, PagesInv, CacheTyped, Behind

LEMMA PagesSpecInv == PagesSpec => []PagesInv
<1>1. PagesInv /\ [PagesNext]_pageVars => PagesInv'
  BY PagesStep, PagesStutter DEF PagesNext
<1> QED
  BY <1>1, PagesBegin, PTL DEF PagesSpec

(* The pages' state is well typed, no answer is ahead of the host, and only a fetch *)
(* in progress has an answer to come.                                               *)
THEOREM PagesTypeCorrect == PagesSpec => []PagesTypeOK
<1>1. PagesInv => PagesTypeOK
  BY Zenon DEF PagesInv, CacheTyped, Behind, PagesTypeOK
<1> QED
  BY <1>1, PagesSpecInv, PTL

(* A step of the host, the cache or a refresh brings nothing older than what was shown *)
(* before it: the answer to a fetch, while nothing is shown, tells of what is active,   *)
(* and so does the result of a refresh, unless it was overtaken.                         *)
LEMMA NothingOlderStep ==
  ASSUME PagesInv, NothingOlderComes, Step
  PROVE  /\ newest <= active'
         /\ ~overtaken' => newest <= cached'[Health].cut
         /\ fetch'[Health] = "answered" => newest <= reply'[Health].cut
<1> USE AnswerType
<1>1. CacheTyped /\ Behind
  BY DEF PagesInv
<1>2. CASE Activate \/ SetFolder \/ \E p \in {"readiness", "operate"} : Open(p)
  <2>1. /\ active' \in {active, active + 1}
        /\ UNCHANGED <<cached, fetch, reply, overtaken>>
    BY <1>2 DEF Activate, SetFolder, Open, hostState, cache
  <2>2. newest \in Nat /\ active \in Nat /\ newest <= active
    BY <1>1 DEF CacheTyped, NothingOlderComes
  <2>3. newest <= active'
    BY <2>1, <2>2
  <2> QED
    BY <2>1, <2>3 DEF NothingOlderComes
<1>3. ASSUME NEW e \in Entries, HostTells(e) \/ Fetch(e) \/ AnswerArrives(e) \/ Fails(e)
      PROVE  /\ newest <= active'
             /\ ~overtaken' => newest <= cached'[Health].cut
             /\ fetch'[Health] = "answered" => newest <= reply'[Health].cut
  BY <1>1, <1>3 DEF HostTells, Fetch, AnswerArrives, Fails, FetchEnded, hostState,
                    NothingOlderComes, CacheTyped
<1>4. CASE AskRefresh \/ \E r \in Requests : RefreshSucceeds(r) \/ RefreshFails(r)
  BY <1>4 DEF AskRefresh, RefreshSucceeds, RefreshFails, hostState, cache, NothingOlderComes
<1>5. ASSUME NEW r \in Requests, OnSuccess(r)
      PROVE  /\ newest <= active'
             /\ ~overtaken' => newest <= cached'[Health].cut
             /\ fetch'[Health] = "answered" => newest <= reply'[Health].cut
  BY <1>1, <1>5 DEF OnSuccess, Returns, hostState, NothingOlderComes, CacheTyped
<1>6. ASSUME NEW r \in Requests, OnError(r)
      PROVE  /\ newest <= active'
             /\ ~overtaken' => newest <= cached'[Health].cut
             /\ fetch'[Health] = "answered" => newest <= reply'[Health].cut
  BY <1>1, <1>6 DEF OnError, Returns, hostState, NothingOlderComes, CacheTyped
<1> QED
  BY <1>2, <1>3, <1>4, <1>5, <1>6 DEF Step

(* The Operate page never shows a cut as current after it has shown a newer one, however *)
(* many refreshes of this and other tabs are under way and whatever answers overtake     *)
(* each other; left is the time between the result of a refresh that was overtaken by    *)
(* another and the next answer about the health (OperateEvidencePage.tsx:121-127).        *)
THEOREM OperateNeverGoesBack == PagesSpec => []NeverBackToOlder
<1>1. PagesInit => NothingOlderComes
  BY PagesBegin
<1>2. PagesInv => ShownIsKept
  BY ShownRight
<1>3. PagesInv' => ShownIsKept'
  BY <1>2, PTL
<1>4. PagesInv /\ PagesInv' /\ NothingOlderComes /\ [PagesNext]_pageVars => NothingOlderComes'
  <2> SUFFICES ASSUME PagesInv, PagesInv', NothingOlderComes, [PagesNext]_pageVars
               PROVE  NothingOlderComes'
    OBVIOUS
  <2>1. CASE UNCHANGED pageVars
    BY <2>1 DEF pageVars, hostState, cache, NothingOlderComes
  <2>2. CASE PagesNext
    <3>1. /\ newest <= active'
          /\ ~overtaken' => newest <= cached'[Health].cut
          /\ fetch'[Health] = "answered" => newest <= reply'[Health].cut
      BY <2>2, NothingOlderStep DEF PagesNext
    <3>2. /\ ShownCut' \in Gen /\ newest \in Gen
          /\ ShownCut' # 0 => fetch'[Health] = "no" /\ ShownCut' = cached'[Health].cut
      BY <1>3 DEF ShownIsKept, NothingOlderComes
    <3>3. newest' = IF ShownCut' > newest THEN ShownCut' ELSE newest
      BY <2>2 DEF PagesNext
    <3>4. \A g \in Gen : g \in Nat
      BY AnswerType
    <3>5. cached'[Health].cut <= active' /\ cached'[Health].cut \in Nat
      BY <3>4, AnswerType DEF PagesInv, CacheTyped, Behind, Answers
    <3>6. newest' = newest \/ (newest' = cached'[Health].cut /\ fetch'[Health] = "no")
      BY <3>2, <3>3, <3>4
    <3>7. newest' \in Gen
      BY <3>2, <3>3
    <3> QED
      BY <3>1, <3>5, <3>6, <3>7 DEF NothingOlderComes
  <2> QED
    BY <2>1, <2>2
<1>5. PagesInv /\ NothingOlderComes => NeverBackToOlder
  BY ShownRight DEF ShownIsKept, NothingOlderComes, NeverBackToOlder
<1> QED
  BY <1>1, <1>4, <1>5, PagesSpecInv, PTL DEF PagesSpec
================================================================================
