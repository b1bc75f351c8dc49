--------------------------- MODULE OperateReadProofs ---------------------------
(***************************************************************************)
(* Proofs about a request that is answered while refreshes commit, for     *)
(* every catalog of folders and profiles, any contents of the cuts and any *)
(* number of generations and moves of the folder pointer.                  *)
(***************************************************************************)
EXTENDS OperateRead, FoldLemmas

(* A row of wfm_refresh_generation with its intervals. *)
Contents == {{}} \cup UNION {Cuts[g] : g \in 1..MaxGen}
Generation ==
  [status : {"running", "succeeded", "failed"}, root : Roots, base : Nat, rows : Contents]

(* The surroundings: the active generation has succeeded, and so has the one that
   an undo would put in its place. *)
Surrounding ==
  /\ gens \in Seq(Generation) /\ Len(gens) <= MaxGen
  /\ active \in 0..Len(gens) /\ moves \in 0..MaxMoves
  /\ pointer \in Roots \cup {Unusable}
  /\ active # 0 => gens[active].status = "succeeded"
  /\ \A g \in 1..Len(gens) :
       /\ gens[g].base <= Len(gens)
       /\ gens[g].base # 0 => gens[gens[g].base].status = "succeeded"

(* What the surroundings never do: a generation keeps its number and its folder,
   and none that succeeded becomes anything else or has other rows. *)
Grows ==
  /\ Len(gens) <= Len(gens')
  /\ \A g \in 1..Len(gens) :
       /\ gens'[g].root = gens[g].root
       /\ gens[g].status = "succeeded" =>
            gens'[g].status = "succeeded" /\ gens'[g].rows = gens[g].rows

(* The request is under way at every moment it has seen, the last of them now; a
   query has seen its cut active; what has been found is the folder of the cut; and
   a health that has read both rows read the older one first. *)
Fields(l) == l = [day |-> l.day, choice |-> l.choice, cut |-> l.cut, latest |-> l.latest,
                  catalog |-> l.catalog]
UnderWay == pc \notin {"idle", "done"}

Asked ==
  /\ pc \in {"idle", "asked", "snapshot", "found", "first", "second", "summary", "done"}
  /\ request \in Requests
  /\ pc \in {"asked", "snapshot", "found"} => request # "health"
  /\ pc \in {"first", "second", "summary"} => request = "health"
  /\ Fields(local)
  /\ local.cut \in 0..Len(gens) /\ local.latest \in 0..Len(gens)
  /\ local.catalog \in Roots \cup {Unusable}

WasActive(g) == \E w \in seen : w[1] = g
WasSelected(r) == \E v \in seen : v[2] = r

Known ==
  /\ UnderWay => <<active, pointer>> \in seen
  /\ pc \in {"snapshot", "found"} =>
       /\ local.cut # 0 /\ WasActive(local.cut)
       /\ gens[local.cut].status = "succeeded"
  /\ pc = "found" => gens[local.cut].root = local.catalog
  /\ pc = "summary" => local.cut <= local.latest

Answered ==
  /\ pc = "done" <=> answer # NoAnswer
  /\ ReadyAnswer => /\ answer.cut \in 1..Len(gens) /\ WasActive(answer.cut)
                    /\ WasSelected(gens[answer.cut].root)
                    /\ gens[answer.cut].status = "succeeded"
  /\ LatestNotOlder

ReadInv == Surrounding /\ Asked /\ Known /\ Answered

--------------------------------------------------------------------------------
(* The generations are numbered from 1, and each has its columns. *)
LEMMA Numbered ==
  ASSUME Surrounding
  PROVE  /\ Len(gens) \in Nat /\ DOMAIN gens = 1..Len(gens) /\ MaxGen \in Nat
         /\ \A g \in 1..Len(gens) : /\ gens[g] \in Generation /\ g \in 1..MaxGen
                                    /\ gens[g].base \in Nat
<1>1. /\ Len(gens) \in Nat /\ DOMAIN gens = 1..Len(gens) /\ MaxGen \in Nat
      /\ \A g \in 1..Len(gens) : gens[g] \in Generation /\ g \in 1..MaxGen
  BY OperateReadAssumption DEF Surrounding
<1> QED
  BY <1>1 DEF Generation

(* The row of a generation is rewritten in place. *)
LEMMA RowRewritten ==
  ASSUME gens \in Seq(Generation), NEW g \in 1..Len(gens), NEW row \in Generation,
         gens' = [gens EXCEPT ![g] = row]
  PROVE  /\ gens' \in Seq(Generation) /\ Len(gens') = Len(gens)
         /\ \A h \in 1..Len(gens) : gens'[h] = IF h = g THEN row ELSE gens[h]
OBVIOUS

(* A committed refresh, a failed one, one that begins, an undo and a new pointer. *)
LEMMA SurroundingsMove ==
  ASSUME Surrounding,
         BeginGeneration \/ Activate \/ FailGeneration \/ Undo \/ SetPointer
  PROVE  Surrounding' /\ Grows
<1> USE Numbered
<1>1. CASE BeginGeneration
  <2> DEFINE row == [status |-> "running", root |-> pointer, base |-> active, rows |-> {}]
  <2>1. row \in Generation /\ row.base = active
    BY <1>1 DEF BeginGeneration, Surrounding, Generation, Contents
  <2>2. /\ gens' = Append(gens, row) /\ Len(gens) < MaxGen
        /\ UNCHANGED <<active, pointer, moves>>
    BY <1>1 DEF BeginGeneration
  <2> HIDE DEF row
  <2>3. /\ gens' \in Seq(Generation) /\ Len(gens') = Len(gens) + 1
        /\ \A g \in 1..Len(gens) : gens'[g] = gens[g]
        /\ gens'[Len(gens) + 1] = row
    BY <2>1, <2>2 DEF Surrounding
  <2>4. Grows
    BY <2>3 DEF Grows, Surrounding
  <2>5. ASSUME NEW g \in 1..Len(gens')
        PROVE  /\ gens'[g].base <= Len(gens')
               /\ gens'[g].base # 0 => gens'[gens'[g].base].status = "succeeded"
    <3>1. CASE g = Len(gens) + 1
      BY <2>1, <2>3, <3>1 DEF Surrounding
    <3>2. CASE g \in 1..Len(gens)
      BY <2>3, <3>2 DEF Surrounding
    <3> QED
      BY <2>3, <3>1, <3>2
  <2>6. /\ active' \in 0..Len(gens') /\ Len(gens') <= MaxGen
        /\ active' # 0 => gens'[active'].status = "succeeded"
    BY <2>2, <2>3 DEF Surrounding
  <2> QED
    BY <2>2, <2>3, <2>4, <2>5, <2>6 DEF Surrounding
<1>2. ASSUME NEW g \in 1..Len(gens), NEW row \in Generation, gens[g].status = "running",
             gens' = [gens EXCEPT ![g] = row], row.root = gens[g].root,
             row.base = gens[g].base,
             active' = active \/ (active' = g /\ row.status = "succeeded"),
             UNCHANGED <<pointer, moves>>
      PROVE  Surrounding' /\ Grows
  <2>1. /\ gens' \in Seq(Generation) /\ Len(gens') = Len(gens)
        /\ \A h \in 1..Len(gens) : gens'[h] = IF h = g THEN row ELSE gens[h]
    BY <1>2, RowRewritten DEF Surrounding
  <2>2. Grows
    BY <1>2, <2>1 DEF Grows
  <2> QED
    BY <1>2, <2>1, <2>2 DEF Surrounding
<1>3. CASE Activate
  <2>1. PICK g \in 1..Len(gens) : \E rows \in Cuts[g] :
          /\ gens[g].status = "running"
          /\ gens' = [gens EXCEPT ![g].status = "succeeded", ![g].rows = rows]
          /\ active' = g /\ UNCHANGED <<pointer, moves>>
    BY <1>3 DEF Activate
  <2>2. PICK rows \in Cuts[g] :
          gens' = [gens EXCEPT ![g].status = "succeeded", ![g].rows = rows]
    BY <2>1
  <2> DEFINE row == [gens[g] EXCEPT !.status = "succeeded", !.rows = rows]
  <2>3. rows \in Contents
    BY DEF Contents
  <2>4. /\ row \in Generation /\ row.root = gens[g].root /\ row.base = gens[g].base
        /\ row.status = "succeeded"
    BY <2>3 DEF Generation
  <2>5. gens' = [gens EXCEPT ![g] = row]
    BY <2>2
  <2> QED
    BY <1>2, <2>1, <2>4, <2>5
<1>4. CASE FailGeneration
  <2>1. PICK g \in 1..Len(gens) :
          /\ gens[g].status = "running" /\ gens' = [gens EXCEPT ![g].status = "failed"]
          /\ UNCHANGED <<active, pointer, moves>>
    BY <1>4 DEF FailGeneration
  <2> DEFINE row == [gens[g] EXCEPT !.status = "failed"]
  <2>2. /\ row \in Generation /\ row.root = gens[g].root /\ row.base = gens[g].base
    BY DEF Generation
  <2>3. gens' = [gens EXCEPT ![g] = row]
    BY <2>1
  <2> QED
    BY <1>2, <2>1, <2>2, <2>3
<1>5. CASE Undo
  <2>1. active \in 1..Len(gens) /\ gens[active] \in Generation
    BY <1>5 DEF Undo, Surrounding
  <2> QED
    BY <1>5, <2>1 DEF Undo, Surrounding, Generation, Grows
<1>6. CASE SetPointer
  BY <1>6, OperateReadAssumption DEF SetPointer, Surrounding, database, Grows
<1> QED
  BY <1>1, <1>3, <1>4, <1>5, <1>6

(* The request goes on beside them. *)
LEMMA SurroundingsKeep ==
  ASSUME ReadInv, BeginGeneration \/ Activate \/ FailGeneration \/ Undo \/ SetPointer
  PROVE  ReadInv'
<1>1. Surrounding' /\ Grows /\ Len(gens) \in Nat /\ Len(gens') \in Nat
  BY SurroundingsMove DEF ReadInv, Surrounding
<1>2. Watch
  BY DEF BeginGeneration, Activate, FailGeneration, Undo, SetPointer
<1>3. Asked'
  BY <1>1, <1>2 DEF ReadInv, Asked, Watch, progress, Grows
<1>4. Known'
  BY <1>1, <1>2 DEF ReadInv, Asked, Known, Watch, progress, Grows, WasActive, UnderWay
<1>5. Answered'
  BY <1>1, <1>2 DEF ReadInv, Answered, Asked, Watch, progress, Grows, WasActive, WasSelected,
                    ReadyAnswer, Ready, LatestNotOlder
<1> QED
  BY <1>1, <1>3, <1>4, <1>5 DEF ReadInv

(* A query answers for its own cut or says why not. *)
LEMMA ResultKinds ==
  /\ Result.status \in {"ready", "unavailable", "bad_request"}
  /\ Ready(Result) => Result.cut = local.cut
<1>1. /\ OperateAnswer(local.cut, local.day, local.choice).status
           \in {"ready", "unavailable", "bad_request"}
      /\ Ready(OperateAnswer(local.cut, local.day, local.choice)) =>
           OperateAnswer(local.cut, local.day, local.choice).cut = local.cut
  BY DEF OperateAnswer, Refused, Ready
<1>2. /\ FlashAnswer(local.cut, local.day, local.choice).status
           \in {"ready", "unavailable", "bad_request"}
      /\ Ready(FlashAnswer(local.cut, local.day, local.choice)) =>
           FlashAnswer(local.cut, local.day, local.choice).cut = local.cut
  BY DEF FlashAnswer, Refused, Ready
<1> QED
  BY <1>1, <1>2 DEF Result

--------------------------------------------------------------------------------
(* A request that goes on has not answered. *)
LEMMA GoesOn ==
  ASSUME ReadInv, NEW step, NEW known, Go(step, known), pc # "done", step # "done",
         Asked', Known'
  PROVE  ReadInv'
<1>1. Surrounding'
  BY DEF Go, ReadInv, Surrounding, database
<1>2. answer = NoAnswer /\ answer' = answer /\ pc' # "done"
  BY DEF Go, ReadInv, Answered
<1>3. Answered'
  BY <1>2 DEF Answered, ReadyAnswer, Ready, NoAnswer, LatestNotOlder
<1> QED
  BY <1>1, <1>3 DEF ReadInv

(* A query that answers with its cut, refuses or says why not, and a health. *)
LEMMA Replies ==
  ASSUME ReadInv, NEW result, Reply(result), pc # "done", result.status # "none",
         request # "health" /\ Ready(result) =>
           /\ result.cut \in 1..Len(gens) /\ WasActive(result.cut)
           /\ WasSelected(gens[result.cut].root) /\ gens[result.cut].status = "succeeded",
         request = "health" => result.cut <= result.latest
  PROVE  ReadInv'
<1>1. Surrounding'
  BY DEF Reply, ReadInv, Surrounding, database
<1>2. Asked' /\ Known'
  BY DEF Reply, ReadInv, Asked, Known, UnderWay, database
<1>3. Answered'
  BY DEF Reply, ReadInv, Answered, ReadyAnswer, Ready, NoAnswer, LatestNotOlder, WasActive,
         WasSelected, database
<1> QED
  BY <1>1, <1>2, <1>3 DEF ReadInv

(* A request begins: what it sees is what is. *)
LEMMA Asks ==
  ASSUME ReadInv, AskOperate \/ AskFlash \/ HealthFolder
  PROVE  ReadInv'
<1>1. pc = "idle" /\ Len(gens) \in Nat
  BY Numbered DEF AskOperate, AskFlash, HealthFolder, ReadInv
<1>2. ASSUME NEW day, NEW choice, Ask(day, choice), request # "health" PROVE ReadInv'
  <2> DEFINE first == [FirstLocal EXCEPT !.day = day]
             known == [first EXCEPT !.choice = choice]
  <2>1. Go("asked", known) /\ seen' = {<<active, pointer>>}
    BY <1>2 DEF Ask
  <2>2. /\ pc' = "asked" /\ local' = known
        /\ UNCHANGED <<gens, active, pointer, request>>
    BY <2>1 DEF Go, database
  <2>3. known.cut = 0 /\ known.latest = 0 /\ known.catalog = Unusable /\ Fields(known)
    <3>1. first.cut = 0 /\ first.latest = 0 /\ first.catalog = Unusable /\ Fields(first)
      <4>1. /\ FirstLocal.cut = 0 /\ FirstLocal.latest = 0
            /\ FirstLocal.catalog = Unusable /\ Fields(FirstLocal)
        BY DEF FirstLocal, Fields
      <4> QED
        BY <4>1 DEF Fields
    <3> HIDE DEF first
    <3> QED
      BY <3>1 DEF Fields
  <2> HIDE DEF known
  <2>4. Asked' /\ Known'
    BY <1>1, <1>2, <2>1, <2>2, <2>3 DEF ReadInv, Asked, Known, UnderWay
  <2> QED
    BY <1>1, <2>1, <2>4, GoesOn
<1>3. CASE AskOperate
  BY <1>2, <1>3 DEF AskOperate
<1>4. CASE AskFlash
  <2>1. request = "flash"
    BY <1>4 DEF AskFlash
  <2>2. Reply(Refused("bad_request")) \/ \E day, choice : Ask(day, choice)
    BY <1>4 DEF AskFlash
  <2>3. CASE Reply(Refused("bad_request"))
    BY <1>1, <2>1, <2>3, Replies DEF Refused, Ready
  <2> QED
    BY <1>2, <2>1, <2>2, <2>3
<1>5. CASE HealthFolder
  <2> DEFINE known == [FirstLocal EXCEPT !.catalog = pointer]
  <2>1. Go("first", known) /\ seen' = {<<active, pointer>>} /\ request = "health"
    BY <1>5 DEF HealthFolder
  <2>2. /\ pc' = "first" /\ local' = known
        /\ UNCHANGED <<gens, active, pointer, request>>
    BY <2>1 DEF Go, database
  <2>3. /\ known.cut = 0 /\ known.latest = 0 /\ known.catalog = pointer
        /\ Fields(known)
    BY DEF FirstLocal, Fields
  <2> HIDE DEF known
  <2>4. Asked' /\ Known'
    BY <1>1, <2>1, <2>2, <2>3 DEF ReadInv, Asked, Known, UnderWay, Surrounding
  <2> QED
    BY <1>1, <2>1, <2>4, GoesOn
<1> QED
  BY <1>3, <1>4, <1>5

(* The snapshot is of the generation that is active, and that is now. *)
LEMMA Snapshots ==
  ASSUME ReadInv, TakeSnapshot PROVE ReadInv'
<1>1. pc = "asked" /\ request # "health"
  BY DEF TakeSnapshot, ReadInv, Asked
<1>2. ASSUME NEW why, Reply(NotReady(why)) PROVE ReadInv'
  BY <1>1, <1>2, Replies DEF NotReady, Ready
<1>3. CASE /\ active # 0 /\ gens[active].status = "succeeded"
           /\ Go("snapshot", [local EXCEPT !.cut = active]) /\ UNCHANGED seen
  <2> DEFINE known == [local EXCEPT !.cut = active]
  <2>1. /\ pc' = "snapshot" /\ local' = known
        /\ UNCHANGED <<gens, active, pointer, request>>
    BY <1>3 DEF Go, database
  <2>2. /\ known.cut = active /\ known.latest = local.latest
        /\ known.catalog = local.catalog
        /\ Fields(known)
    BY DEF ReadInv, Asked, Fields
  <2> HIDE DEF known
  <2>3. <<active, pointer>> \in seen
    BY <1>1 DEF ReadInv, Known, UnderWay
  <2>4. WasActive(active)
    BY <2>3 DEF WasActive
  <2>5. Asked'
    BY <1>1, <2>1, <2>2 DEF ReadInv, Asked, Surrounding
  <2>6. Known'
    BY <1>3, <2>1, <2>2, <2>3, <2>4 DEF Known, UnderWay, WasActive
  <2> QED
    BY <1>1, <1>3, <2>5, <2>6, GoesOn DEF known
<1> QED
  BY <1>2, <1>3 DEF TakeSnapshot

(* The folder that is found is that of the cut. *)
LEMMA Finds ==
  ASSUME ReadInv, FindFolder PROVE ReadInv'
<1>1. pc = "snapshot" /\ request # "health"
  BY DEF FindFolder, ReadInv, Asked
<1>2. ASSUME NEW why, Reply(NotReady(why)) PROVE ReadInv'
  BY <1>1, <1>2, Replies DEF NotReady, Ready
<1>3. CASE /\ gens[local.cut].root = pointer
           /\ Go("found", [local EXCEPT !.catalog = pointer]) /\ UNCHANGED seen
  <2> DEFINE known == [local EXCEPT !.catalog = pointer]
  <2>1. /\ pc' = "found" /\ local' = known
        /\ UNCHANGED <<gens, active, pointer, request>>
    BY <1>3 DEF Go, database
  <2>2. /\ known.cut = local.cut /\ known.latest = local.latest
        /\ known.catalog = pointer
        /\ Fields(known)
    BY DEF ReadInv, Asked, Fields
  <2> HIDE DEF known
  <2>3. /\ <<active, pointer>> \in seen /\ local.cut # 0 /\ WasActive(local.cut)
        /\ gens[local.cut].status = "succeeded"
    BY <1>1 DEF ReadInv, Known, UnderWay
  <2>4. Asked'
    BY <1>1, <2>1, <2>2 DEF ReadInv, Asked, Surrounding
  <2>5. Known'
    BY <1>3, <2>1, <2>2, <2>3 DEF Known, UnderWay, WasActive
  <2> QED
    BY <1>1, <1>3, <2>4, <2>5, GoesOn DEF known
<1> QED
  BY <1>2, <1>3 DEF FindFolder

(* A ready answer is for the cut, and the folder is still its own. *)
LEMMA Answers ==
  ASSUME ReadInv, Refuse \/ LookAgain PROVE ReadInv'
<1>1. /\ pc = "found" /\ request # "health" /\ local.cut \in 1..Len(gens)
      /\ WasActive(local.cut) /\ gens[local.cut].root = local.catalog
      /\ gens[local.cut].status = "succeeded"
      /\ <<active, pointer>> \in seen
  <2>1. pc = "found" /\ Len(gens) \in Nat
    BY Numbered DEF Refuse, LookAgain, ReadInv
  <2> QED
    BY <2>1 DEF ReadInv, Asked, Known, UnderWay
<1>2. CASE Refuse
  BY <1>1, <1>2, ResultKinds, Replies DEF Refuse
<1>3. CASE LookAgain
  <2>1. ASSUME NEW why, Reply(NotReady(why)) PROVE ReadInv'
    BY <1>1, <2>1, Replies DEF NotReady, Ready
  <2>2. CASE pointer = local.catalog /\ Reply(Result)
    <3>1. WasSelected(gens[local.cut].root)
      BY <1>1, <2>2 DEF WasSelected
    <3> QED
      BY <1>1, <2>2, <3>1, ResultKinds, Replies
  <2> QED
    BY <1>3, <2>1, <2>2 DEF LookAgain
<1> QED
  BY <1>2, <1>3

(* The active row is read first, and no generation is newer than the latest. *)
LEMMA HealthMoves ==
  ASSUME ReadInv,
         HealthRow("first", "second") \/ HealthRow("second", "summary") \/ HealthReply
  PROVE  ReadInv'
<1>1. Len(gens) \in Nat /\ local.cut \in 0..Len(gens) /\ <<active, pointer>> \in seen
  BY Numbered DEF ReadInv, Asked, Known, UnderWay, HealthRow, HealthReply
<1>2. CASE HealthRow("first", "second")
  <2> DEFINE known == [local EXCEPT !.cut = active]
  <2>1. /\ pc = "first" /\ Go("second", known) /\ UNCHANGED seen /\ request = "health"
    BY <1>2 DEF HealthRow, HealthOrder, ReadInv, Asked
  <2>2. /\ pc' = "second" /\ local' = known
        /\ UNCHANGED <<gens, active, pointer, request>>
    BY <2>1 DEF Go, database
  <2>3. /\ known.cut = active /\ known.latest = local.latest
        /\ known.catalog = local.catalog
        /\ Fields(known)
    BY DEF ReadInv, Asked, Fields
  <2> HIDE DEF known
  <2>4. Asked' /\ Known'
    BY <1>1, <2>1, <2>2, <2>3 DEF ReadInv, Asked, Known, UnderWay, Surrounding
  <2> QED
    BY <2>1, <2>4, GoesOn
<1>3. CASE HealthRow("second", "summary")
  <2> DEFINE known == [local EXCEPT !.latest = Len(gens)]
  <2>1. /\ pc = "second" /\ Go("summary", known) /\ UNCHANGED seen /\ request = "health"
    BY <1>3 DEF HealthRow, HealthOrder, ReadInv, Asked
  <2>2. /\ pc' = "summary" /\ local' = known
        /\ UNCHANGED <<gens, active, pointer, request>>
    BY <2>1 DEF Go, database
  <2>3. /\ known.cut = local.cut /\ known.latest = Len(gens)
        /\ known.catalog = local.catalog
        /\ Fields(known)
    BY DEF ReadInv, Asked, Fields
  <2> HIDE DEF known
  <2>4. Asked' /\ Known'
    BY <1>1, <2>1, <2>2, <2>3 DEF ReadInv, Asked, Known, UnderWay, Surrounding
  <2> QED
    BY <2>1, <2>4, GoesOn
<1>4. CASE HealthReply
  <2>1. PICK result :
          /\ Reply(result) /\ result.cut = local.cut /\ result.latest = local.latest
          /\ result.status \in {"configuration_error", "ready", "source_changed", "not_ready"}
    BY <1>4 DEF HealthReply
  <2>2. pc = "summary" /\ request = "health" /\ local.cut <= local.latest
    BY <1>4 DEF HealthReply, ReadInv, Asked, Known
  <2> QED
    BY <2>1, <2>2, Replies
<1> QED
  BY <1>2, <1>3, <1>4

(* At the start there is no generation and nothing was asked. *)
LEMMA ReadInit == Init => ReadInv
<1> SUFFICES ASSUME Init PROVE ReadInv
  OBVIOUS
<1>1. gens = <<>> /\ Len(gens) = 0 /\ gens \in Seq(Generation)
  BY DEF Init
<1>2. Surrounding
  BY <1>1, OperateReadAssumption DEF Init, Surrounding
<1>3. Asked /\ Known
  BY <1>1 DEF Init, Asked, Known, FirstLocal, Fields, UnderWay
<1>4. Answered
  BY DEF Init, Answered, ReadyAnswer, Ready, NoAnswer, LatestNotOlder
<1> QED
  BY <1>2, <1>3, <1>4 DEF ReadInv

(* Whatever moves, the request or its surroundings, ReadInv is kept. *)
LEMMA SpecRead == Spec => []ReadInv
<1>1. ReadInv /\ UNCHANGED vars => ReadInv'
  BY DEF ReadInv, vars, database, progress, Surrounding, Asked, Known, Answered, UnderWay,
         WasActive, WasSelected, ReadyAnswer, Ready, LatestNotOlder
<1>2. ReadInv /\ Next => ReadInv'
  BY SurroundingsKeep, Asks, Snapshots, Finds, Answers, HealthMoves DEF Next, Query, Health
<1> QED
  BY <1>1, <1>2, ReadInit, PTL DEF Spec

(* Type correctness of a request and its surroundings; and nothing but a generation
   that succeeded is ever active, also when activations are undone. *)
THEOREM OperateReadTypeCorrect == Spec => []TypeOK
<1>1. ReadInv => TypeOK
  BY DEF ReadInv, Surrounding, Asked, Answered, TypeOK
<1> QED
  BY <1>1, SpecRead, PTL

(* A ready answer of either query names a generation that was active, and the folder
   of that generation was selected, at moments while the request was under way: however
   many refreshes commit or are undone and however often the folder moves between its
   two looks at the pointer (operate_evidence.py:114-118 and 240). *)
THEOREM ReadyAnswersWereTrue == Spec => []ReadyWasTrue
<1>1. ReadInv => ReadyWasTrue
  BY DEF ReadInv, Answered, ReadyWasTrue, WasActive, WasSelected
<1> QED
  BY <1>1, SpecRead, PTL

(* The health never names an active generation newer than the latest one: its active
   row is read first, and numbers only grow in between (rta_refresh.py:928-933). *)
THEOREM LatestIsNotOlder == Spec => []LatestNotOlder
<1>1. ReadInv => LatestNotOlder
  BY DEF ReadInv, Answered
<1> QED
  BY <1>1, SpecRead, PTL

--------------------------------------------------------------------------------
(* Nothing is cut off: what an answer sums up *)

(* What the answer says was offered, and what its rows say. *)
Said ==
  IF request = "operate" THEN SumOf(answer.intervals, DOMAIN answer.intervals)
  ELSE answer.totals

Meant ==
  LET rows == {r \in gens[answer.cut].rows : r.day = local.day}
  IN IF request = "operate" THEN Total({r \in rows : r.scope = answer.selected})
     ELSE Total({r \in rows : r.queue \in local.choice.queues})

WholeAnswer == ReadyAnswer => Said = Meant

LEMMA WholeIsNotCutOff == WholeAnswer => NothingCutOff
<1>1. MapThenSumSet(LAMBDA s : answer.intervals[s], DOMAIN answer.intervals)
        = SumOf(answer.intervals, DOMAIN answer.intervals)
  BY DEF MapThenSumSet, MapThenFoldSet, SumOf, Sums, First
<1> QED
  BY <1>1, Zenon DEF WholeAnswer, Said, Meant, NothingCutOff

(* The total of rows is a sum over them. *)
LEMMA TotalIsSum ==
  ASSUME NEW S, IsFiniteSet(S), NEW g, \A x \in S : g[x] = x.offered /\ g[x] \in Int
  PROVE  Total(S) = SumOf(g, S)
<1> DEFINE Solves(it) ==
             it = [s \in SUBSET S |-> IF s = {} THEN 0
                                      ELSE First(s).offered + it[s \ {First(s)}]]
           it == CHOOSE it : Solves(it)
<1>1. Total(S) = it[S]
  BY DEF Total, MapThenSumSet, MapThenFoldSet, First
<1>2. \A s \in SUBSET S : s # {} => g[First(s)] = First(s).offered
  BY DEF First
<1>3. \A jt : Solves(jt) <=> Sums(jt, g, S)
  BY <1>2 DEF Sums
<1>4. \E jt : Solves(jt)
  BY <1>3, SumExists
<1> HIDE DEF Solves
<1>5. Sums(it, g, S)
  BY <1>3, <1>4
<1> QED
  BY <1>1, <1>5, SumOfSolves

(* A limit that is not reached leaves no slot out. *)
LEMMA EverySlot ==
  ASSUME NEW S \in SUBSET Nat, IsFiniteSet(S), NEW n \in Nat,
         Cardinality(FirstSlots(S, n + 1)) <= n
  PROVE  FirstSlots(S, n + 1) = S
<1> DEFINE F == FirstSlots(S, n + 1)
           Missing == S \ F
<1>1. F \subseteq S
  BY DEF FirstSlots
<1> SUFFICES ASSUME Missing # {} PROVE FALSE
  BY <1>1
<1>2. PICK t \in Missing : \A u \in Missing : t <= u
  <2>1. Missing \in SUBSET Nat
    OBVIOUS
  <2> HIDE DEF Missing
  <2> QED
    BY <2>1, LeastNumber
<1> DEFINE Before == {u \in S : u < t}
<1>3. Before \subseteq F
  <2>1. \A u \in S : u \in Nat
    OBVIOUS
  <2>2. \A u \in Before : u \in S /\ ~(t <= u)
    BY <1>2, <2>1
  <2> HIDE DEF F, Before
  <2> QED
    BY <1>2, <2>2
<1>4. ~(Cardinality(Before) < n + 1)
  BY <1>2 DEF FirstSlots
<1> HIDE DEF F, Before
<1>5. IsFiniteSet(F) /\ Cardinality(F) \in Nat
  BY <1>1, FS_Subset, FS_CardinalityType
<1>6. Cardinality(Before) <= Cardinality(F) /\ Cardinality(Before) \in Nat
  BY <1>3, <1>5, FS_Subset, FS_CardinalityType
<1> QED
  BY <1>4, <1>5, <1>6 DEF F

(* The intervals of rows, if there are not too many, sum up all of them. *)
LEMMA IntervalsSumUp ==
  ASSUME NEW rows, IsFiniteSet(rows), \A r \in rows : r.slot \in Nat /\ r.offered \in Nat,
         ~(Cardinality(DOMAIN Intervals(rows)) > MaxIntervals)
  PROVE  /\ IsFiniteSet(DOMAIN Intervals(rows)) /\ DOMAIN Intervals(rows) \in SUBSET Nat
         /\ \A s \in DOMAIN Intervals(rows) : Intervals(rows)[s] \in Int
         /\ SumOf(Intervals(rows), DOMAIN Intervals(rows)) = Total(rows)
<1> DEFINE D == Slots(rows)
           part == [s \in D |-> {r \in rows : r.slot = s}]
           group == [r \in rows |-> r.slot]
           g == [r \in rows |-> r.offered]
           h == Intervals(rows)
<1>1. IsFiniteSet(D) /\ D \in SUBSET Nat
  <2>1. D = {group[r] : r \in rows}
    BY DEF Slots
  <2>2. D \in SUBSET Nat
    BY DEF Slots
  <2> HIDE DEF D, group
  <2> QED
    BY <2>1, <2>2, FiniteImage
<1>2. DOMAIN h = D
  <2>1. DOMAIN h = FirstSlots(D, MaxIntervals + 1)
    BY DEF Intervals
  <2>2. MaxIntervals \in Nat
    BY OperateReadAssumption
  <2>3. FirstSlots(D, MaxIntervals + 1) \subseteq D
    BY DEF FirstSlots
  <2> HIDE DEF D, h
  <2>4. Cardinality(DOMAIN h) \in Nat
    BY <1>1, <2>1, <2>3, FS_Subset, FS_CardinalityType
  <2>5. Cardinality(FirstSlots(D, MaxIntervals + 1)) <= MaxIntervals
    BY <2>1, <2>2, <2>4 DEF h
  <2> QED
    BY <1>1, <2>1, <2>2, <2>5, EverySlot
<1>3. \A r \in rows : g[r] = r.offered /\ g[r] \in Int
  OBVIOUS
<1>4. Grouped(part, group, rows, D)
  BY DEF Grouped, Slots
<1>5. ASSUME NEW s \in D PROVE h[s] = SumOf(g, part[s]) /\ h[s] \in Int
  <2>1. h[s] = Total(part[s])
    BY <1>2 DEF Intervals
  <2>2. part[s] \in SUBSET rows
    OBVIOUS
  <2> HIDE DEF part, g, h
  <2>3. IsFiniteSet(part[s])
    BY <2>2, FS_Subset
  <2>4. Total(part[s]) = SumOf(g, part[s])
    BY <1>3, <2>2, <2>3, TotalIsSum
  <2>5. SumOf(g, part[s]) \in Int
    BY <1>3, <2>2, SumOfTakes
  <2> QED
    BY <2>1, <2>4, <2>5
<1> HIDE DEF D, part, group, g, h
<1>6. SumOf(h, D) = SumOf(g, rows)
  <2>1. \A s \in D : h[s] = SumOf(g, part[s])
    BY <1>5
  <2>2. \A r \in rows : g[r] \in Int
    BY <1>3
  <2>3. IsFiniteSet(rows) /\ IsFiniteSet(D)
    BY <1>1
  <2> QED
    BY ONLY <1>4, <2>1, <2>2, <2>3, SumByGroups
<1>7. SumOf(g, rows) = Total(rows)
  BY <1>3, TotalIsSum
<1> QED
  BY <1>1, <1>2, <1>5, <1>6, <1>7 DEF h

(* So do the hours of intervals. *)
LEMMA HoursSumUp ==
  ASSUME NEW f, IsFiniteSet(DOMAIN f), DOMAIN f \in SUBSET Nat, \A s \in DOMAIN f : f[s] \in Int
  PROVE  SumOf(Hours(f), DOMAIN Hours(f)) = SumOf(f, DOMAIN f)
<1> DEFINE S == DOMAIN f
           D == {s \div PerHour : s \in S}
           part == [d \in D |-> {s \in S : s \div PerHour = d}]
           group == [s \in S |-> s \div PerHour]
<1>1. IsFiniteSet(D)
  <2>1. D = {group[s] : s \in S}
    OBVIOUS
  <2> HIDE DEF D, group
  <2> QED
    BY <2>1, FiniteImage
<1>2. Grouped(part, group, S, D)
  BY DEF Grouped
<1>3. DOMAIN Hours(f) = D
  BY DEF Hours
<1>4. ASSUME NEW d \in D PROVE Hours(f)[d] = SumOf(f, part[d])
  <2>1. Hours(f)[d] = MapThenSumSet(LAMBDA s : f[s], {s \in DOMAIN f : s \div PerHour = d})
    BY Zenon DEF Hours
  <2>2. MapThenSumSet(LAMBDA s : f[s], {s \in DOMAIN f : s \div PerHour = d})
          = SumOf(f, {s \in DOMAIN f : s \div PerHour = d})
    BY DEF MapThenSumSet, MapThenFoldSet, SumOf, Sums, First
  <2>3. {s \in DOMAIN f : s \div PerHour = d} = part[d]
    OBVIOUS
  <2> QED
    BY <2>1, <2>2, <2>3, Zenon
<1> HIDE DEF D, part, group
<1> QED
  BY <1>1, <1>2, <1>3, <1>4, SumByGroups

(* The rows of a generation are finitely many, and counted. *)
LEMMA RowsCounted ==
  ASSUME Surrounding, NEW g \in 1..Len(gens), NEW rows \in SUBSET gens[g].rows
  PROVE  IsFiniteSet(rows) /\ \A r \in rows : r.slot \in Nat /\ r.offered \in Nat
<1>1. gens[g] \in Generation
  BY Numbered
<1>2. gens[g].rows \in Contents
  BY <1>1 DEF Generation
<1>3. CASE gens[g].rows = {}
  BY <1>3, FS_EmptySet, FS_Subset
<1>4. CASE gens[g].rows # {}
  <2>1. PICK h \in 1..MaxGen : gens[g].rows \in Cuts[h]
    BY <1>2, <1>4 DEF Contents
  <2>2. IsFiniteSet(gens[g].rows) /\ \A r \in gens[g].rows : r.slot \in Nat /\ r.offered \in Nat
    BY <2>1, OperateReadAssumption
  <2> QED
    BY <2>2, FS_Subset
<1> QED
  BY <1>3, <1>4

(* What a query is ready to answer says all that its rows do. *)
LEMMA ReadyResultIsWhole ==
  ASSUME Surrounding, local.cut \in 1..Len(gens), Ready(Result)
  PROVE  LET rows == RowsOf(local.cut, local.day)
         IN IF request = "operate"
            THEN SumOf(Result.intervals, DOMAIN Result.intervals)
                   = Total({r \in rows : r.scope = Result.selected})
            ELSE Result.totals = Total({r \in rows : r.queue \in local.choice.queues})
<1> DEFINE g == local.cut
           day == local.day
           choice == local.choice
           rows == RowsOf(g, day)
<1>1. rows \in SUBSET gens[g].rows
  BY DEF RowsOf
<1> HIDE DEF rows, day, choice, g
<1>2. ASSUME NEW picked \in SUBSET rows
      PROVE  IsFiniteSet(picked) /\ \A r \in picked : r.slot \in Nat /\ r.offered \in Nat
  <2>1. picked \in SUBSET gens[g].rows
    BY <1>1
  <2> QED
    BY <2>1, RowsCounted DEF g
<1>3. CASE request = "operate"
  <2>1. Result = OperateAnswer(g, day, choice)
    BY <1>3 DEF Result, g, day, choice
  <2> DEFINE scopes == {r.scope : r \in rows}
             selected == IF choice = DefaultScope /\ scopes # {}
                           THEN CHOOSE s \in scopes : \A t \in scopes : s <= t
                           ELSE choice
             picked == {r \in rows : r.scope = selected}
             intervals == Intervals(picked)
  <2>2. /\ ~(Cardinality(DOMAIN intervals) > MaxIntervals)
        /\ Result.intervals = intervals /\ Result.selected = selected
    <3>1. OperateAnswer(g, day, choice)
            = IF Cardinality(scopes) > MaxScopes THEN Refused("unavailable")
              ELSE IF selected \notin scopes \cup {DefaultScope} THEN Refused("bad_request")
              ELSE IF Cardinality(DOMAIN intervals) > MaxIntervals THEN Refused("unavailable")
              ELSE [status |-> "ready", cut |-> g, scopes |-> scopes, selected |-> selected,
                    intervals |-> intervals]
      BY DEF OperateAnswer, rows
    <3> HIDE DEF scopes, selected, intervals
    <3>2. /\ ~(Cardinality(DOMAIN intervals) > MaxIntervals)
          /\ Result = [status |-> "ready", cut |-> g, scopes |-> scopes, selected |-> selected,
                       intervals |-> intervals]
      BY <2>1, <3>1 DEF Ready, Refused
    <3> QED
      BY <3>2
  <2>3. picked \in SUBSET rows
    OBVIOUS
  <2> HIDE DEF picked
  <2>4. SumOf(intervals, DOMAIN intervals) = Total(picked)
    BY <1>2, <2>2, <2>3, IntervalsSumUp
  <2> QED
    BY <1>3, <2>2, <2>4 DEF picked, rows, g, day
<1>4. CASE request # "operate"
  <2>1. Result = FlashAnswer(g, day, choice)
    BY <1>4 DEF Result, g, day, choice
  <2> DEFINE picked == {r \in rows : r.queue \in choice.queues}
             intervals == Intervals(picked)
             hours == Hours(intervals)
  <2>2. /\ ~(Cardinality(DOMAIN intervals) > MaxIntervals)
        /\ Result.totals = SumOf(hours, DOMAIN hours)
    <3>1. FlashAnswer(g, day, choice)
            = IF Cardinality(DOMAIN intervals) > MaxIntervals THEN Refused("unavailable")
              ELSE [status |-> "ready", cut |-> g, hours |-> hours,
                    totals |-> MapThenSumSet(LAMBDA h : hours[h], DOMAIN hours)]
      BY Zenon DEF FlashAnswer, rows
    <3> HIDE DEF intervals, hours
    <3>2. MapThenSumSet(LAMBDA h : hours[h], DOMAIN hours) = SumOf(hours, DOMAIN hours)
      BY DEF MapThenSumSet, MapThenFoldSet, SumOf, Sums, First
    <3>3. FlashAnswer(g, day, choice)
            = IF Cardinality(DOMAIN intervals) > MaxIntervals THEN Refused("unavailable")
              ELSE [status |-> "ready", cut |-> g, hours |-> hours,
                    totals |-> SumOf(hours, DOMAIN hours)]
      BY <3>1, <3>2, Zenon
    <3>4. /\ ~(Cardinality(DOMAIN intervals) > MaxIntervals)
          /\ Result.totals = SumOf(hours, DOMAIN hours)
      BY <2>1, <3>3 DEF Ready, Refused
    <3> QED
      BY <3>4
  <2>3. picked \in SUBSET rows
    OBVIOUS
  <2> HIDE DEF picked
  <2>4. /\ SumOf(intervals, DOMAIN intervals) = Total(picked)
        /\ IsFiniteSet(DOMAIN intervals) /\ DOMAIN intervals \in SUBSET Nat
        /\ \A s \in DOMAIN intervals : intervals[s] \in Int
    BY <1>2, <2>2, <2>3, IntervalsSumUp
  <2> HIDE DEF intervals
  <2>5. SumOf(hours, DOMAIN hours) = SumOf(intervals, DOMAIN intervals)
    BY <2>4, HoursSumUp
  <2> QED
    BY <1>4, <2>2, <2>4, <2>5 DEF picked, rows, g, day, choice
<1> QED
  BY <1>3, <1>4

(* Only an answer that is whole is given, and neither it nor its generation changes. *)
LEMMA WholeKept ==
  ASSUME ReadInv, ReadInv', [Next]_vars, WholeAnswer
  PROVE  WholeAnswer'
<1>1. ASSUME UNCHANGED <<request, local, answer>>,
             ReadyAnswer => gens'[answer.cut].rows = gens[answer.cut].rows
      PROVE  WholeAnswer'
  BY <1>1 DEF WholeAnswer, ReadyAnswer, Ready, Said, Meant
<1>2. ASSUME ~ReadyAnswer' PROVE WholeAnswer'
  BY <1>2 DEF WholeAnswer
<1>3. CASE BeginGeneration \/ Activate \/ FailGeneration \/ Undo \/ SetPointer
  <2>1. Grows
    BY <1>3, SurroundingsMove DEF ReadInv
  <2>2. UNCHANGED <<request, local, answer>>
    BY <1>3 DEF BeginGeneration, Activate, FailGeneration, Undo, SetPointer, Watch, progress
  <2>3. ReadyAnswer => gens'[answer.cut].rows = gens[answer.cut].rows
    BY <2>1 DEF Grows, ReadInv, Answered
  <2> QED
    BY <1>1, <2>2, <2>3
<1>4. ASSUME NEW step, NEW known, Go(step, known), step # "done" PROVE WholeAnswer'
  <2>1. pc' # "done"
    BY <1>4 DEF Go
  <2>2. answer' = NoAnswer
    BY <2>1 DEF ReadInv, Answered
  <2> QED
    BY <1>2, <2>2 DEF ReadyAnswer, Ready, NoAnswer
<1>5. ASSUME NEW result, Reply(result), ~Ready(result) PROVE WholeAnswer'
  BY <1>2, <1>5 DEF Reply, ReadyAnswer, Ready
<1>6. CASE AskOperate \/ AskFlash
  BY <1>4, <1>5, <1>6 DEF AskOperate, AskFlash, Ask, Refused, Ready
<1>7. CASE TakeSnapshot \/ FindFolder
  BY <1>4, <1>5, <1>7 DEF TakeSnapshot, FindFolder, NotReady, Ready
<1>8. CASE Refuse
  BY <1>5, <1>8 DEF Refuse
<1>9. CASE LookAgain
  <2>1. CASE Reply(Result) /\ Ready(Result)
    <3>1. local.cut \in 1..Len(gens) /\ Surrounding
      <4>1. pc = "found" /\ Len(gens) \in Nat
        BY <1>9, Numbered DEF LookAgain, ReadInv
      <4> QED
        BY <4>1 DEF ReadInv, Asked, Known
    <3>2. Result.cut = local.cut
      BY <2>1, ResultKinds
    <3>3. answer' = Result /\ UNCHANGED <<gens, request, local>>
      BY <2>1 DEF Reply, database
    <3>4. Said' = IF request = "operate" THEN SumOf(Result.intervals, DOMAIN Result.intervals)
                                         ELSE Result.totals
      BY <3>3 DEF Said
    <3>5. Meant' = LET rows == RowsOf(local.cut, local.day)
                   IN IF request = "operate"
                      THEN Total({r \in rows : r.scope = Result.selected})
                      ELSE Total({r \in rows : r.queue \in local.choice.queues})
      BY <3>2, <3>3 DEF Meant, RowsOf
    <3> QED
      BY <2>1, <3>1, <3>4, <3>5, ReadyResultIsWhole DEF WholeAnswer
  <2>2. CASE Reply(NotReady("SOURCE_ROOT_CHANGED"))
    BY <1>5, <2>2 DEF NotReady, Ready
  <2> QED
    BY <1>9, <2>1, <2>2 DEF LookAgain
<1>10. CASE Health
  <2>1. request = "health"
    BY <1>10 DEF Health, HealthFolder, HealthRow, HealthReply, ReadInv, Asked
  <2>2. request' = "health"
    BY <1>10, <2>1 DEF Health, HealthFolder, HealthRow, HealthReply, Go, Reply
  <2> QED
    BY <1>2, <2>2 DEF ReadyAnswer
<1>11. CASE UNCHANGED vars
  BY <1>1, <1>11 DEF vars, database, progress
<1> QED
  BY <1>3, <1>6, <1>7, <1>8, <1>9, <1>10, <1>11 DEF Next, Query

(* A ready answer leaves nothing out: the limits are looked at before they bite, and
   no interval is counted in two hours (operate_evidence.py:189, flash_parity.py:213
   and 230-241).  The cut it names keeps its rows, so this goes on being so. *)
THEOREM NoAnswerIsCutOff == Spec => []NothingCutOff
<1>1. Init => WholeAnswer
  BY DEF Init, WholeAnswer, ReadyAnswer, Ready, NoAnswer
<1>2. Spec => []WholeAnswer
  BY <1>1, SpecRead, WholeKept, PTL DEF Spec
<1> QED
  BY <1>2, WholeIsNotCutOff, PTL
================================================================================
