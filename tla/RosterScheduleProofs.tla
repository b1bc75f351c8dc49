-------------------------- MODULE RosterScheduleProofs --------------------------
(***************************************************************************)
(* Proofs about the published roster and schedules, for every workbook,    *)
(* every number of schedule files and whatever is replaced on disk while a *)
(* refresh reads them.                                                     *)
(***************************************************************************)
EXTENDS RosterSchedule, FoldLemmas, SequenceTheorems

--------------------------------------------------------------------------------
(* The invariant *)

Cells == UNION {{text[i] : i \in DOMAIN text} : text \in ScheduleTexts}
Snapshots ==
  [key : 1..FileCount, mtime : Nat, rows : Seq([cell : Cells, inScope : BOOLEAN])]

Numbered(rows) ==
  /\ IsFiniteSet(rows)
  /\ \A r \in rows : r.row \in Nat
  /\ \A r, s \in rows : r.row = s.row => r = s

DiskTyped ==
  /\ workbook \in Workbooks
  /\ files \in [1..FileCount -> {NoFile} \cup [mtime : Times, cells : ScheduleTexts]]
  /\ writes \in 0..MaxWrites

(* What the refresh has made of the workbook. *)
RosterHeld ==
  /\ Numbered(roster.rows)
  /\ roster.agents = ValidAgents(roster.rows)
  /\ \A t \in roster.timeOff : t.id # NoId /\ \E a \in roster.agents : a.id = t.id

(* What it has made of the schedules: scoped by the roster it holds, in the order
   of their names, and before whatever it has still to read. *)
SchedulesHeld ==
  /\ DOMAIN schedules = 1..Len(schedules)
  /\ schedules \in Seq(Snapshots)
  /\ \A n \in DOMAIN schedules : \A i \in DOMAIN schedules[n].rows :
       LET r == schedules[n].rows[i]
       IN r.inScope = (Resolve(roster.agents, r.cell.id, r.cell.name, r.cell.day) # {})
  /\ \A m, n \in DOMAIN schedules : m < n => schedules[m].key < schedules[n].key
  /\ \A n \in DOMAIN schedules : n <= schedules[n].key

Progress ==
  /\ phase \in {"idle", "listing", "reading", "publishing"}
  /\ unread \in SUBSET (1..FileCount)
  /\ phase = "listing" => schedules = <<>>
  /\ phase = "reading" =>
       \A n \in DOMAIN schedules : \A k \in unread : schedules[n].key < k

CutRight == NewestScheduleWins /\ ShiftsHaveOneAgent /\ CutOfOneRoster /\ DuplicatesKeepOne

RosterInv == DiskTyped /\ RosterHeld /\ SchedulesHeld /\ Progress /\ CutRight

--------------------------------------------------------------------------------
(* What the folds compute *)

(* One row more for the canonical shifts, and for the canonical agents. *)
PutShift(shifts, r) ==
  LET there == {s \in shifts : SameSlot(r, s)}
  IN IF ~r.inScope \/ \E s \in there : ~Newer(r, s) THEN shifts
     ELSE (shifts \ there) \cup {r}

PutAgent(agents, canonical, r) ==
  IF ~r.inScope \/ \E c \in canonical : c.client = r.cell.id THEN canonical
  ELSE canonical \cup {[client |-> r.cell.id, agent |-> a] :
                         a \in Resolve(agents, r.cell.id, r.cell.name, r.cell.day)}

WithIds(agents) == {[client |-> a.id, agent |-> a] : a \in {a \in agents : a.id # NoId}}

(* The canonical shifts are made row by row. *)
LEMMA ShiftsRowByRow ==
  ASSUME NEW R, NEW rows \in Seq(R)
  PROVE  \E f : /\ f[0] = {} /\ f[Len(rows)] = CanonicalShifts(rows)
                /\ \A n \in 1..Len(rows) : f[n] = PutShift(f[n - 1], rows[n])
<1> DEFINE N == Len(rows)
           step == [p \in (SUBSET R) \X (1..N) |-> PutShift(p[1], rows[p[2]])]
           Solves(it) ==
             it = [s \in SUBSET (1..N) |->
                     IF s = {} THEN {} ELSE PutShift(it[s \ {Max(s)}], rows[Max(s)])]
           it == CHOOSE it : Solves(it)
<1>1. N \in Nat /\ DOMAIN rows = 1..N /\ \A i \in 1..N : rows[i] \in R
  OBVIOUS
<1>2. \A d \in SUBSET R, i \in 1..N :
        step[<<d, i>>] = PutShift(d, rows[i]) /\ step[<<d, i>>] \in SUBSET R
  BY <1>1 DEF PutShift
<1> HIDE DEF step, N
<1>3. \E jt : Solves(jt)
  <2>1. PICK jt : Folding(jt, step, {}, N)
    BY <1>1, FoldExists
  <2>2. \A s \in SUBSET (1..N) : jt[s] \in SUBSET R
    BY <1>1, <1>2, <2>1, FoldStays
  <2>3. \A s \in SUBSET (1..N) :
          s # {} => jt[s] = PutShift(jt[s \ {Max(s)}], rows[Max(s)])
    <3> SUFFICES ASSUME NEW s \in SUBSET (1..N), s # {}
                 PROVE  jt[s] = PutShift(jt[s \ {Max(s)}], rows[Max(s)])
      OBVIOUS
    <3>1. Max(s) \in 1..N /\ jt[s \ {Max(s)}] \in SUBSET R
      BY <1>1, <2>2, LastIndex
    <3>2. jt[s] = step[<<jt[s \ {Max(s)}], Max(s)>>]
      BY <2>1 DEF Folding
    <3> QED
      BY <1>2, <3>1, <3>2
  <2>4. jt[{}] = {} /\ jt = [s \in SUBSET (1..N) |-> jt[s]]
    BY <2>1 DEF Folding
  <2>5. Solves(jt)
    BY <2>3, <2>4
  <2> QED
    BY <2>5
<1>4. CanonicalShifts(rows) = it[1..N]
  BY <1>1 DEF CanonicalShifts, FoldLeft, MapThenFoldSet, PutShift
<1> HIDE DEF Solves
<1>5. Solves(it)
  BY <1>3
<1>6. it[1..0] = {}
  <2>1. 1..0 = {}
    OBVIOUS
  <2> QED
    BY <1>5, <2>1 DEF Solves
<1>7. ASSUME NEW n \in 1..N PROVE it[1..n] = PutShift(it[1..(n - 1)], rows[n])
  <2>1. Max(1..n) = n /\ (1..n) \ {n} = 1..(n - 1)
    BY <1>1, LastIndex
  <2>2. 1..n \in SUBSET (1..N) /\ 1..n # {}
    BY <1>1, <1>7
  <2> QED
    BY <1>5, <2>1, <2>2 DEF Solves
<1> DEFINE f == [n \in 0..N |-> it[1..n]]
<1>8. f[0] = {} /\ f[N] = CanonicalShifts(rows)
  BY <1>1, <1>4, <1>6
<1>9. \A n \in 1..N : f[n] = PutShift(f[n - 1], rows[n])
  <2> HIDE DEF it
  <2>1. \A n \in 1..N : n \in 0..N /\ n - 1 \in 0..N
    BY <1>1
  <2> QED
    BY <1>7, <2>1
<1> HIDE DEF f
<1> QED
  BY <1>8, <1>9 DEF N

(* The canonical agents are made row by row too. *)
LEMMA AgentsRowByRow ==
  ASSUME NEW R, NEW rows \in Seq(R), NEW agents
  PROVE  \E f : /\ f[0] = WithIds(agents) /\ f[Len(rows)] = CanonicalAgents(agents, rows)
                /\ \A n \in 1..Len(rows) : f[n] = PutAgent(agents, f[n - 1], rows[n])
<1> DEFINE N == Len(rows)
           base == WithIds(agents)
           D == SUBSET [client : {a.id : a \in agents} \cup {r.cell.id : r \in R},
                        agent : agents]
           step == [p \in D \X (1..N) |-> PutAgent(agents, p[1], rows[p[2]])]
           Solves(it) ==
             it = [s \in SUBSET (1..N) |->
                     IF s = {} THEN base
                     ELSE PutAgent(agents, it[s \ {Max(s)}], rows[Max(s)])]
           it == CHOOSE it : Solves(it)
<1>1. N \in Nat /\ DOMAIN rows = 1..N /\ \A i \in 1..N : rows[i] \in R
  OBVIOUS
<1>2. base \in D
  BY DEF WithIds
<1>3. \A d \in D, i \in 1..N :
        step[<<d, i>>] = PutAgent(agents, d, rows[i]) /\ step[<<d, i>>] \in D
  <2> SUFFICES ASSUME NEW d \in D, NEW i \in 1..N
               PROVE  PutAgent(agents, d, rows[i]) \in D
    BY DEF step
  <2>1. rows[i] \in R
    BY <1>1
  <2>2. Resolve(agents, rows[i].cell.id, rows[i].cell.name, rows[i].cell.day) \subseteq agents
    BY DEF Resolve
  <2> QED
    BY <2>1, <2>2 DEF PutAgent
<1> HIDE DEF step, N, D, base
<1>4. \E jt : Solves(jt)
  <2>1. PICK jt : Folding(jt, step, base, N)
    BY <1>1, FoldExists
  <2>2. \A s \in SUBSET (1..N) : jt[s] \in D
    BY <1>1, <1>2, <1>3, <2>1, FoldStays
  <2>3. \A s \in SUBSET (1..N) :
          s # {} => jt[s] = PutAgent(agents, jt[s \ {Max(s)}], rows[Max(s)])
    <3> SUFFICES ASSUME NEW s \in SUBSET (1..N), s # {}
                 PROVE  jt[s] = PutAgent(agents, jt[s \ {Max(s)}], rows[Max(s)])
      OBVIOUS
    <3>1. Max(s) \in 1..N /\ jt[s \ {Max(s)}] \in D
      BY <1>1, <2>2, LastIndex
    <3>2. jt[s] = step[<<jt[s \ {Max(s)}], Max(s)>>]
      BY <2>1 DEF Folding
    <3> QED
      BY <1>3, <3>1, <3>2
  <2>4. jt[{}] = base /\ jt = [s \in SUBSET (1..N) |-> jt[s]]
    BY <2>1 DEF Folding
  <2>5. Solves(jt)
    BY <2>3, <2>4
  <2> QED
    BY <2>5
<1>5. CanonicalAgents(agents, rows) = it[1..N]
  BY <1>1 DEF CanonicalAgents, FoldLeft, MapThenFoldSet, PutAgent, base, WithIds
<1> HIDE DEF Solves
<1>6. Solves(it)
  BY <1>4
<1>7. it[1..0] = base
  <2>1. 1..0 = {}
    OBVIOUS
  <2> QED
    BY <1>6, <2>1 DEF Solves
<1>8. ASSUME NEW n \in 1..N PROVE it[1..n] = PutAgent(agents, it[1..(n - 1)], rows[n])
  <2>1. Max(1..n) = n /\ (1..n) \ {n} = 1..(n - 1)
    BY <1>1, LastIndex
  <2>2. 1..n \in SUBSET (1..N) /\ 1..n # {}
    BY <1>1, <1>8
  <2> QED
    BY <1>6, <2>1, <2>2 DEF Solves
<1> DEFINE f == [n \in 0..N |-> it[1..n]]
<1>9. f[0] = base /\ f[N] = CanonicalAgents(agents, rows)
  BY <1>1, <1>5, <1>7
<1>10. \A n \in 1..N : f[n] = PutAgent(agents, f[n - 1], rows[n])
  <2> HIDE DEF it
  <2>1. \A n \in 1..N : n \in 0..N /\ n - 1 \in 0..N
    BY <1>1
  <2> QED
    BY <1>8, <2>1
<1> HIDE DEF f
<1> QED
  BY <1>9, <1>10 DEF N, base

(* Laying sequences end to end keeps their elements. *)
LEMMA FlattenKeeps ==
  ASSUME NEW R, NEW seqs \in Seq(Seq(R))
  PROVE  FlattenSeq(seqs) \in Seq(R)
<1> DEFINE N == Len(seqs)
           step == [p \in Seq(R) \X (1..N) |-> p[1] \o seqs[p[2]]]
           Solves(it) == it = [i \in 1..N |-> IF i = 1 THEN seqs[i] ELSE it[i - 1] \o seqs[i]]
           it == CHOOSE it : Solves(it)
<1>1. N \in Nat /\ \A i \in 1..N : seqs[i] \in Seq(R)
  OBVIOUS
<1>2. CASE N = 0
  <2>1. seqs = <<>>
    BY <1>2
  <2> QED
    BY <1>2, <2>1 DEF FlattenSeq
<1>3. CASE N # 0
  <2>1. FlattenSeq(seqs) = it[N]
    BY <1>3 DEF FlattenSeq
  <2>2. \A d \in Seq(R), i \in 1..N :
          step[<<d, i>>] = d \o seqs[i] /\ step[<<d, i>>] \in Seq(R)
    <3> SUFFICES ASSUME NEW d \in Seq(R), NEW i \in 1..N PROVE d \o seqs[i] \in Seq(R)
      OBVIOUS
    <3>1. seqs[i] \in Seq(R)
      BY <1>1
    <3> HIDE DEF N
    <3> QED
      BY <3>1, ConcatProperties
  <2>3. <<>> \in Seq(R)
    OBVIOUS
  <2> HIDE DEF step, N
  <2>4. PICK jt : Folding(jt, step, <<>>, N)
    BY <1>1, FoldExists
  <2>5. \A s \in SUBSET (1..N) : jt[s] \in Seq(R)
    BY <1>1, <2>2, <2>3, <2>4, FoldStays
  <2> DEFINE f == [i \in 1..N |-> jt[1..i]]
  <2>6. ASSUME NEW i \in 1..N PROVE jt[1..i] = jt[1..(i - 1)] \o seqs[i]
    <3>1. Max(1..i) = i /\ (1..i) \ {i} = 1..(i - 1)
      BY <1>1, LastIndex
    <3>2. 1..i \in SUBSET (1..N) /\ 1..i # {}
      <4>1. (\A x \in 1..i : x \in 1..N) /\ 1 \in 1..i
        BY <1>1, <2>6
      <4> QED
        BY <4>1
    <3>4. 1..(i - 1) \in SUBSET (1..N)
      <4>1. \A x \in 1..(i - 1) : x \in 1..N
        BY <1>1, <2>6
      <4> QED
        BY <4>1
    <3>3. jt[1..i] = step[<<jt[1..(i - 1)], i>>]
      BY <2>4, <3>1, <3>2 DEF Folding
    <3> QED
      BY <2>2, <2>5, <3>3, <3>4
  <2>7. jt[1..0] = <<>>
    <3>1. 1..0 = {}
      OBVIOUS
    <3> QED
      BY <2>4, <3>1 DEF Folding
  <2>8. \A i \in 1..N : f[i] = IF i = 1 THEN seqs[i] ELSE f[i - 1] \o seqs[i]
    <3> SUFFICES ASSUME NEW i \in 1..N
                 PROVE  f[i] = IF i = 1 THEN seqs[i] ELSE f[i - 1] \o seqs[i]
      OBVIOUS
    <3>1. CASE i = 1
      <4>1. seqs[1] \in Seq(R) /\ i - 1 = 0
        BY <1>1, <3>1
      <4>2. <<>> \o seqs[1] = seqs[1]
        BY <4>1
      <4> QED
        BY <2>6, <2>7, <3>1, <4>1, <4>2
    <3>2. CASE i # 1
      <4>1. i - 1 \in 1..N
        BY <1>1, <3>2
      <4> QED
        BY <2>6, <3>2, <4>1
    <3> QED
      BY <3>1, <3>2
  <2>9. Solves(f)
    BY <2>8
  <2>10. Solves(it)
    <3> HIDE DEF Solves, f
    <3> QED
      BY <2>9
  <2>11. \A i \in 1..N : it[i] = IF i = 1 THEN seqs[i] ELSE it[i - 1] \o seqs[i]
    BY <2>10
  <2> HIDE DEF it, Solves
  <2> DEFINE Bad == {i \in 1..N : it[i] \notin Seq(R)}
  <2>12. Bad = {}
    <3> SUFFICES ASSUME Bad # {} PROVE FALSE
      OBVIOUS
    <3>1. Bad \in SUBSET Nat
      BY <1>1
    <3>2. PICK i \in Bad : \A m \in Bad : i <= m
      <4> HIDE DEF Bad
      <4> QED
        BY <3>1, LeastNumber
    <3>3. CASE i = 1
      BY <1>1, <2>11, <3>2, <3>3
    <3>4. CASE i # 1
      <4>1. i - 1 \in 1..N /\ i \in 1..N
        BY <1>1, <3>2, <3>4
      <4>2. it[i - 1] \in Seq(R)
        BY <3>2, <4>1
      <4>3. seqs[i] \in Seq(R)
        BY <1>1, <4>1
      <4>4. it[i - 1] \o seqs[i] \in Seq(R)
        BY <4>2, <4>3, ConcatProperties
      <4>5. it[i] = it[i - 1] \o seqs[i]
        BY <2>11, <3>4, <4>1
      <4> QED
        BY <3>2, <4>4, <4>5
    <3> QED
      BY <3>3, <3>4
  <2> QED
    BY <1>1, <1>3, <2>1, <2>12 DEF N
<1> QED
  BY <1>2, <1>3

--------------------------------------------------------------------------------
(* Which row of a slot is kept *)

(* Rows that are told apart by their file and their place in it. *)
Ranked(R) ==
  /\ \A r \in R : r.mtime \in Nat /\ r.key \in Nat /\ r.row \in Nat
  /\ \A r, s \in R : r.key = s.key /\ r.row = s.row => r = s

(* Newer is a strict total order of them. *)
LEMMA NewerIsTotal ==
  ASSUME NEW R, Ranked(R)
  PROVE  /\ \A r, s \in R : r = s \/ Newer(r, s) \/ Newer(s, r)
         /\ \A r, s, u \in R : Newer(r, s) /\ Newer(s, u) => Newer(r, u)
<1>1. ASSUME NEW r \in R, NEW s \in R PROVE r = s \/ Newer(r, s) \/ Newer(s, r)
  <2>1. /\ r.mtime \in Nat /\ r.key \in Nat /\ r.row \in Nat
        /\ s.mtime \in Nat /\ s.key \in Nat /\ s.row \in Nat
        /\ r.key = s.key /\ r.row = s.row => r = s
    BY DEF Ranked
  <2> QED
    BY <2>1 DEF Newer
<1>2. ASSUME NEW r \in R, NEW s \in R, NEW u \in R, Newer(r, s), Newer(s, u)
      PROVE  Newer(r, u)
  <2>1. /\ r.mtime \in Nat /\ r.key \in Nat /\ r.row \in Nat
        /\ s.mtime \in Nat /\ s.key \in Nat /\ s.row \in Nat
        /\ u.mtime \in Nat /\ u.key \in Nat /\ u.row \in Nat
    BY DEF Ranked
  <2> QED
    BY <1>2, <2>1 DEF Newer
<1> QED
  BY <1>1, <1>2

(* Of the rows up to the n-th, the shifts hold the newest of each slot. *)
KeepsNewest(shifts, rows, n) ==
  /\ \A s \in shifts : \E i \in 1..n : s = rows[i] /\ s.inScope
  /\ \A s, u \in shifts : SameSlot(s, u) => s = u
  /\ \A i \in 1..n : rows[i].inScope =>
       \E s \in shifts : SameSlot(rows[i], s) /\ (s = rows[i] \/ Newer(s, rows[i]))

(* One row more keeps it so. *)
LEMMA PutKeepsNewest ==
  ASSUME NEW R, Ranked(R), NEW rows \in Seq(R), NEW n \in 1..Len(rows), NEW shifts,
         KeepsNewest(shifts, rows, n - 1)
  PROVE  KeepsNewest(PutShift(shifts, rows[n]), rows, n)
<1> DEFINE r == rows[n]
           there == {s \in shifts : SameSlot(r, s)}
           m == n - 1
<1>1. /\ \A i \in 1..n : rows[i] \in R
      /\ \A i \in 1..n : i \in 1..m \/ i = n
      /\ \A i \in 1..m : i \in 1..n
      /\ n \in 1..n
  OBVIOUS
<1>2. r \in R
  BY <1>1
<1>3. /\ \A s \in shifts : \E i \in 1..m : s = rows[i] /\ s.inScope
      /\ \A s, u \in shifts : SameSlot(s, u) => s = u
      /\ \A i \in 1..m : rows[i].inScope =>
           \E s \in shifts : SameSlot(rows[i], s) /\ (s = rows[i] \/ Newer(s, rows[i]))
  BY DEF KeepsNewest
<1> HIDE DEF m
<1>4. \A s \in shifts : s \in R
  BY <1>1, <1>3
<1>5. CASE ~r.inScope
  <2>1. PutShift(shifts, r) = shifts
    BY <1>5 DEF PutShift
  <2> HIDE DEF r
  <2>2. \A i \in 1..n : rows[i].inScope => i \in 1..m
    BY <1>1, <1>5 DEF r
  <2>3. KeepsNewest(shifts, rows, n)
    BY <1>1, <1>3, <2>2 DEF KeepsNewest
  <2> QED
    BY <2>1, <2>3 DEF r
<1>6. CASE r.inScope /\ \E s \in there : ~Newer(r, s)
  <2>1. PutShift(shifts, r) = shifts
    BY <1>6 DEF PutShift
  <2>2. PICK s \in shifts : SameSlot(r, s) /\ (s = r \/ Newer(s, r))
    BY <1>2, <1>4, <1>6, NewerIsTotal
  <2>3. \A i \in 1..n : rows[i].inScope =>
          \E u \in shifts : SameSlot(rows[i], u) /\ (u = rows[i] \/ Newer(u, rows[i]))
    BY <1>1, <1>3, <2>2
  <2>4. KeepsNewest(shifts, rows, n)
    BY <1>1, <1>3, <2>3 DEF KeepsNewest
  <2> QED
    BY <2>1, <2>4
<1>7. CASE r.inScope /\ \A s \in there : Newer(r, s)
  <2> DEFINE put == (shifts \ there) \cup {r}
  <2>1. PutShift(shifts, r) = put
    BY <1>7 DEF PutShift
  <2>2. \A s \in put : \E i \in 1..n : s = rows[i] /\ s.inScope
    BY <1>1, <1>3, <1>7
  <2>3. \A s, u \in put : SameSlot(s, u) => s = u
    BY <1>3 DEF SameSlot
  <2>4. ASSUME NEW i \in 1..n, rows[i].inScope
        PROVE  \E s \in put : SameSlot(rows[i], s) /\ (s = rows[i] \/ Newer(s, rows[i]))
    <3>1. CASE i = n
      BY <3>1 DEF SameSlot
    <3>2. CASE i \in 1..m
      <4>1. PICK s \in shifts : SameSlot(rows[i], s) /\ (s = rows[i] \/ Newer(s, rows[i]))
        BY <1>3, <2>4, <3>2
      <4>2. CASE s \in there
        <5>1. Newer(r, s) /\ SameSlot(rows[i], r)
          BY <1>7, <4>1, <4>2 DEF SameSlot
        <5>2. rows[i] \in R /\ s \in R
          BY <1>1, <1>4
        <5>3. Newer(r, rows[i])
          BY <1>2, <4>1, <5>1, <5>2, NewerIsTotal
        <5> QED
          BY <5>1, <5>3
      <4>3. CASE s \notin there
        BY <4>1, <4>3
      <4> QED
        BY <4>2, <4>3
    <3> QED
      BY <1>1, <3>1, <3>2
  <2> HIDE DEF put
  <2>5. KeepsNewest(put, rows, n)
    BY <2>2, <2>3, <2>4 DEF KeepsNewest
  <2> QED
    BY <2>1, <2>5
<1> QED
  BY <1>5, <1>6, <1>7

(* So the canonical shifts are the newest in-scope row of every slot. *)
LEMMA ShiftsAreNewest ==
  ASSUME NEW R, Ranked(R), NEW rows \in Seq(R)
  PROVE  KeepsNewest(CanonicalShifts(rows), rows, Len(rows))
<1>1. PICK f : /\ f[0] = {} /\ f[Len(rows)] = CanonicalShifts(rows)
               /\ \A n \in 1..Len(rows) : f[n] = PutShift(f[n - 1], rows[n])
  BY ShiftsRowByRow
<1> DEFINE Bad == {n \in 0..Len(rows) : ~KeepsNewest(f[n], rows, n)}
<1>2. Bad = {}
  <2> SUFFICES ASSUME Bad # {} PROVE FALSE
    OBVIOUS
  <2>1. Bad \in SUBSET Nat
    OBVIOUS
  <2>2. PICK n \in Bad : \A m \in Bad : n <= m
    <3> HIDE DEF Bad
    <3> QED
      BY <2>1, LeastNumber
  <2>3. n # 0
    <3>1. KeepsNewest({}, rows, 0)
      BY DEF KeepsNewest
    <3> QED
      BY <1>1, <2>2, <3>1
  <2>4. n \in 1..Len(rows) /\ n - 1 \in 0..Len(rows) /\ n - 1 \notin Bad
    BY <2>2, <2>3
  <2>5. KeepsNewest(f[n - 1], rows, n - 1)
    BY <2>4
  <2>6. KeepsNewest(PutShift(f[n - 1], rows[n]), rows, n)
    BY <2>4, <2>5, PutKeepsNewest
  <2> QED
    BY <1>1, <2>2, <2>4, <2>6
<1>3. Len(rows) \in 0..Len(rows)
  OBVIOUS
<1> QED
  BY <1>1, <1>2, <1>3

--------------------------------------------------------------------------------
(* Which rows of the roster count *)

(* Outranks is a strict total order of the valid rows of a sheet. *)
LEMMA OutranksIsTotal ==
  ASSUME NEW rows, Numbered(rows)
  PROVE  /\ \A r, s \in rows :
              RowValid(r) /\ RowValid(s) => r = s \/ Outranks(r, s) \/ Outranks(s, r)
         /\ \A r, s, u \in rows :
              RowValid(r) /\ RowValid(s) /\ RowValid(u) /\ Outranks(r, s) /\ Outranks(s, u)
                => Outranks(r, u)
         /\ \A r \in rows : RowValid(r) => ~Outranks(r, r)
<1>1. \A r \in rows : RowValid(r) => /\ r.row \in Nat
                                     /\ \/ r.status = "Active" /\ r.end = -1
                                        \/ r.status # "Active" /\ r.end \in Nat
  BY DEF Numbered, RowValid, NoDate
<1>2. ASSUME NEW r \in rows, NEW s \in rows, RowValid(r), RowValid(s)
      PROVE  r = s \/ Outranks(r, s) \/ Outranks(s, r)
  BY <1>1, <1>2 DEF Numbered, Outranks
<1>3. ASSUME NEW r \in rows, NEW s \in rows, NEW u \in rows,
             RowValid(r), RowValid(s), RowValid(u), Outranks(r, s), Outranks(s, u)
      PROVE  Outranks(r, u)
  BY <1>1, <1>3 DEF Outranks
<1>4. ASSUME NEW r \in rows, RowValid(r) PROVE ~Outranks(r, r)
  BY <1>1, <1>4 DEF Outranks
<1> QED
  BY <1>2, <1>3, <1>4

(* No more than one row is kept of an id. *)
Unambiguous(agents) == \A a, b \in agents : a.id = b.id /\ a.id # NoId => a = b

LEMMA OneRowOfAnId ==
  ASSUME NEW rows, Numbered(rows)
  PROVE  Unambiguous(ValidAgents(rows)) /\ IsFiniteSet(ValidAgents(rows))
<1>1. Unambiguous(ValidAgents(rows))
  BY OutranksIsTotal DEF ValidAgents, Unambiguous
<1>2. ValidAgents(rows) \subseteq rows /\ IsFiniteSet(rows)
  BY DEF ValidAgents, Numbered
<1> QED
  BY <1>1, <1>2, FS_Subset

(* And one is kept, of those still employed if there is one. *)
LEMMA SomeRowOfAnId ==
  ASSUME NEW rows, Numbered(rows), NEW r \in rows, RowValid(r), r.id # NoId
  PROVE  \E a \in ValidAgents(rows) :
           a.id = r.id /\ (r.status = "Active" => a.status = "Active")
<1> DEFINE Rivals == {s \in rows : RowValid(s) /\ s.id = r.id}
           Above(s) == {u \in Rivals : Outranks(u, s)}
           F == {Above(s) : s \in Rivals}
<1>1. F \in SUBSET (SUBSET rows) /\ F # {} /\ IsFiniteSet(rows)
  <2>1. \A s \in Rivals : Above(s) \in SUBSET rows
    OBVIOUS
  <2>2. r \in Rivals
    OBVIOUS
  <2>3. IsFiniteSet(rows)
    BY DEF Numbered
  <2> HIDE DEF Rivals, Above
  <2> QED
    BY <2>1, <2>2, <2>3
<1>2. PICK T \in F : \A U \in F : U \subseteq T => U = T
  <2> HIDE DEF F
  <2> QED
    BY <1>1, SmallestSet
<1>3. PICK a \in Rivals : T = Above(a)
  BY <1>2
<1>4. Above(a) = {}
  <2> SUFFICES ASSUME NEW u \in Above(a) PROVE FALSE
    OBVIOUS
  <2>1. u \in Rivals /\ Outranks(u, a)
    OBVIOUS
  <2>2. Above(u) \subseteq Above(a)
    BY <2>1, OutranksIsTotal
  <2>3. u \notin Above(u)
    BY <2>1, OutranksIsTotal
  <2> QED
    BY <1>2, <1>3, <2>1, <2>2, <2>3
<1>5. a \in rows /\ RowValid(a) /\ a.id = r.id
  OBVIOUS
<1>6. ~\E s \in rows : RowValid(s) /\ s.id = a.id /\ Outranks(s, a)
  BY <1>4
<1>7. a \in ValidAgents(rows)
  BY <1>5, <1>6 DEF ValidAgents
<1>8. ASSUME r.status = "Active" PROVE a.status = "Active"
  <2>1. ~Outranks(r, a)
    BY <1>5, <1>6
  <2> QED
    BY <1>8, <2>1 DEF Outranks
<1> QED
  BY <1>5, <1>7, <1>8

(* A cell belongs to at most one row. *)
LEMMA ResolvesToOne ==
  ASSUME NEW agents, Unambiguous(agents), IsFiniteSet(agents), NEW id, NEW name, NEW day
  PROVE  \A a, b \in Resolve(agents, id, name, day) : a = b
<1> DEFINE byId == {a \in agents : a.id = id}
           named == {a \in agents : a.name = name}
<1>1. CASE id = NoId
  BY <1>1 DEF Resolve
<1>2. CASE id # NoId /\ byId # {}
  <2>1. Resolve(agents, id, name, day) \subseteq byId
    BY <1>2 DEF Resolve
  <2>2. \A a, b \in byId : a = b
    BY <1>2 DEF Unambiguous
  <2> QED
    BY <2>1, <2>2
<1>3. CASE id # NoId /\ byId = {} /\ Cardinality(named) = 1
  <2>1. Resolve(agents, id, name, day) \subseteq named
    BY <1>3 DEF Resolve
  <2>2. IsFiniteSet(named)
    <3>1. named \subseteq agents
      OBVIOUS
    <3> QED
      BY <3>1, FS_Subset
  <2>3. \E x : named = {x}
    <3> HIDE DEF named
    <3> QED
      BY <1>3, <2>2, FS_Singleton
  <2> QED
    BY <2>1, <2>3
<1>4. CASE id # NoId /\ byId = {} /\ Cardinality(named) # 1
  BY <1>4 DEF Resolve
<1> QED
  BY <1>1, <1>2, <1>3, <1>4

(* It belongs to one exactly if it means one who was employed on the day. *)
LEMMA ResolvesWhomItMeans ==
  ASSUME NEW agents, Unambiguous(agents), IsFiniteSet(agents), NEW c
  PROVE  (Resolve(agents, c.id, c.name, c.day) # {})
           <=> \E a \in agents : MeantBy(c, a, agents) /\ EligibleOn(a, c.day)
<1> DEFINE byId == {a \in agents : a.id = c.id}
           named == {a \in agents : a.name = c.name}
<1>1. CASE c.id = NoId
  BY <1>1 DEF Resolve, MeantBy
<1>2. CASE c.id # NoId /\ byId # {}
  <2>1. Resolve(agents, c.id, c.name, c.day) = {a \in byId : EligibleOn(a, c.day)}
    BY <1>2 DEF Resolve
  <2>2. \A a \in agents : MeantBy(c, a, agents) <=> a \in byId
    BY <1>2 DEF MeantBy
  <2> QED
    BY <2>1, <2>2
<1>3. CASE c.id # NoId /\ byId = {} /\ Cardinality(named) = 1
  <2>1. Resolve(agents, c.id, c.name, c.day) = {a \in named : EligibleOn(a, c.day)}
    BY <1>3 DEF Resolve
  <2>2. PICK x : named = {x}
    <3>1. named \in SUBSET agents
      OBVIOUS
    <3> HIDE DEF named
    <3> QED
      BY <1>3, <3>1, FS_Subset, FS_Singleton
  <2>3. \A a \in agents : MeantBy(c, a, agents) <=> a \in named
    BY <1>3, <2>2 DEF MeantBy
  <2> QED
    BY <2>1, <2>3
<1>4. CASE c.id # NoId /\ byId = {} /\ Cardinality(named) # 1
  <2>1. Resolve(agents, c.id, c.name, c.day) = {}
    BY <1>4 DEF Resolve
  <2>2. ASSUME NEW a \in agents, MeantBy(c, a, agents) PROVE FALSE
    <3>1. named = {a}
      BY <1>4, <2>2 DEF MeantBy
    <3>2. Cardinality({a}) = 1
      BY FS_Singleton
    <3> QED
      BY <1>4, <3>1, <3>2
  <2> QED
    BY <2>1, <2>2
<1> QED
  BY <1>1, <1>2, <1>3, <1>4

(* The canonical agents after n rows: one for every id of the roster, and one for
   every id a scoped row has. *)
AgentsRight(canonical, agents, rows, n) ==
  /\ WithIds(agents) \subseteq canonical
  /\ \A c \in canonical : c.agent \in agents
  /\ \A c, d \in canonical : c.client = d.client => c = d
  /\ \A i \in 1..n : rows[i].inScope => \E c \in canonical : c.client = rows[i].cell.id

ScopedBy(agents, R) ==
  \A r \in R : r.inScope = (Resolve(agents, r.cell.id, r.cell.name, r.cell.day) # {})

LEMMA PutKeepsAgents ==
  ASSUME NEW agents, Unambiguous(agents), IsFiniteSet(agents),
         NEW R, ScopedBy(agents, R), NEW rows \in Seq(R), NEW n \in 1..Len(rows),
         NEW canonical, AgentsRight(canonical, agents, rows, n - 1)
  PROVE  AgentsRight(PutAgent(agents, canonical, rows[n]), agents, rows, n)
<1> DEFINE r == rows[n]
           m == n - 1
           found == Resolve(agents, r.cell.id, r.cell.name, r.cell.day)
           added == {[client |-> r.cell.id, agent |-> a] : a \in found}
<1>1. /\ r \in R
      /\ \A i \in 1..n : i \in 1..m \/ i = n
  OBVIOUS
<1>2. AgentsRight(canonical, agents, rows, m)
  OBVIOUS
<1> HIDE DEF m
<1>3. CASE ~r.inScope \/ \E c \in canonical : c.client = r.cell.id
  <2>1. PutAgent(agents, canonical, r) = canonical
    BY <1>3 DEF PutAgent
  <2>2. AgentsRight(canonical, agents, rows, n)
    BY <1>1, <1>2, <1>3 DEF AgentsRight
  <2> QED
    BY <2>1, <2>2
<1>4. CASE r.inScope /\ \A c \in canonical : c.client # r.cell.id
  <2>1. PutAgent(agents, canonical, r) = canonical \cup added
    BY <1>4 DEF PutAgent
  <2>2. PICK a \in found : \A b \in found : b = a
    <3>1. found # {}
      BY <1>1, <1>4 DEF ScopedBy
    <3>2. \A a, b \in found : a = b
      BY ResolvesToOne
    <3> QED
      BY <3>1, <3>2
  <2>3. a \in agents
    BY DEF Resolve
  <2> DEFINE new == [client |-> r.cell.id, agent |-> a]
  <2>4. added = {new}
    BY <2>2
  <2>5. new.client = r.cell.id /\ new.agent = a
    OBVIOUS
  <2> HIDE DEF added, found, new, r
  <2>6. AgentsRight(canonical \cup {new}, agents, rows, n)
    BY <1>1, <1>2, <1>4, <2>3, <2>5 DEF AgentsRight, r
  <2> QED
    BY <2>1, <2>4, <2>6 DEF r
<1> QED
  BY <1>3, <1>4

LEMMA AgentsAreRight ==
  ASSUME NEW agents, Unambiguous(agents), IsFiniteSet(agents),
         NEW R, ScopedBy(agents, R), NEW rows \in Seq(R)
  PROVE  AgentsRight(CanonicalAgents(agents, rows), agents, rows, Len(rows))
<1>1. PICK f : /\ f[0] = WithIds(agents) /\ f[Len(rows)] = CanonicalAgents(agents, rows)
               /\ \A n \in 1..Len(rows) : f[n] = PutAgent(agents, f[n - 1], rows[n])
  BY AgentsRowByRow
<1> DEFINE Bad == {n \in 0..Len(rows) : ~AgentsRight(f[n], agents, rows, n)}
<1>2. Bad = {}
  <2> SUFFICES ASSUME Bad # {} PROVE FALSE
    OBVIOUS
  <2>1. Bad \in SUBSET Nat
    OBVIOUS
  <2>2. PICK n \in Bad : \A m \in Bad : n <= m
    <3> HIDE DEF Bad
    <3> QED
      BY <2>1, LeastNumber
  <2>3. n # 0
    <3>1. AgentsRight(WithIds(agents), agents, rows, 0)
      BY DEF AgentsRight, WithIds, Unambiguous
    <3> QED
      BY <1>1, <2>2, <3>1
  <2>4. n \in 1..Len(rows) /\ n - 1 \in 0..Len(rows) /\ n - 1 \notin Bad
    BY <2>2, <2>3
  <2>5. AgentsRight(f[n - 1], agents, rows, n - 1)
    BY <2>4
  <2>6. AgentsRight(PutAgent(agents, f[n - 1], rows[n]), agents, rows, n)
    BY <2>4, <2>5, PutKeepsAgents
  <2> QED
    BY <1>1, <2>2, <2>4, <2>6
<1>3. Len(rows) \in 0..Len(rows)
  OBVIOUS
<1> QED
  BY <1>1, <1>2, <1>3

--------------------------------------------------------------------------------
(* What is published *)

Placed(n, i) ==
  [cell |-> schedules[n].rows[i].cell, inScope |-> schedules[n].rows[i].inScope,
   mtime |-> schedules[n].mtime, key |-> schedules[n].key, row |-> i]
PlacedRows ==
  UNION {{Placed(n, i) : i \in DOMAIN schedules[n].rows} : n \in DOMAIN schedules}

(* A snapshot's rows are those of its files, and a file's name and a row number
   name one of them. *)
LEMMA PublishedRows ==
  ASSUME SchedulesHeld
  PROVE  /\ SnapshotRows(schedules) \in Seq(PlacedRows)
         /\ Ranked(PlacedRows) /\ ScopedBy(roster.agents, PlacedRows)
<1>1. \A n \in DOMAIN schedules : /\ schedules[n] \in Snapshots
                                  /\ schedules[n].rows \in Seq([cell : Cells, inScope : BOOLEAN])
                                  /\ schedules[n].key \in 1..FileCount
                                  /\ schedules[n].mtime \in Nat
  <2>1. \A n \in DOMAIN schedules : schedules[n] \in Snapshots
    BY DEF SchedulesHeld
  <2> QED
    BY <2>1 DEF Snapshots
<1>2. \A n \in DOMAIN schedules :
        DOMAIN schedules[n].rows = 1..Len(schedules[n].rows) /\ Len(schedules[n].rows) \in Nat
  BY <1>1
<1>3. SnapshotRows(schedules) \in Seq(PlacedRows)
  <2> DEFINE seqs == [n \in DOMAIN schedules |->
                        [i \in DOMAIN schedules[n].rows |-> Placed(n, i)]]
  <2>1. ASSUME NEW n \in DOMAIN schedules PROVE seqs[n] \in Seq(PlacedRows)
    <3>1. \A i \in DOMAIN schedules[n].rows : Placed(n, i) \in PlacedRows
      BY DEF PlacedRows
    <3>2. seqs[n] = [i \in 1..Len(schedules[n].rows) |-> Placed(n, i)]
      BY <1>2
    <3> HIDE DEF seqs
    <3> QED
      BY <1>2, <3>1, <3>2
  <2>2. DOMAIN schedules = 1..Len(schedules) /\ Len(schedules) \in Nat
    BY DEF SchedulesHeld
  <2>3. seqs \in Seq(Seq(PlacedRows))
    <3>1. DOMAIN seqs = 1..Len(schedules) /\ seqs = [n \in DOMAIN seqs |-> seqs[n]]
      BY <2>2
    <3> HIDE DEF seqs
    <3> QED
      BY <2>1, <2>2, <3>1
  <2>4. SnapshotRows(schedules) = FlattenSeq(seqs)
    BY DEF SnapshotRows, Placed
  <2> HIDE DEF seqs
  <2> QED
    BY <2>3, <2>4, FlattenKeeps
<1>4. Ranked(PlacedRows)
  <2>1. ASSUME NEW n \in DOMAIN schedules, NEW i \in DOMAIN schedules[n].rows
        PROVE  Placed(n, i).mtime \in Nat /\ Placed(n, i).key \in Nat /\ Placed(n, i).row \in Nat
    BY <1>1, <1>2 DEF Placed
  <2>2. ASSUME NEW n \in DOMAIN schedules, NEW i \in DOMAIN schedules[n].rows,
               NEW m \in DOMAIN schedules, NEW j \in DOMAIN schedules[m].rows,
               Placed(n, i).key = Placed(m, j).key, Placed(n, i).row = Placed(m, j).row
        PROVE  Placed(n, i) = Placed(m, j)
    <3>1. schedules[n].key = schedules[m].key /\ i = j
      BY <2>2 DEF Placed
    <3>2. n \in Nat /\ m \in Nat
      BY DEF SchedulesHeld
    <3>3. ~(n < m) /\ ~(m < n)
      BY <1>1, <3>1 DEF SchedulesHeld
    <3> QED
      BY <3>1, <3>2, <3>3
  <2>3. \A r \in PlacedRows : \E n \in DOMAIN schedules :
          \E i \in DOMAIN schedules[n].rows : r = Placed(n, i)
    BY DEF PlacedRows
  <2> QED
    BY <2>1, <2>2, <2>3 DEF Ranked
<1>5. ScopedBy(roster.agents, PlacedRows)
  <2>1. ASSUME NEW n \in DOMAIN schedules, NEW i \in DOMAIN schedules[n].rows,
               NEW r, r = Placed(n, i)
        PROVE  r.inScope = (Resolve(roster.agents, r.cell.id, r.cell.name, r.cell.day) # {})
    <3>1. r.cell = schedules[n].rows[i].cell /\ r.inScope = schedules[n].rows[i].inScope
      BY <2>1 DEF Placed
    <3> QED
      BY <3>1 DEF SchedulesHeld
  <2>2. \A r \in PlacedRows : \E n \in DOMAIN schedules :
          \E i \in DOMAIN schedules[n].rows : r = Placed(n, i)
    BY DEF PlacedRows
  <2> QED
    BY <2>1, <2>2 DEF ScopedBy
<1> QED
  BY <1>3, <1>4, <1>5

(* What is said of a cut holds of what a refresh publishes. *)
LEMMA PublishIsRight ==
  ASSUME RosterHeld, SchedulesHeld, Publish
  PROVE  CutRight'
<1> DEFINE rows == SnapshotRows(schedules)
           shifts == CanonicalShifts(rows)
           agents == roster.agents
           canonical == CanonicalAgents(agents, rows)
<1>1. /\ cut'.agents = canonical /\ cut'.shifts = shifts /\ cut'.timeOff = roster.timeOff
      /\ cut'.rawRoster = roster.rows /\ cut'.raw = rows
  BY DEF Publish
<1>2. /\ rows \in Seq(PlacedRows)
      /\ Ranked(PlacedRows) /\ ScopedBy(agents, PlacedRows)
  BY PublishedRows
<1>3. /\ Numbered(roster.rows) /\ agents = ValidAgents(roster.rows)
      /\ Unambiguous(agents) /\ IsFiniteSet(agents)
  BY OneRowOfAnId DEF RosterHeld
<1> HIDE DEF rows, agents
<1>4. KeepsNewest(shifts, rows, Len(rows))
  BY <1>2, ShiftsAreNewest
<1>5. AgentsRight(canonical, agents, rows, Len(rows))
  BY <1>2, <1>3, AgentsAreRight
<1>6. DOMAIN rows = 1..Len(rows) /\ \A i \in DOMAIN rows : rows[i] \in PlacedRows
  BY <1>2
<1> HIDE DEF shifts, canonical
<1>7. ASSUME NEW c \in canonical PROVE {d \in canonical : d.client = c.client} = {c}
  BY <1>5 DEF AgentsRight
<1>8. ASSUME NEW s \in shifts
      PROVE  \E c \in canonical : c.client = s.cell.id
  BY <1>4, <1>5 DEF KeepsNewest, AgentsRight
<1>9. NewestScheduleWins'
  <2>1. RawRows' = {rows[i] : i \in DOMAIN rows}
    BY <1>1 DEF RawRows
  <2>2. ASSUME NEW r \in RawRows', r.inScope
        PROVE  /\ Cardinality({s \in shifts : SameSlot(r, s)}) = 1
               /\ \A s \in shifts : SameSlot(r, s) => s = r \/ Newer(s, r)
    <3>1. PICK s \in shifts : SameSlot(r, s) /\ (s = r \/ Newer(s, r))
      BY <1>4, <1>6, <2>1, <2>2 DEF KeepsNewest
    <3>2. \A u \in shifts : SameSlot(r, u) => u = s
      BY <1>4, <3>1 DEF KeepsNewest, SameSlot
    <3>3. {u \in shifts : SameSlot(r, u)} = {s}
      BY <3>1, <3>2
    <3>4. Cardinality({s}) = 1
      BY FS_Singleton
    <3> QED
      BY <3>1, <3>2, <3>3, <3>4
  <2> QED
    BY <1>1, <2>2 DEF NewestScheduleWins
<1>10. ShiftsHaveOneAgent'
  <2>1. ASSUME NEW s \in shifts
        PROVE  /\ Cardinality({c \in canonical : c.client = s.cell.id}) = 1
               /\ \/ \E a \in agents : a.id = s.cell.id
                  \/ Cardinality({a \in agents : a.name = s.cell.name}) = 1
    <3>1. PICK c \in canonical : c.client = s.cell.id
      BY <1>8
    <3>2. {d \in canonical : d.client = s.cell.id} = {c}
      BY <1>7, <3>1
    <3>3. Cardinality({c}) = 1
      BY FS_Singleton
    <3>4. PICK i \in 1..Len(rows) : s = rows[i] /\ s.inScope
      BY <1>4 DEF KeepsNewest
    <3>5. Resolve(agents, s.cell.id, s.cell.name, s.cell.day) # {}
      BY <1>2, <1>6, <3>4 DEF ScopedBy
    <3>6. \/ \E a \in agents : a.id = s.cell.id
          \/ Cardinality({a \in agents : a.name = s.cell.name}) = 1
      BY <3>5 DEF Resolve
    <3> QED
      BY <3>2, <3>3, <3>6
  <2>2. ASSUME NEW t \in roster.timeOff
        PROVE  Cardinality({c \in canonical : c.client = t.id}) = 1
    <3>1. PICK a \in agents : t.id # NoId /\ a.id = t.id
      BY DEF RosterHeld, agents
    <3>2. [client |-> a.id, agent |-> a] \in canonical
      BY <1>5, <3>1 DEF AgentsRight, WithIds
    <3>3. {c \in canonical : c.client = t.id} = {[client |-> a.id, agent |-> a]}
      BY <1>7, <3>1, <3>2
    <3>4. Cardinality({[client |-> a.id, agent |-> a]}) = 1
      BY FS_Singleton
    <3> QED
      BY <3>3, <3>4
  <2> QED
    BY <1>1, <1>3, <2>1, <2>2 DEF ShiftsHaveOneAgent
<1>11. CutOfOneRoster'
  <2>1. RawRows' = {rows[i] : i \in DOMAIN rows}
    BY <1>1 DEF RawRows
  <2>2. ASSUME NEW r \in RawRows'
        PROVE  r.inScope <=> \E a \in agents : /\ MeantBy(r.cell, a, agents)
                                               /\ EligibleOn(a, r.cell.day)
    <3>1. r.inScope = (Resolve(agents, r.cell.id, r.cell.name, r.cell.day) # {})
      BY <1>2, <1>6, <2>1, <2>2 DEF ScopedBy
    <3> QED
      BY <1>3, <3>1, ResolvesWhomItMeans
  <2>3. \A s \in shifts : s \in RawRows' /\ s.inScope
    BY <1>4, <1>6, <2>1 DEF KeepsNewest
  <2> QED
    BY <1>1, <1>3, <2>2, <2>3 DEF CutOfOneRoster
<1>12. DuplicatesKeepOne'
  <2>1. ASSUME NEW r \in roster.rows, RowValid(r), r.id # NoId
        PROVE  \E c \in canonical : /\ {d \in canonical : d.client = r.id} = {c}
                                    /\ c.agent.id = r.id
                                    /\ r.status = "Active" => c.agent.status = "Active"
    <3>1. PICK a \in agents : a.id = r.id /\ (r.status = "Active" => a.status = "Active")
      BY <1>3, <2>1, SomeRowOfAnId
    <3> DEFINE c == [client |-> a.id, agent |-> a]
    <3>2. c \in canonical
      BY <1>5, <2>1, <3>1 DEF AgentsRight, WithIds
    <3>3. c.client = r.id /\ c.agent = a
      BY <3>1
    <3> HIDE DEF c
    <3>4. {d \in canonical : d.client = r.id} = {c}
      BY <1>7, <3>2, <3>3
    <3> QED
      BY <3>1, <3>2, <3>3, <3>4
  <2> QED
    BY <1>1, <2>1 DEF DuplicatesKeepOne
<1> QED
  BY <1>9, <1>10, <1>11, <1>12 DEF CutRight

--------------------------------------------------------------------------------
(* The invariant holds *)

LEMMA CellsOfText ==
  ASSUME NEW text \in ScheduleTexts
  PROVE  text \in Seq(Cells) /\ DOMAIN text = 1..Len(text) /\ Len(text) \in Nat
<1>1. text \in Seq({text[i] : i \in DOMAIN text})
  BY RosterScheduleAssumption
<1>2. {text[i] : i \in DOMAIN text} \subseteq Cells
  BY DEF Cells
<1> HIDE DEF Cells
<1>3. DOMAIN text = 1..Len(text) /\ Len(text) \in Nat
  BY <1>1
<1>4. \A i \in 1..Len(text) : text[i] \in Cells
  BY <1>2, <1>3
<1>5. text = [i \in 1..Len(text) |-> text[i]]
  BY <1>1
<1> QED
  BY <1>3, <1>4, <1>5

(* A file is read into a snapshot, whatever was written in it meanwhile. *)
LEMMA ParsedSnapshot ==
  ASSUME DiskTyped, NEW k \in 1..FileCount, NEW agents
  PROVE  Parsed(k, agents) \in Snapshots
<1> DEFINE cells == files[k].cells
<1>1. /\ files[k].mtime \in Nat /\ cells \in Seq(Cells)
      /\ DOMAIN cells = 1..Len(cells) /\ Len(cells) \in Nat
  <2>1. CASE files[k] = NoFile
    BY <2>1 DEF NoFile
  <2>2. CASE files[k] \in [mtime : Times, cells : ScheduleTexts]
    BY <2>2, CellsOfText, RosterScheduleAssumption
  <2> QED
    BY <2>1, <2>2 DEF DiskTyped
<1> DEFINE parsed == [i \in DOMAIN cells |-> Scoped(agents, cells[i])]
<1>2. parsed \in Seq([cell : Cells, inScope : BOOLEAN])
  <2>1. \A i \in 1..Len(cells) : Scoped(agents, cells[i]) \in [cell : Cells, inScope : BOOLEAN]
    BY <1>1 DEF Scoped
  <2>2. parsed = [i \in 1..Len(cells) |-> Scoped(agents, cells[i])]
    BY <1>1
  <2> HIDE DEF parsed
  <2> QED
    BY <1>1, <2>1, <2>2
<1>3. Parsed(k, agents) = [key |-> k, mtime |-> files[k].mtime, rows |-> parsed]
  BY DEF Parsed
<1> HIDE DEF parsed, cells
<1> QED
  BY <1>1, <1>2, <1>3 DEF Snapshots

LEMMA InitRight == Init => RosterInv
<1> SUFFICES ASSUME Init PROVE RosterInv
  OBVIOUS
<1>1. DiskTyped
  BY RosterScheduleAssumption DEF Init, DiskTyped
<1>2. RosterHeld
  BY FS_EmptySet DEF Init, RosterHeld, Numbered, ValidAgents
<1>3. SchedulesHeld
  BY DEF Init, SchedulesHeld
<1>4. Progress
  BY DEF Init, Progress
<1>5. CutRight
  BY DEF Init, CutRight, NoCut, NewestScheduleWins, RawRows, ShiftsHaveOneAgent,
         CutOfOneRoster, DuplicatesKeepOne
<1> QED
  BY <1>1, <1>2, <1>3, <1>4, <1>5 DEF RosterInv

(* Whatever is said of a cut says nothing of the rest of the state. *)
LEMMA SameCut ==
  ASSUME CutRight, UNCHANGED cut
  PROVE  CutRight'
BY DEF CutRight, NewestScheduleWins, RawRows, ShiftsHaveOneAgent, CutOfOneRoster,
       DuplicatesKeepOne

LEMMA SameSchedules ==
  ASSUME SchedulesHeld, UNCHANGED <<roster, schedules>>
  PROVE  SchedulesHeld'
BY DEF SchedulesHeld

(* The next file to read is the first by name. *)
LEMMA FirstUnread ==
  ASSUME unread \in SUBSET (1..FileCount), unread # {}
  PROVE  NextToRead \in unread /\ \A j \in unread : NextToRead <= j
<1>1. unread \in SUBSET Nat
  BY RosterScheduleAssumption
<1>2. \E k \in unread : \A j \in unread : k <= j
  BY <1>1, LeastNumber
<1> QED
  BY <1>2 DEF NextToRead

LEMMA StepRight == RosterInv /\ [Next]_vars => RosterInv'
<1> SUFFICES ASSUME RosterInv, [Next]_vars PROVE RosterInv'
  OBVIOUS
<1>1. DiskTyped /\ RosterHeld /\ SchedulesHeld /\ Progress /\ CutRight
  BY DEF RosterInv
<1>2. CASE WriteWorkbook
  <2>1. DiskTyped'
    BY <1>1, <1>2, RosterScheduleAssumption DEF WriteWorkbook, DiskTyped
  <2>2. RosterHeld' /\ Progress'
    BY <1>1, <1>2 DEF WriteWorkbook, RosterHeld, Progress
  <2> QED
    BY <1>1, <1>2, <2>1, <2>2, SameCut, SameSchedules DEF WriteWorkbook, RosterInv
<1>3. CASE WriteSchedule
  <2>1. DiskTyped'
    BY <1>1, <1>3, RosterScheduleAssumption DEF WriteSchedule, DiskTyped
  <2>2. RosterHeld' /\ Progress'
    BY <1>1, <1>3 DEF WriteSchedule, RosterHeld, Progress
  <2> QED
    BY <1>1, <1>3, <2>1, <2>2, SameCut, SameSchedules DEF WriteSchedule, RosterInv
<1>4. CASE ReadRoster
  <2>1. DiskTyped'
    BY <1>1, <1>4 DEF ReadRoster, DiskTyped, disk
  <2>2. RosterHeld'
    <3>1. PICK sheet \in RosterSheets(workbook) :
            roster' = [rows |-> sheet.rows, agents |-> ValidAgents(sheet.rows),
                       timeOff |-> {t \in workbook.registers :
                                      TimeOffValid(t, ValidAgents(sheet.rows), sheet.rows)}]
      BY <1>4 DEF ReadRoster
    <3>2. workbook \in Workbooks /\ sheet \in workbook.sheets
      BY <1>1 DEF DiskTyped, RosterSheets
    <3>3. Numbered(sheet.rows)
      BY <3>2, RosterScheduleAssumption DEF Numbered
    <3>4. \A t \in roster'.timeOff :
            TimeOffValid(t, ValidAgents(sheet.rows), sheet.rows)
      BY <3>1
    <3>5. \A t \in roster'.timeOff :
            t.id # NoId /\ \E a \in ValidAgents(sheet.rows) : a.id = t.id
      BY <3>4 DEF TimeOffValid
    <3>6. roster'.rows = sheet.rows /\ roster'.agents = ValidAgents(sheet.rows)
      BY <3>1
    <3> QED
      BY <3>3, <3>5, <3>6 DEF RosterHeld
  <2>3. SchedulesHeld'
    BY <1>4 DEF ReadRoster, SchedulesHeld
  <2>4. Progress'
    BY <1>1, <1>4 DEF ReadRoster, Progress
  <2>5. CutRight'
    BY <1>1, <1>4, SameCut DEF ReadRoster
  <2> QED
    BY <2>1, <2>2, <2>3, <2>4, <2>5 DEF RosterInv
<1>5. CASE ListSchedules
  <2>1. DiskTyped' /\ RosterHeld'
    BY <1>1, <1>5 DEF ListSchedules, DiskTyped, disk, RosterHeld
  <2>2. Progress'
    BY <1>1, <1>5 DEF ListSchedules, Progress
  <2> QED
    BY <1>1, <1>5, <2>1, <2>2, SameCut, SameSchedules DEF ListSchedules, RosterInv
<1>6. CASE ReadSchedule
  <2> DEFINE k == NextToRead
             snapshot == Parsed(k, roster.agents)
             N == Len(schedules)
  <2>1. DiskTyped' /\ RosterHeld'
    BY <1>1, <1>6 DEF ReadSchedule, DiskTyped, disk, RosterHeld
  <2>2. k \in unread /\ k \in 1..FileCount /\ \A j \in unread : k <= j
    BY <1>1, <1>6, FirstUnread DEF ReadSchedule, Progress
  <2>3. snapshot \in Snapshots /\ snapshot.key = k
    BY <1>1, <2>2, ParsedSnapshot DEF Parsed
  <2>4. /\ schedules' = Append(schedules, snapshot) /\ unread' = unread \ {k}
        /\ phase = "reading" /\ UNCHANGED <<phase, roster, cut>>
    BY <1>6 DEF ReadSchedule
  <2>5. \A i \in DOMAIN snapshot.rows :
          LET r == snapshot.rows[i]
          IN r.inScope = (Resolve(roster.agents, r.cell.id, r.cell.name, r.cell.day) # {})
    BY DEF Parsed, Scoped
  <2> HIDE DEF k, snapshot
  <2>6. /\ N \in Nat /\ schedules' \in Seq(Snapshots) /\ Len(schedules') = N + 1
        /\ DOMAIN schedules = 1..N /\ DOMAIN schedules' = 1..(N + 1)
        /\ schedules'[N + 1] = snapshot
        /\ \A n \in 1..N : schedules'[n] = schedules[n]
    <3>1. schedules \in Seq(Snapshots)
      BY <1>1 DEF SchedulesHeld
    <3> QED
      BY <2>3, <2>4, <3>1
  <2> HIDE DEF N
  <2>7. \A n \in 1..N : schedules[n].key < k /\ schedules[n].key \in Nat
    <3>1. \A n \in 1..N : schedules[n].key < k
      BY <1>1, <2>2, <2>4, <2>6 DEF Progress
    <3>2. \A n \in 1..N : schedules[n] \in Snapshots
      BY <1>1, <2>6 DEF SchedulesHeld
    <3>3. \A n \in 1..N : schedules[n].key \in 1..FileCount
      BY <3>2 DEF Snapshots
    <3> QED
      BY <3>1, <3>3
  <2>8. \A n \in 1..(N + 1) : n \in 1..N \/ n = N + 1
    BY <2>6
  <2>9. SchedulesHeld'
    <3>1. \A n \in 1..(N + 1) : \A i \in DOMAIN schedules'[n].rows :
            LET r == schedules'[n].rows[i]
            IN r.inScope = (Resolve(roster.agents, r.cell.id, r.cell.name, r.cell.day) # {})
      <4>1. \A n \in 1..N : \A i \in DOMAIN schedules[n].rows :
              LET r == schedules[n].rows[i]
              IN r.inScope = (Resolve(roster.agents, r.cell.id, r.cell.name, r.cell.day) # {})
        BY <1>1, <2>6 DEF SchedulesHeld
      <4>2. \A n \in 1..N : schedules'[n] = schedules[n]
        BY <2>6
      <4>3. ASSUME NEW n \in 1..(N + 1), NEW i \in DOMAIN schedules'[n].rows,
                   NEW r, r = schedules'[n].rows[i]
            PROVE  r.inScope
                     = (Resolve(roster.agents, r.cell.id, r.cell.name, r.cell.day) # {})
        <5>1. CASE n \in 1..N
          BY <4>1, <4>2, <4>3, <5>1
        <5>2. CASE n = N + 1
          <6>1. schedules'[n] = snapshot
            BY <2>6, <5>2
          <6> QED
            BY <2>5, <4>3, <6>1
        <5> QED
          BY <2>8, <5>1, <5>2
      <4> QED
        BY <4>3
    <3>2. \A m, n \in 1..(N + 1) : m < n => schedules'[m].key < schedules'[n].key
      <4>1. \A m, n \in 1..N : m < n => schedules[m].key < schedules[n].key
        BY <1>1, <2>6 DEF SchedulesHeld
      <4>2. \A m, n \in 1..(N + 1) : m < n => m \in 1..N
        BY <2>6
      <4> QED
        BY <2>3, <2>6, <2>7, <2>8, <4>1, <4>2
    <3>3. \A n \in 1..(N + 1) : n <= schedules'[n].key
      <4>1. \A n \in 1..N : n <= schedules[n].key
        BY <1>1, <2>6 DEF SchedulesHeld
      <4>2. N + 1 <= k
        <5>1. k \in Nat /\ k >= 1
          BY <2>2
        <5>2. CASE N = 0
          BY <5>1, <5>2
        <5>3. CASE N # 0
          <6>1. N \in 1..N
            BY <2>6, <5>3
          <6>2. N <= schedules[N].key /\ schedules[N].key < k /\ schedules[N].key \in Nat
            BY <2>7, <4>1, <6>1
          <6> QED
            BY <2>6, <5>1, <6>2
        <5> QED
          BY <5>2, <5>3
      <4>3. \A n \in 1..N : n <= schedules'[n].key
        BY <2>6, <4>1
      <4>4. N + 1 <= schedules'[N + 1].key
        BY <2>3, <2>6, <4>2
      <4> QED
        BY <2>8, <4>3, <4>4
    <3> QED
      BY <2>4, <2>6, <3>1, <3>2, <3>3 DEF SchedulesHeld
  <2>10. Progress'
    <3>1. \A j \in unread' : j \in unread /\ k < j
      <4>1. \A j \in unread : j \in Nat /\ k \in Nat
        BY <1>1, <2>2 DEF Progress
      <4> QED
        BY <2>2, <2>4, <4>1
    <3>2. \A n \in 1..(N + 1) : \A j \in unread' : schedules'[n].key < j
      BY <1>1, <2>3, <2>4, <2>6, <2>8, <3>1 DEF Progress
    <3> QED
      BY <1>1, <2>4, <2>6, <3>1, <3>2 DEF Progress
  <2>11. CutRight'
    BY <1>1, <2>4, SameCut
  <2> QED
    BY <2>1, <2>9, <2>10, <2>11 DEF RosterInv
<1>7. CASE AllRead
  <2>1. DiskTyped' /\ RosterHeld' /\ Progress'
    BY <1>1, <1>7 DEF AllRead, DiskTyped, disk, RosterHeld, Progress
  <2> QED
    BY <1>1, <1>7, <2>1, SameCut, SameSchedules DEF AllRead, RosterInv
<1>8. CASE Publish
  <2>1. DiskTyped' /\ RosterHeld' /\ Progress'
    BY <1>1, <1>8 DEF Publish, DiskTyped, disk, RosterHeld, Progress
  <2> QED
    BY <1>1, <1>8, <2>1, PublishIsRight, SameSchedules DEF Publish, RosterInv
<1>9. CASE GiveUp
  <2>1. DiskTyped' /\ RosterHeld' /\ Progress'
    BY <1>1, <1>9 DEF GiveUp, DiskTyped, disk, RosterHeld, Progress
  <2> QED
    BY <1>1, <1>9, <2>1, SameCut, SameSchedules DEF GiveUp, RosterInv
<1>10. CASE UNCHANGED vars
  <2>1. DiskTyped' /\ RosterHeld' /\ Progress'
    BY <1>1, <1>10 DEF vars, DiskTyped, disk, RosterHeld, Progress
  <2> QED
    BY <1>1, <1>10, <2>1, SameCut, SameSchedules DEF vars, RosterInv
<1> QED
  BY <1>2, <1>3, <1>4, <1>5, <1>6, <1>7, <1>8, <1>9, <1>10 DEF Next

(* Every state a refresh of any workbook and any schedules can reach satisfies it. *)
THEOREM RosterInvariant == Spec => []RosterInv
<1> QED
  BY InitRight, StepRight, PTL DEF Spec

--------------------------------------------------------------------------------
(* Theorems *)

(* Types, and a refresh holds each listed file at most once, in the order of names. *)
THEOREM RosterTypeCorrect == Spec => []TypeOK
<1>1. RosterInv => TypeOK
  <2> SUFFICES ASSUME RosterInv PROVE TypeOK
    OBVIOUS
  <2>1. DiskTyped /\ RosterHeld /\ SchedulesHeld /\ Progress
    BY DEF RosterInv
  <2>2. \A k \in 1..FileCount :
          files[k] = NoFile \/ (files[k].mtime \in Times /\ files[k].cells \in ScheduleTexts)
    BY <2>1 DEF DiskTyped
  <2>3. roster.agents \subseteq roster.rows
    BY <2>1 DEF RosterHeld, ValidAgents
  <2>4. Len(schedules) <= FileCount
    <3>1. Len(schedules) \in Nat /\ FileCount \in Nat
      BY <2>1, RosterScheduleAssumption DEF SchedulesHeld
    <3>2. CASE Len(schedules) = 0
      BY <3>1, <3>2
    <3>3. CASE Len(schedules) # 0
      <4>1. Len(schedules) \in DOMAIN schedules
        BY <2>1, <3>1, <3>3 DEF SchedulesHeld
      <4>2. schedules[Len(schedules)] \in Snapshots
        BY <2>1, <4>1 DEF SchedulesHeld
      <4>3. schedules[Len(schedules)].key \in 1..FileCount
        BY <4>2 DEF Snapshots
      <4>4. Len(schedules) <= schedules[Len(schedules)].key
        BY <2>1, <4>1 DEF SchedulesHeld
      <4> QED
        BY <3>1, <4>3, <4>4
    <3> QED
      BY <3>2, <3>3
  <2>5. \A n \in 1..Len(schedules) - 1 : schedules[n].key < schedules[n + 1].key
    <3>1. Len(schedules) \in Nat /\ DOMAIN schedules = 1..Len(schedules)
      BY <2>1 DEF SchedulesHeld
    <3>2. \A n \in 1..Len(schedules) - 1 :
            n \in DOMAIN schedules /\ n + 1 \in DOMAIN schedules /\ n < n + 1
      BY <3>1
    <3> QED
      BY <2>1, <3>2 DEF SchedulesHeld
  <2> QED
    BY <2>1, <2>2, <2>3, <2>4, <2>5 DEF TypeOK, DiskTyped, Progress
<1> QED
  BY <1>1, RosterInvariant, PTL

(* Whatever the order of the files and of the rows in them, every slot that a
   row of the roster's people schedules is published once, from the newest row. *)
THEOREM NewestScheduleIsKept == Spec => []NewestScheduleWins
<1>1. RosterInv => NewestScheduleWins
  BY DEF RosterInv, CutRight
<1> QED
  BY <1>1, RosterInvariant, PTL

(* Every shift and every absence of a cut is of exactly one canonical agent, and no
   shift is given to one of several bearers of a name. *)
THEOREM EveryShiftHasItsAgent == Spec => []ShiftsHaveOneAgent
<1>1. RosterInv => ShiftsHaveOneAgent
  BY DEF RosterInv, CutRight
<1> QED
  BY <1>1, RosterInvariant, PTL

(* A cut is scoped by the roster it publishes, whatever is written to the workbook
   while the schedules are read: exactly the cells of people whom that roster has
   employed on the day, by id or by the only row of their name, are in scope, and
   every shift is one of them. *)
THEOREM ScopedByItsRoster == Spec => []CutOfOneRoster
<1>1. RosterInv => CutOfOneRoster
  BY DEF RosterInv, CutRight
<1> QED
  BY <1>1, RosterInvariant, PTL

(* Of the usable rows of an id exactly one becomes the agent, an employed one if any. *)
THEOREM DuplicatesAreSettled == Spec => []DuplicatesKeepOne
<1>1. RosterInv => DuplicatesKeepOne
  BY DEF RosterInv, CutRight
<1> QED
  BY <1>1, RosterInvariant, PTL
================================================================================
