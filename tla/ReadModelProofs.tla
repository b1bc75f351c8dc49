---------------------------- MODULE ReadModelProofs ----------------------------
(***************************************************************************)
(* Proofs about what a refresh derives from the rows it has read.          *)
(*                                                                         *)
(* The canonical legs and the service intervals (CallFacts): for every set *)
(* of exports, however many files there are, in whatever order they are    *)
(* replaced while a refresh reads them.  The attendance of an agent day    *)
(* (AttendanceDay): for every shift, every set of register rows, every row *)
(* of the two sources and every moment.  The two share no state.           *)
(***************************************************************************)
EXTENDS CallFacts, AttendanceDay, FoldLemmas

(* Calls *)

(* A file on disk has finitely many rows, with numbers where the code parses numbers. *)
Readable(f) ==
  /\ f.mtime \in Nat /\ IsFiniteSet(DOMAIN f.rows)
  /\ \A i \in DOMAIN f.rows : /\ i \in Nat /\ f.headings \in Headings
                              /\ f.rows[i].response \in Int /\ f.rows[i].handled \in Int

(* A raw row is numbered, and has the key of what it says. *)
RawRow(x) ==
  /\ x.key \in Nat /\ x.mtime \in Nat /\ x.row \in Nat
  /\ x.data.response \in Int /\ x.data.handled \in Int
  /\ x.callKey = CallKey(x.data, x.headings)

(* No two raw rows are the same row of the same file: each file is read once. *)
RawInv ==
  /\ phase \in {"idle", "reading", "publishing"} /\ unread \subseteq 1..FileCount
  /\ \A k \in 1..FileCount : Readable(files[k])
  /\ IsFiniteSet(raw) /\ \A x \in raw : RawRow(x)
  /\ phase = "reading" => \A x \in raw : x.key \notin unread
  /\ \A x, y \in raw : x.key = y.key /\ x.row = y.row => x = y

(* The intervals are those of the legs. *)
CutInv ==
  /\ IsFiniteSet(legs) /\ \A x \in legs : x.data.response \in Int /\ x.data.handled \in Int
  /\ DOMAIN intervals = DOMAIN ServiceIntervals(legs)
  /\ \A s \in DOMAIN intervals : intervals[s] = ServiceIntervals(legs)[s]

CallInv == RawInv /\ CutInv

--------------------------------------------------------------------------------
(* Files *)

(* What is listed or written can be read. *)
LEMMA FilesReadable ==
  ASSUME NEW f \in {NoFile} \cup [mtime : Times, headings : Headings, rows : Exports]
  PROVE  Readable(f)
<1>1. CASE f = NoFile
  <2>1. DOMAIN f.rows = {} /\ f.mtime = 0
    BY <1>1 DEF NoFile
  <2> QED
    BY <2>1, FS_EmptySet DEF Readable
<1>2. CASE f \in [mtime : Times, headings : Headings, rows : Exports]
  <2> DEFINE rows == f.rows
  <2>1. rows \in Exports /\ f.mtime \in Times /\ f.headings \in Headings
    BY <1>2
  <2>2. /\ rows \in Seq({rows[i] : i \in DOMAIN rows}) /\ Times \subseteq Nat
        /\ \A i \in DOMAIN rows : rows[i].response \in Int /\ rows[i].handled \in Int
    BY <2>1, CallFactsAssumption
  <2> DEFINE R == {rows[i] : i \in DOMAIN rows}
  <2>3. Len(rows) \in Nat /\ DOMAIN rows = 1..Len(rows)
    <3>1. rows \in Seq(R)
      BY <2>2
    <3> HIDE DEF rows, R
    <3> QED
      BY <3>1
  <2>4. IsFiniteSet(DOMAIN rows)
    BY <2>3, FS_Interval
  <2>5. \A i \in DOMAIN rows : i \in Nat
    BY <2>3
  <2> QED
    BY <2>1, <2>2, <2>4, <2>5 DEF Readable
<1> QED
  BY <1>1, <1>2

(* The rows taken from a file are finitely many raw rows of that file, each once. *)
LEMMA RowsOfFile ==
  ASSUME NEW k \in Nat, Readable(files[k])
  PROVE  /\ IsFiniteSet(RawRows(k)) /\ \A x \in RawRows(k) : RawRow(x) /\ x.key = k
         /\ \A x, y \in RawRows(k) : x.row = y.row => x = y
<1> DEFINE f == files[k]
           admitted == {i \in DOMAIN f.rows : Admitted(f.rows[i])}
           taken(i) == [key |-> k, mtime |-> f.mtime, row |-> i, headings |-> f.headings,
                        data |-> f.rows[i], callKey |-> CallKey(f.rows[i], f.headings)]
           take == [i \in admitted |-> taken(i)]
<1>1. RawRows(k) = {taken(i) : i \in admitted}
  BY DEF RawRows
<1>2. IsFiniteSet(admitted)
  <2>1. admitted \in SUBSET (DOMAIN f.rows) /\ IsFiniteSet(DOMAIN f.rows)
    BY DEF Readable
  <2> QED
    BY <2>1, FS_Subset
<1>3. take \in Surjection(admitted, RawRows(k))
  <2>1. take \in [admitted -> RawRows(k)]
    BY <1>1
  <2>2. \A x \in RawRows(k) : \E i \in admitted : take[i] = x
    BY <1>1
  <2> HIDE DEF take
  <2> QED
    BY <2>1, <2>2 DEF Surjection
<1>4. IsFiniteSet(RawRows(k))
  BY <1>2, <1>3, FS_Surjection
<1>5. \A i \in admitted :
        /\ i \in Nat /\ f.mtime \in Nat /\ f.headings \in Headings
        /\ f.rows[i].response \in Int /\ f.rows[i].handled \in Int
  BY DEF Readable
<1>6. \A i \in admitted : RawRow(taken(i)) /\ taken(i).key = k /\ taken(i).row = i
  BY <1>5 DEF RawRow
<1> QED
  BY <1>1, <1>4, <1>6
--------------------------------------------------------------------------------
(* Copies *)

(* Newer is a strict order. *)
LEMMA NewerOrders ==
  ASSUME NEW x, NEW y, NEW z, RawRow(x), RawRow(y), RawRow(z)
  PROVE  /\ ~Newer(x, x)
         /\ Newer(x, y) /\ Newer(y, z) => Newer(x, z)
         /\ (x.key = y.key /\ x.row = y.row) \/ Newer(x, y) \/ Newer(y, x)
         /\ ~Newer(x, y) => y.mtime >= x.mtime /\ (y.mtime = x.mtime => y.key >= x.key)
<1> DEFINE a == x.mtime
           b == y.mtime
           c == z.mtime
           d == x.key
           e == y.key
           f == z.key
           g == x.row
           h == y.row
           i == z.row
<1>1. /\ a \in Nat /\ b \in Nat /\ c \in Nat /\ d \in Nat /\ e \in Nat /\ f \in Nat
      /\ g \in Nat /\ h \in Nat /\ i \in Nat
  BY DEF RawRow
<1> HIDE DEF a, b, c, d, e, f, g, h, i
<1>2. /\ Newer(x, x) <=> a > a \/ (a = a /\ d > d) \/ (a = a /\ d = d /\ g > g)
      /\ Newer(x, y) <=> a > b \/ (a = b /\ d > e) \/ (a = b /\ d = e /\ g > h)
      /\ Newer(y, x) <=> b > a \/ (b = a /\ e > d) \/ (b = a /\ e = d /\ h > g)
      /\ Newer(y, z) <=> b > c \/ (b = c /\ e > f) \/ (b = c /\ e = f /\ h > i)
      /\ Newer(x, z) <=> a > c \/ (a = c /\ d > f) \/ (a = c /\ d = f /\ g > i)
  BY DEF Newer, a, b, c, d, e, f, g, h, i
<1>3. /\ ~Newer(x, x)
      /\ Newer(x, y) /\ Newer(y, z) => Newer(x, z)
      /\ (d = e /\ g = h) \/ Newer(x, y) \/ Newer(y, x)
      /\ ~Newer(x, y) => b >= a /\ (b = a => e >= d)
  BY <1>1, <1>2
<1> QED
  BY <1>3 DEF a, b, c, d, e, f, g, h, i

(* Of the copies of a leg one is newest: that with the fewest newer ones has none. *)
LEMMA NewestCopy ==
  ASSUME NEW S, IsFiniteSet(S), S # {}, \A x \in S : RawRow(x)
  PROVE  \E x \in S : \A y \in S : ~Newer(y, x)
<1> DEFINE above(x) == {y \in S : Newer(y, x)}
           sizes == {Cardinality(above(x)) : x \in S}
<1>1. \A x \in S : IsFiniteSet(above(x)) /\ Cardinality(above(x)) \in Nat
  <2> SUFFICES ASSUME NEW x \in S
               PROVE  IsFiniteSet(above(x)) /\ Cardinality(above(x)) \in Nat
    OBVIOUS
  <2>1. above(x) \in SUBSET S
    OBVIOUS
  <2> HIDE DEF above
  <2> QED
    BY <2>1, FS_Subset, FS_CardinalityType
<1>2. PICK x \in S : \A z \in S : Cardinality(above(x)) <= Cardinality(above(z))
  <2> HIDE DEF above
  <2>1. sizes \in SUBSET Nat /\ sizes # {}
    BY <1>1
  <2>2. PICK n \in sizes : \A m \in sizes : n <= m
    <3> HIDE DEF sizes
    <3> QED
      BY <2>1, LeastNumber
  <2> QED
    BY <2>2
<1>3. ASSUME NEW y \in S, Newer(y, x) PROVE FALSE
  <2>1. above(y) \in SUBSET above(x)
    BY <1>3, NewerOrders
  <2>2. y \in above(x) /\ y \notin above(y)
    BY <1>3, NewerOrders
  <2>3. Cardinality(above(y)) <= Cardinality(above(x)) /\ above(x) # above(y)
    <3> HIDE DEF above
    <3> QED
      BY <1>1, <2>1, <2>2, FS_Subset
  <2>4. /\ Cardinality(above(x)) <= Cardinality(above(y))
        /\ Cardinality(above(y)) \in Nat /\ Cardinality(above(x)) \in Nat
    BY <1>1, <1>2
  <2>5. Cardinality(above(y)) = Cardinality(above(x))
    <3> HIDE DEF above
    <3> QED
      BY <2>3, <2>4
  <2> HIDE DEF above
  <2> QED
    BY <1>1, <2>1, <2>3, <2>5, FS_Subset
<1> QED
  BY <1>3

(* Raw rows have one key if they are copies of one leg. *)
LEMMA CopiesShareKeys ==
  ASSUME NEW x, NEW y, RawRow(x), RawRow(y)
  PROVE  SameLeg(y, x) <=> y.callKey = x.callKey
<1> DEFINE r == x.data
           s == y.data
           h == x.headings
           i == y.headings
<1>1. x.callKey = CallKey(r, h) /\ y.callKey = CallKey(s, i)
  BY DEF RawRow
<1>2. SameLeg(y, x) <=>
        /\ s.reference = r.reference /\ s.id = r.id /\ s.inbound = r.inbound
        /\ s.agent = r.agent /\ s.start = r.start /\ s.clearing = r.clearing
        /\ (s.reference = Blank /\ s.id = Blank) => (s = r /\ i = h)
  BY DEF SameLeg
<1> HIDE DEF r, s, h, i
<1>3. SameLeg(y, x) <=> CallKey(s, i) = CallKey(r, h)
  <2>1. CASE s.reference = Blank /\ s.id = Blank
    BY <1>2, <2>1 DEF CallKey
  <2>2. CASE ~(s.reference = Blank /\ s.id = Blank)
    BY <1>2, <2>2 DEF CallKey
  <2> QED
    BY <2>1, <2>2
<1> QED
  BY <1>1, <1>3

(* Of raw rows that are not the same row of a file, every leg is kept once, in its
   newest copy. *)
LEMMA CanonicalKeepsOne ==
  ASSUME RawInv, NEW x \in raw
  PROVE  \E leg \in Canonical(raw) :
           /\ {l \in Canonical(raw) : SameLeg(l, x)} = {leg}
           /\ leg.mtime >= x.mtime
           /\ leg.mtime = x.mtime => leg.key >= x.key
<1>1. /\ IsFiniteSet(raw) /\ \A y \in raw : RawRow(y)
      /\ \A y, z \in raw : y.key = z.key /\ y.row = z.row => y = z
  BY DEF RawInv
<1> DEFINE copies == {y \in raw : y.callKey = x.callKey}
<1>2. IsFiniteSet(copies) /\ copies # {} /\ \A y \in copies : RawRow(y)
  <2>1. copies \in SUBSET raw /\ x \in copies
    OBVIOUS
  <2> HIDE DEF copies
  <2> QED
    BY <1>1, <2>1, FS_Subset
<1>3. PICK leg \in copies : \A y \in copies : ~Newer(y, leg)
  <2> HIDE DEF copies
  <2> QED
    BY <1>2, NewestCopy
<1>4. leg \in Canonical(raw)
  BY <1>3 DEF Canonical
<1>5. leg \in {l \in Canonical(raw) : SameLeg(l, x)}
  BY <1>1, <1>3, <1>4, CopiesShareKeys
<1>6. ASSUME NEW l \in Canonical(raw), SameLeg(l, x) PROVE l = leg
  <2>1. l \in raw
    BY DEF Canonical
  <2>2. l \in copies
    BY <1>1, <1>6, <2>1, CopiesShareKeys
  <2>3. ~Newer(l, leg) /\ ~Newer(leg, l)
    BY <1>3, <2>2 DEF Canonical
  <2> QED
    BY <1>1, <1>3, <2>1, <2>3, NewerOrders
<1>7. leg.mtime >= x.mtime /\ (leg.mtime = x.mtime => leg.key >= x.key)
  <2>1. ~Newer(x, leg) /\ RawRow(x) /\ RawRow(leg)
    BY <1>1, <1>3
  <2> QED
    BY <2>1, NewerOrders
<1> QED
  BY <1>4, <1>5, <1>6, <1>7
--------------------------------------------------------------------------------
(* Sums over legs and over intervals *)

(* The handle time of legs is a sum over them. *)
LEMMA HandledIsSum ==
  ASSUME NEW S, IsFiniteSet(S), NEW g, \A x \in S : g[x] = x.data.handled /\ g[x] \in Int
  PROVE  MapThenSumSet(LAMBDA x : x.data.handled, S) = SumOf(g, S)
<1> DEFINE Solves(it) ==
             it = [s \in SUBSET S |-> IF s = {} THEN 0
                                      ELSE First(s).data.handled + it[s \ {First(s)}]]
           it == CHOOSE it : Solves(it)
<1>1. MapThenSumSet(LAMBDA x : x.data.handled, S) = it[S]
  BY DEF MapThenSumSet, MapThenFoldSet, First
<1>2. \A s \in SUBSET S : s # {} => g[First(s)] = First(s).data.handled
  BY DEF First
<1>3. \A jt : Solves(jt) <=> Sums(jt, g, S)
  BY <1>2 DEF Sums
<1>4. \E jt : Solves(jt)
  BY <1>3, SumExists
<1> HIDE DEF Solves
<1>5. Sums(it, g, S)
  BY <1>3, <1>4
<1> QED
  BY <1>1, <1>5, SumOfSolves

(* What is summed over the intervals. *)
Offered == [s \in DOMAIN intervals |-> intervals[s].offered]
Ended == [s \in DOMAIN intervals |-> intervals[s].answered + intervals[s].abandoned]
Handled == [s \in DOMAIN intervals |-> intervals[s].handled]

(* So are the totals over the intervals. *)
LEMMA TotalsAreSums ==
  ASSUME IsFiniteSet(DOMAIN intervals),
         \A s \in DOMAIN intervals : Offered[s] \in Int /\ Ended[s] \in Int /\ Handled[s] \in Int
  PROVE  /\ Total(LAMBDA b : b.offered) = SumOf(Offered, DOMAIN intervals)
         /\ Total(LAMBDA b : b.answered + b.abandoned) = SumOf(Ended, DOMAIN intervals)
         /\ Total(LAMBDA b : b.handled) = SumOf(Handled, DOMAIN intervals)
<1> DEFINE D == DOMAIN intervals
<1>1. \A s \in SUBSET D : s # {} => First(s) \in D
  BY DEF First
<1>2. Total(LAMBDA b : b.offered) = SumOf(Offered, D)
  <2> DEFINE Solves(it) ==
               it = [s \in SUBSET D |-> IF s = {} THEN 0
                                        ELSE intervals[First(s)].offered + it[s \ {First(s)}]]
             it == CHOOSE it : Solves(it)
  <2>1. Total(LAMBDA b : b.offered) = it[D]
    BY DEF Total, MapThenSumSet, MapThenFoldSet, First
  <2>2. \A jt : Solves(jt) <=> Sums(jt, Offered, D)
    BY <1>1 DEF Sums, Offered
  <2>3. \E jt : Solves(jt)
    BY <2>2, SumExists
  <2> HIDE DEF Solves
  <2>4. Sums(it, Offered, D)
    BY <2>2, <2>3
  <2> QED
    BY <2>1, <2>4, SumOfSolves
<1>3. Total(LAMBDA b : b.answered + b.abandoned) = SumOf(Ended, D)
  <2> DEFINE Solves(it) ==
               it = [s \in SUBSET D |->
                       IF s = {} THEN 0
                       ELSE intervals[First(s)].answered + intervals[First(s)].abandoned
                              + it[s \ {First(s)}]]
             it == CHOOSE it : Solves(it)
  <2>1. Total(LAMBDA b : b.answered + b.abandoned) = it[D]
    BY DEF Total, MapThenSumSet, MapThenFoldSet, First
  <2>2. \A jt : Solves(jt) <=> Sums(jt, Ended, D)
    BY <1>1 DEF Sums, Ended
  <2>3. \E jt : Solves(jt)
    BY <2>2, SumExists
  <2> HIDE DEF Solves
  <2>4. Sums(it, Ended, D)
    BY <2>2, <2>3
  <2> QED
    BY <2>1, <2>4, SumOfSolves
<1>4. Total(LAMBDA b : b.handled) = SumOf(Handled, D)
  <2> DEFINE Solves(it) ==
               it = [s \in SUBSET D |-> IF s = {} THEN 0
                                        ELSE intervals[First(s)].handled + it[s \ {First(s)}]]
             it == CHOOSE it : Solves(it)
  <2>1. Total(LAMBDA b : b.handled) = it[D]
    BY DEF Total, MapThenSumSet, MapThenFoldSet, First
  <2>2. \A jt : Solves(jt) <=> Sums(jt, Handled, D)
    BY <1>1 DEF Sums, Handled
  <2>3. \E jt : Solves(jt)
    BY <2>2, SumExists
  <2> HIDE DEF Solves
  <2>4. Sums(it, Handled, D)
    BY <2>2, <2>3
  <2> QED
    BY <2>1, <2>4, SumOfSolves
<1> QED
  BY <1>2, <1>3, <1>4

(* A finite set is counted in two parts. *)
LEMMA CountedInParts ==
  ASSUME NEW A, NEW B, IsFiniteSet(A \cup B), A \cap B = {}
  PROVE  /\ Cardinality(A \cup B) = Cardinality(A) + Cardinality(B)
         /\ IsFiniteSet(A) /\ Cardinality(A) \in Nat
         /\ IsFiniteSet(B) /\ Cardinality(B) \in Nat
<1>1. A \in SUBSET (A \cup B) /\ B \in SUBSET (A \cup B)
  OBVIOUS
<1>2. IsFiniteSet(A) /\ IsFiniteSet(B)
  BY <1>1, FS_Subset
<1>3. Cardinality(A) \in Nat /\ Cardinality(B) \in Nat
  BY <1>2, FS_CardinalityType
<1>4. Cardinality(A \cup B) = Cardinality(A) + Cardinality(B) - Cardinality(A \cap B)
  BY <1>2, FS_Union
<1>5. Cardinality(A \cap B) = 0
  BY FS_EmptySet
<1> QED
  BY <1>2, <1>3, <1>4, <1>5

(* Every leg of an interval is answered or abandoned, and has one place among the waits. *)
LEMMA BucketAddsUp ==
  ASSUME NEW S, IsFiniteSet(S), \A x \in S : x.data.response \in Int /\ x.data.handled \in Int,
         NEW late,
         late = {x \in S : x.data.response = Unknown \/ x.data.response >= Target}
  PROVE  LET b == Bucket(S)
         IN /\ b.offered = Cardinality(S) /\ b.offered \in Nat
            /\ b.answered + b.abandoned = Cardinality(S)
            /\ b.short + b.abandonedWithin + b.answeredWithin + Cardinality(late) = b.offered
            /\ b.handled = MapThenSumSet(LAMBDA x : x.data.handled, S)
<1> DEFINE answered == {x \in S : Answered(x.data)}
           abandoned == {x \in S : ~Answered(x.data)}
           short == {x \in S : ShortAbandoned(x.data)}
           within == {x \in S : AbandonedWithinTarget(x.data)}
           served == {x \in S : AnsweredWithinTarget(x.data)}
           waits == short \cup within \cup served
<1>1. /\ Bucket(S).offered = Cardinality(S)
      /\ Bucket(S).answered = Cardinality(answered)
      /\ Bucket(S).abandoned = Cardinality(abandoned)
      /\ Bucket(S).short = Cardinality(short)
      /\ Bucket(S).abandonedWithin = Cardinality(within)
      /\ Bucket(S).answeredWithin = Cardinality(served)
      /\ Bucket(S).handled = MapThenSumSet(LAMBDA x : x.data.handled, S)
  BY DEF Bucket
<1>2. answered \cup abandoned = S /\ answered \cap abandoned = {}
  OBVIOUS
<1>3. Short \in Nat /\ Target \in Nat /\ Short < Target
  BY CallFactsAssumption
<1>4. waits \cup late = S /\ waits \cap late = {}
  BY <1>3 DEF ShortAbandoned, AbandonedWithinTarget, AnsweredWithinTarget
<1>5. (short \cup within) \cap served = {} /\ short \cap within = {}
  BY <1>3 DEF ShortAbandoned, AbandonedWithinTarget, AnsweredWithinTarget
<1>6. Cardinality(S) \in Nat
  BY FS_CardinalityType
<1> HIDE DEF answered, abandoned, short, within, served
<1>7. Cardinality(answered) + Cardinality(abandoned) = Cardinality(S)
  <2>1. IsFiniteSet(answered \cup abandoned)
    BY <1>2
  <2> QED
    BY <1>2, <2>1, CountedInParts
<1>8. /\ Cardinality(S) = Cardinality(waits) + Cardinality(late)
      /\ IsFiniteSet(waits) /\ Cardinality(late) \in Nat
  <2> HIDE DEF waits
  <2>1. IsFiniteSet(waits \cup late)
    BY <1>4
  <2> QED
    BY <1>4, <2>1, CountedInParts
<1>9. /\ Cardinality(waits) = Cardinality(short \cup within) + Cardinality(served)
      /\ IsFiniteSet(short \cup within) /\ Cardinality(served) \in Nat
  <2>1. IsFiniteSet((short \cup within) \cup served)
    BY <1>8
  <2> QED
    BY <1>5, <2>1, CountedInParts
<1>10. /\ Cardinality(short \cup within) = Cardinality(short) + Cardinality(within)
       /\ Cardinality(short) \in Nat /\ Cardinality(within) \in Nat
  BY <1>5, <1>9, CountedInParts
<1> HIDE DEF waits
<1>11. Cardinality(short) + Cardinality(within) + Cardinality(served) + Cardinality(late)
         = Cardinality(S)
  BY <1>8, <1>9, <1>10
<1> QED
  BY <1>1, <1>6, <1>7, <1>11
--------------------------------------------------------------------------------
(* The refresh, and the files *)

(* At first the files are as they were exported and nothing is published. *)
LEMMA CallsBegin == FactsInit => CallInv
<1> SUFFICES ASSUME FactsInit PROVE CallInv
  OBVIOUS
<1>1. \A k \in 1..FileCount : Readable(files[k])
  BY FilesReadable DEF FactsInit
<1>2. phase = "idle" /\ unread = {} /\ raw = {} /\ legs = {}
  BY DEF FactsInit
<1>3. RawInv
  BY <1>1, <1>2, FS_EmptySet DEF RawInv
<1>4. DOMAIN intervals = {}
  BY DEF FactsInit
<1>5. DOMAIN ServiceIntervals({}) = {}
  BY DEF ServiceIntervals
<1>6. CutInv
  BY <1>2, <1>4, <1>5, FS_EmptySet DEF CutInv
<1> QED
  BY <1>3, <1>6 DEF CallInv

(* A file may be replaced or deleted; what was read of it stays. *)
LEMMA FileWritten ==
  ASSUME CallInv, WriteFile \/ DeleteFile PROVE CallInv'
<1>1. PICK f \in {NoFile} \cup [mtime : Times, headings : Headings, rows : Exports] :
        \E k \in 1..FileCount : files' = [files EXCEPT ![k] = f]
  <2>1. CASE WriteFile
    BY <2>1 DEF WriteFile
  <2>2. CASE DeleteFile
    BY <2>2 DEF DeleteFile
  <2> QED
    BY <2>1, <2>2
<1>2. Readable(f)
  BY FilesReadable
<1>3. \A j \in 1..FileCount : files'[j] = f \/ files'[j] = files[j]
  BY <1>1
<1>4. \A j \in 1..FileCount : Readable(files'[j])
  BY <1>2, <1>3 DEF CallInv, RawInv
<1>5. UNCHANGED <<phase, unread, plans, raw, legs, intervals>>
  BY DEF WriteFile, DeleteFile, cut
<1> QED
  BY <1>4, <1>5 DEF CallInv, RawInv, CutInv

(* The next file is read: its rows are new. *)
LEMMA FileRead ==
  ASSUME CallInv, Preflight
  PROVE  /\ CallInv'
         /\ \E k \in unread : raw' = raw \cup RawRows(k) /\ unread' = unread \ {k}
<1> DEFINE k == Min(unread)
           rows == RawRows(k)
<1>1. /\ phase = "reading" /\ unread # {} /\ raw' = raw \cup rows /\ unread' = unread \ {k}
      /\ UNCHANGED <<files, phase, legs, intervals>>
  BY DEF Preflight, disk, cut
<1>2. /\ unread \subseteq 1..FileCount /\ IsFiniteSet(raw)
      /\ \A x \in raw : RawRow(x) /\ x.key \notin unread
      /\ \A x, y \in raw : x.key = y.key /\ x.row = y.row => x = y
      /\ \A j \in 1..FileCount : Readable(files[j])
  BY <1>1 DEF CallInv, RawInv
<1>3. k \in unread
  <2>1. unread \in SUBSET Nat
    BY <1>2
  <2>2. \E n \in unread : \A m \in unread : n <= m
    BY <1>1, <2>1, LeastNumber
  <2> QED
    BY <2>2 DEF Min
<1> HIDE DEF k
<1>4. k \in Nat /\ Readable(files[k])
  BY <1>2, <1>3
<1>5. /\ IsFiniteSet(rows) /\ \A x \in rows : RawRow(x) /\ x.key = k
      /\ \A x, y \in rows : x.row = y.row => x = y
  BY <1>4, RowsOfFile
<1> HIDE DEF rows
<1>6. IsFiniteSet(raw \cup rows) /\ \A x \in raw \cup rows : RawRow(x)
  BY <1>2, <1>5, FS_Union
<1>7. \A x \in raw \cup rows : x.key \notin unread \ {k}
  BY <1>2, <1>5
<1>8. \A x, y \in raw \cup rows : x.key = y.key /\ x.row = y.row => x = y
  BY <1>2, <1>3, <1>5
<1>9. RawInv'
  <2>1. \A j \in 1..FileCount : Readable(files[j])'
    BY <1>1, <1>2 DEF Readable
  <2> QED
    BY <1>1, <1>2, <1>6, <1>7, <1>8, <2>1 DEF RawInv, RawRow
<1>10. CutInv'
  BY <1>1 DEF CallInv, CutInv
<1> QED
  BY <1>1, <1>3, <1>9, <1>10 DEF CallInv, rows

(* Publication makes legs of the raw rows, and intervals of the legs. *)
LEMMA LegsPublished ==
  ASSUME CallInv, Publish PROVE CallInv'
<1>1. /\ legs' = Canonical(raw) /\ intervals' = ServiceIntervals(legs') /\ phase' = "idle"
      /\ UNCHANGED <<files, unread, raw>>
  BY DEF Publish, disk
<1>2. RawInv'
  BY <1>1 DEF CallInv, RawInv
<1>3. IsFiniteSet(raw) /\ \A x \in raw : RawRow(x)
  BY DEF CallInv, RawInv
<1>4. legs' \in SUBSET raw
  BY <1>1 DEF Canonical
<1>5. IsFiniteSet(legs') /\ \A x \in legs' : x.data.response \in Int /\ x.data.handled \in Int
  BY <1>3, <1>4, FS_Subset DEF RawRow
<1>6. CutInv'
  BY <1>1, <1>5 DEF CutInv
<1> QED
  BY <1>2, <1>6 DEF CallInv

(* The other steps of a refresh begin it with nothing read, or take nothing away. *)
LEMMA RefreshGoesOn ==
  ASSUME CallInv, List \/ AllRead \/ GiveUp PROVE CallInv'
<1>1. CASE List
  <2>1. /\ unread' = {k \in 1..FileCount : files[k] # NoFile} /\ phase' = "reading"
        /\ raw' = {} /\ UNCHANGED <<files, legs, intervals>>
    BY <1>1 DEF List, disk, cut
  <2>2. RawInv'
    BY <2>1, FS_EmptySet DEF CallInv, RawInv
  <2>3. CutInv'
    BY <2>1 DEF CallInv, CutInv
  <2> QED
    BY <2>2, <2>3 DEF CallInv
<1>2. CASE AllRead \/ GiveUp
  <2>1. phase' \in {"idle", "publishing"} /\ UNCHANGED <<files, unread, raw, legs, intervals>>
    BY <1>2 DEF AllRead, GiveUp, disk, cut
  <2> QED
    BY <2>1 DEF CallInv, RawInv, CutInv
<1> QED
  BY <1>1, <1>2

(* Every step keeps CallInv. *)
LEMMA CallStep == CallInv /\ [FactsNext]_factVars => CallInv'
<1>1. CallInv /\ UNCHANGED factVars => CallInv'
  BY DEF factVars, disk, cut, CallInv, RawInv, CutInv
<1> QED
  BY <1>1, FileWritten, FileRead, LegsPublished, RefreshGoesOn DEF FactsNext

(* Legs and intervals, however the files are replaced meanwhile. *)
LEMMA SpecCalls == FactsSpec => []CallInv
<1> QED
  BY CallsBegin, CallStep, PTL DEF FactsSpec

--------------------------------------------------------------------------------
(* Theorems *)

(* A leg that overlapping exports have copies of is published once, as the file with the
   latest time has it, whatever the order in which the files were read and however they
   name their columns.  What makes rows copies is SameLeg: a call without reference and id
   that is exported with both kinds of headings is two legs. *)
THEOREM LegsAreKeptOnce == FactsSpec => EachLegOnce
<1>1. ASSUME CallInv, Publish, NEW x \in raw
      PROVE  \E leg \in legs' :
               /\ {l \in legs' : SameLeg(l, x)} = {leg}
               /\ leg.mtime >= x.mtime
               /\ leg.mtime = x.mtime => leg.key >= x.key
  <2>1. legs' = Canonical(raw)
    BY <1>1 DEF Publish
  <2>2. \E leg \in Canonical(raw) :
          /\ {l \in Canonical(raw) : SameLeg(l, x)} = {leg}
          /\ leg.mtime >= x.mtime
          /\ leg.mtime = x.mtime => leg.key >= x.key
    BY <1>1, CanonicalKeepsOne DEF CallInv
  <2> QED
    BY <2>1, <2>2
<1>2. CallInv /\ [FactsNext]_factVars =>
        [Publish =>
           \A x \in raw :
             \E leg \in legs' :
               /\ {l \in legs' : SameLeg(l, x)} = {leg}
               /\ leg.mtime >= x.mtime
               /\ leg.mtime = x.mtime => leg.key >= x.key]_factVars
  BY <1>1
<1> QED
  BY <1>2, SpecCalls, PTL DEF FactsSpec, EachLegOnce

(* The components of the intervals add up to the canonical legs of reviewed queues: each
   is offered once, answered or abandoned, and in one place at the SLA boundaries. *)
THEOREM ComponentsAddUp == FactsSpec => []IntervalsAddUp
<1>1. CallInv => IntervalsAddUp
  <2> SUFFICES ASSUME CallInv PROVE IntervalsAddUp
    OBVIOUS
  <2> DEFINE service == {x \in legs : ServiceEligible(x.data)}
             at(s) == {x \in service : Slot(x.data) = s}
             slots == DOMAIN intervals
             late(s) == {x \in service : /\ Slot(x.data) = s
                                         /\ x.data.response = Unknown \/ x.data.response >= Target}
             group == [x \in service |-> Slot(x.data)]
             part == [s \in slots |-> at(s)]
             one == [x \in service |-> 1]
             time == [x \in service |-> x.data.handled]
  <2>1. /\ IsFiniteSet(service)
        /\ \A x \in service : x.data.response \in Int /\ x.data.handled \in Int
    <3>1. service \in SUBSET legs
      OBVIOUS
    <3> QED
      BY <3>1, FS_Subset DEF CallInv, CutInv
  <2>2. /\ slots = {Slot(x.data) : x \in service}
        /\ \A s \in slots : intervals[s] = Bucket(at(s))
    BY DEF CallInv, CutInv, ServiceIntervals
  <2>3. IsFiniteSet(slots)
    <3>1. group \in Surjection(service, slots)
      <4>1. group \in [service -> slots] /\ \A s \in slots : \E x \in service : group[x] = s
        BY <2>2
      <4> HIDE DEF group, slots, service
      <4> QED
        BY <4>1 DEF Surjection
    <3> QED
      BY <2>1, <3>1, FS_Surjection
  <2>4. \A s \in slots : /\ Offered[s] = intervals[s].offered
                         /\ Ended[s] = intervals[s].answered + intervals[s].abandoned
                         /\ Handled[s] = intervals[s].handled
    BY DEF Offered, Ended, Handled
  <2>5. \A s \in slots : part[s] = at(s) /\ part[s] \in SUBSET service
    OBVIOUS
  <2>6. ASSUME NEW s \in slots
        PROVE  /\ Offered[s] = Cardinality(part[s]) /\ Ended[s] = Cardinality(part[s])
               /\ Handled[s] = MapThenSumSet(LAMBDA x : x.data.handled, part[s])
               /\ intervals[s].short + intervals[s].abandonedWithin + intervals[s].answeredWithin
                    + Cardinality(late(s)) = intervals[s].offered
    <3>1. late(s) = {x \in at(s) : x.data.response = Unknown \/ x.data.response >= Target}
      OBVIOUS
    <3> HIDE DEF at, late, service, slots, part
    <3>2. IsFiniteSet(at(s)) /\ \A x \in at(s) : x.data.response \in Int /\ x.data.handled \in Int
      BY <2>1, <2>5, <2>6, FS_Subset
    <3> DEFINE b == Bucket(at(s))
    <3>3. /\ b.offered = Cardinality(at(s)) /\ b.answered + b.abandoned = Cardinality(at(s))
          /\ b.short + b.abandonedWithin + b.answeredWithin + Cardinality(late(s)) = b.offered
          /\ b.handled = MapThenSumSet(LAMBDA x : x.data.handled, at(s))
      BY <3>1, <3>2, BucketAddsUp
    <3>4. intervals[s] = b /\ part[s] = at(s)
      BY <2>2, <2>5, <2>6
    <3>5. /\ Offered[s] = b.offered /\ Ended[s] = b.answered + b.abandoned
          /\ Handled[s] = b.handled
      BY <2>4, <2>6, <3>4
    <3> HIDE DEF b
    <3> QED
      BY <3>3, <3>4, <3>5, Zenon
  <2>7. /\ \A x \in service : one[x] = 1 /\ time[x] = x.data.handled /\ group[x] \in slots
        /\ \A s \in slots : \A x \in service : x \in part[s] <=> group[x] = s
    BY <2>2
  <2> HIDE DEF at, late, service, slots, part, one, time, group
  <2>8. \A x \in service : one[x] \in Int /\ time[x] = x.data.handled /\ time[x] \in Int
    BY <2>1, <2>7
  <2>9. \A T \in SUBSET service : /\ SumOf(one, T) = Cardinality(T)
                                  /\ SumOf(one, T) \in Int /\ SumOf(time, T) \in Int
    BY <2>1, <2>7, <2>8, SumOfOnes, SumOfTakes
  <2>10. \A T \in SUBSET service :
           MapThenSumSet(LAMBDA x : x.data.handled, T) = SumOf(time, T)
    <3> SUFFICES ASSUME NEW T \in SUBSET service
                 PROVE  MapThenSumSet(LAMBDA x : x.data.handled, T) = SumOf(time, T)
      OBVIOUS
    <3>1. IsFiniteSet(T) /\ \A x \in T : time[x] = x.data.handled /\ time[x] \in Int
      BY <2>1, <2>8, FS_Subset
    <3> QED
      BY <3>1, HandledIsSum
  <2>11. \A s \in slots : /\ Offered[s] = SumOf(one, part[s]) /\ Ended[s] = SumOf(one, part[s])
                          /\ Handled[s] = SumOf(time, part[s])
    BY <2>5, <2>6, <2>9, <2>10, Zenon
  <2>12. \A s \in slots : Offered[s] \in Int /\ Ended[s] \in Int /\ Handled[s] \in Int
    BY <2>5, <2>9, <2>11
  <2>13. /\ Total(LAMBDA b : b.offered) = SumOf(Offered, slots)
         /\ Total(LAMBDA b : b.answered + b.abandoned) = SumOf(Ended, slots)
         /\ Total(LAMBDA b : b.handled) = SumOf(Handled, slots)
    BY <2>3, <2>12, TotalsAreSums, Zenon DEF slots
  <2>14. Grouped(part, group, service, slots)
    BY <2>5, <2>7, Zenon DEF Grouped
  <2>15. /\ SumOf(Offered, slots) = SumOf(one, service)
         /\ SumOf(Ended, slots) = SumOf(one, service)
         /\ SumOf(Handled, slots) = SumOf(time, service)
    <3>1. SumOf(Offered, slots) = SumOf(one, service)
      <4>1. \A s \in slots : Offered[s] = SumOf(one, part[s])
        BY <2>11, Zenon
      <4> QED
        BY <2>1, <2>3, <2>8, <2>14, <4>1, SumByGroups
    <3>2. SumOf(Ended, slots) = SumOf(one, service)
      <4>1. \A s \in slots : Ended[s] = SumOf(one, part[s])
        BY <2>11, Zenon
      <4> QED
        BY <2>1, <2>3, <2>8, <2>14, <4>1, SumByGroups
    <3>3. SumOf(Handled, slots) = SumOf(time, service)
      <4>1. \A s \in slots : Handled[s] = SumOf(time, part[s])
        BY <2>11, Zenon
      <4> QED
        BY <2>1, <2>3, <2>8, <2>14, <4>1, SumByGroups
    <3> QED
      BY <3>1, <3>2, <3>3
  <2>16. /\ Total(LAMBDA b : b.offered) = Cardinality(service)
         /\ Total(LAMBDA b : b.answered + b.abandoned) = Cardinality(service)
         /\ Total(LAMBDA b : b.handled) = MapThenSumSet(LAMBDA x : x.data.handled, service)
    <3>1. service \in SUBSET service
      OBVIOUS
    <3> QED
      BY <2>9, <2>10, <2>13, <2>15, <3>1, Zenon
  <2>17. \A s \in slots : intervals[s].short + intervals[s].abandonedWithin
                            + intervals[s].answeredWithin + Cardinality(late(s))
                            = intervals[s].offered
    BY <2>6, Zenon
  <2> QED
    BY <2>16, <2>17, Zenon DEF IntervalsAddUp, service, late, slots
<1> QED
  BY <1>1, SpecCalls, PTL

--------------------------------------------------------------------------------
(* Plans *)

(* Every file that has been read has one plan. *)
PlanInv ==
  /\ IsFiniteSet(plans) /\ \A p, q \in plans : p.key = q.key => p = q
  /\ phase = "reading" => \A p \in plans : p.key \notin unread
  /\ phase = "publishing" => unread = {}
  /\ \A x \in raw : \E p \in plans : p.key = x.key /\ p.mtime = x.mtime

(* A plan is made of a file with its rows. *)
LEMMA PlanAdded ==
  ASSUME CallInv, PlanInv, Preflight PROVE PlanInv'
<1> DEFINE k == Min(unread)
           rows == RawRows(k)
           p == [key |-> k, mtime |-> files[k].mtime, accepted |-> Cardinality(rows),
                 service |-> Cardinality({x \in rows : ServiceEligible(x.data)})]
<1>1. /\ phase = "reading" /\ phase' = phase /\ raw' = raw \cup rows
      /\ plans' = plans \cup {p} /\ unread' = unread \ {k}
  BY DEF Preflight, cut
<1>2. k \in unread
  <2>1. unread \in SUBSET Nat /\ unread # {}
    BY DEF CallInv, RawInv, Preflight
  <2>2. \E n \in unread : \A m \in unread : n <= m
    BY <2>1, LeastNumber
  <2> QED
    BY <2>2 DEF Min
<1>3. \A x \in rows : x.key = p.key /\ x.mtime = p.mtime
  BY DEF RawRows
<1>4. p.key = k
  OBVIOUS
<1> HIDE DEF k, rows, p
<1>5. IsFiniteSet(plans')
  BY <1>1, FS_AddElement DEF PlanInv
<1>6. \A q \in plans : q.key # k
  BY <1>1, <1>2 DEF PlanInv
<1>7. \A q, r \in plans' : q.key = r.key => q = r
  BY <1>1, <1>4, <1>6 DEF PlanInv
<1>8. \A q \in plans' : q.key \notin unread'
  BY <1>1, <1>4 DEF PlanInv
<1>9. \A x \in raw' : \E q \in plans' : q.key = x.key /\ q.mtime = x.mtime
  BY <1>1, <1>3 DEF PlanInv
<1> QED
  BY <1>1, <1>5, <1>7, <1>8, <1>9 DEF PlanInv

(* Every step keeps the plans. *)
LEMMA SpecPlans == FactsSpec => []PlanInv
<1>1. FactsInit => PlanInv
  BY FS_EmptySet DEF FactsInit, PlanInv
<1>2. CallInv /\ PlanInv /\ [FactsNext]_factVars => PlanInv'
  <2> SUFFICES ASSUME CallInv, PlanInv, [FactsNext]_factVars PROVE PlanInv'
    OBVIOUS
  <2>1. CASE List
    BY <2>1, FS_EmptySet DEF List, PlanInv
  <2>2. CASE WriteFile \/ DeleteFile \/ AllRead \/ Publish \/ GiveUp \/ UNCHANGED factVars
    BY <2>2 DEF WriteFile, DeleteFile, AllRead, Publish, GiveUp, factVars, disk, cut, PlanInv
  <2> QED
    BY <2>1, <2>2, PlanAdded DEF FactsNext
<1> QED
  BY <1>1, <1>2, SpecCalls, PTL DEF FactsSpec

(* Type correctness: every raw row belongs to the one plan of its file, at the time the
   file had when it was read, and there is an interval for every reviewed leg. *)
THEOREM CallTypeCorrect == FactsSpec => []FactsTypeOK
<1>1. CallInv /\ PlanInv => FactsTypeOK
  <2> SUFFICES ASSUME CallInv, PlanInv PROVE FactsTypeOK
    OBVIOUS
  <2> DEFINE keys == {p.key : p \in plans}
             key == [p \in plans |-> p.key]
  <2>1. key \in Bijection(plans, keys)
    <3>1. /\ key \in [plans -> keys] /\ \A p, q \in plans : key[p] = key[q] => p = q
          /\ \A n \in keys : \E p \in plans : key[p] = n
      BY DEF PlanInv
    <3> HIDE DEF key, keys
    <3> QED
      BY <3>1 DEF Bijection, Injection, IsInjective, Surjection
  <2>2. Cardinality(keys) = Cardinality(plans)
    BY <2>1, FS_Bijection DEF PlanInv, ExistsBijection
  <2>3. keys \cap unread = {} \/ phase = "idle"
    BY DEF CallInv, RawInv, PlanInv
  <2>4. DOMAIN intervals = {Slot(x.data) : x \in {x \in legs : ServiceEligible(x.data)}}
    BY DEF CallInv, CutInv, ServiceIntervals
  <2>5. /\ phase \in {"idle", "reading", "publishing"} /\ unread \subseteq 1..FileCount
        /\ \A x \in raw : \E p \in plans : p.key = x.key /\ p.mtime = x.mtime
    BY DEF CallInv, RawInv, PlanInv
  <2> QED
    BY <2>2, <2>3, <2>4, <2>5 DEF FactsTypeOK
<1> QED
  BY <1>1, SpecCalls, SpecPlans, PTL

--------------------------------------------------------------------------------
(* Attendance *)

Spans == [from : Int, to : Int]
Within(i, t) == i.from <= t /\ t < i.to

(* The numbers up to N are reached one after the other. *)
LEMMA OneByOne ==
  ASSUME NEW N \in Nat, NEW G, 0 \in G, \A n \in 1..N : n - 1 \in G => n \in G
  PROVE  \A n \in 0..N : n \in G
<1> DEFINE Bad == {n \in 0..N : n \notin G}
<1> SUFFICES ASSUME Bad # {} PROVE FALSE
  OBVIOUS
<1>1. Bad \in SUBSET Nat
  OBVIOUS
<1>2. PICK n \in Bad : \A m \in Bad : n <= m
  <2> HIDE DEF Bad
  <2> QED
    BY <1>1, LeastNumber
<1>3. n \in 1..N /\ n - 1 \in 0..N
  BY <1>2
<1>4. n - 1 \in G
  BY <1>2, <1>3
<1> QED
  BY <1>2, <1>3, <1>4

(* What is put in order is there once, each interval before those that follow. *)
LEMMA OrderIsRight ==
  ASSUME NEW S \in SUBSET Spans, IsFiniteSet(S)
  PROVE  /\ Cardinality(S) \in Nat
         /\ InOrder(S) \in [1..Cardinality(S) -> S]
         /\ \A i \in S : \E n \in 1..Cardinality(S) : InOrder(S)[n] = i
         /\ \A m, n \in 1..Cardinality(S) : m < n => Before(InOrder(S)[m], InOrder(S)[n])
<1> DEFINE N == Cardinality(S)
           pre(i) == {j \in S : Before(j, i)}
           rank == [i \in S |-> Cardinality(pre(i))]
           s == InOrder(S)
<1>1. N \in Nat
  BY FS_CardinalityType
<1>2. \A i, j \in S : /\ ~Before(i, i)
                      /\ i # j => Before(i, j) \/ Before(j, i)
                      /\ ~(Before(i, j) /\ Before(j, i))
  <2>1. \A i, j \in Spans : i.from = j.from /\ i.to = j.to => i = j
    BY DEF Spans
  <2>2. \A i \in Spans : i.from \in Int /\ i.to \in Int
    BY DEF Spans
  <2> QED
    BY <2>1, <2>2 DEF Before
<1>3. \A i, j, k \in S : Before(i, j) /\ Before(j, k) => Before(i, k)
  <2>1. \A i \in Spans : i.from \in Int /\ i.to \in Int
    BY DEF Spans
  <2> QED
    BY <2>1 DEF Before
<1>4. \A i \in S : pre(i) \in SUBSET (S \ {i})
  BY <1>2
<1>5. \A i \in S : IsFiniteSet(pre(i)) /\ rank[i] \in 0..(N - 1)
  <2> SUFFICES ASSUME NEW i \in S PROVE IsFiniteSet(pre(i)) /\ Cardinality(pre(i)) \in 0..(N - 1)
    OBVIOUS
  <2>1. IsFiniteSet(S \ {i}) /\ Cardinality(S \ {i}) = N - 1
    BY FS_RemoveElement
  <2>2. pre(i) \in SUBSET (S \ {i})
    BY <1>4
  <2> HIDE DEF pre
  <2>3. IsFiniteSet(pre(i)) /\ Cardinality(pre(i)) <= N - 1
    BY <2>1, <2>2, FS_Subset
  <2>4. Cardinality(pre(i)) \in Nat
    BY <2>3, FS_CardinalityType
  <2> QED
    BY <1>1, <2>3, <2>4
<1>6. \A i, j \in S : Before(i, j) => rank[i] < rank[j]
  <2> SUFFICES ASSUME NEW i \in S, NEW j \in S, Before(i, j)
               PROVE  Cardinality(pre(i)) < Cardinality(pre(j))
    OBVIOUS
  <2>1. pre(i) \in SUBSET (pre(j) \ {i}) /\ i \in pre(j)
    BY <1>2, <1>3
  <2>2. IsFiniteSet(pre(i)) /\ IsFiniteSet(pre(j))
    BY <1>5
  <2> HIDE DEF pre
  <2>3. IsFiniteSet(pre(j) \ {i}) /\ Cardinality(pre(j) \ {i}) = Cardinality(pre(j)) - 1
    BY <2>1, <2>2, FS_RemoveElement
  <2>4. Cardinality(pre(i)) <= Cardinality(pre(j) \ {i})
    BY <2>1, <2>3, FS_Subset
  <2>5. Cardinality(pre(i)) \in Nat /\ Cardinality(pre(j)) \in Nat
    BY <2>2, FS_CardinalityType
  <2> QED
    BY <2>3, <2>4, <2>5
<1> HIDE DEF pre
<1>7. \A i, j \in S : rank[i] = rank[j] => i = j
  <2>1. \A i \in S : rank[i] \in Int
    BY <1>5
  <2> HIDE DEF rank
  <2> QED
    BY <1>2, <1>6, <2>1
<1>8. \A n \in 1..N : \E i \in S : rank[i] = n - 1
  <2>1. rank \in [S -> 0..(N - 1)]
    <3>1. rank = [i \in S |-> rank[i]]
      OBVIOUS
    <3> HIDE DEF rank
    <3> QED
      BY <1>5, <3>1
  <2> HIDE DEF rank
  <2>2. rank \in Injection(S, 0..(N - 1))
    BY <1>7, <2>1 DEF Injection, IsInjective
  <2>3. IsFiniteSet(0..(N - 1)) /\ Cardinality(0..(N - 1)) = N
    BY <1>1, FS_Interval
  <2>4. rank \in Surjection(S, 0..(N - 1))
    BY <2>2, <2>3, FS_Injection
  <2>5. \A r \in 0..(N - 1) : \E i \in S : rank[i] = r
    BY <2>4 DEF Surjection
  <2>6. \A n \in 1..N : n - 1 \in 0..(N - 1)
    BY <1>1
  <2> QED
    BY <2>5, <2>6
<1>9. \A n \in 1..N : s[n] = CHOOSE i \in S : rank[i] = n - 1
  BY DEF InOrder, pre
<1>10. s = [n \in 1..N |-> s[n]]
  <2> DEFINE member(n) == CHOOSE i \in S : Cardinality({j \in S : Before(j, i)}) = n - 1
  <2>1. s = [n \in 1..N |-> member(n)]
    BY DEF InOrder
  <2> HIDE DEF member, s
  <2> QED
    BY <2>1
<1> HIDE DEF rank, s
<1>11. \A n \in 1..N : s[n] \in S /\ rank[s[n]] = n - 1
  BY <1>8, <1>9
<1>12. s \in [1..N -> S]
  BY <1>10, <1>11
<1>13. ASSUME NEW i \in S PROVE \E n \in 1..N : s[n] = i
  <2>1. rank[i] + 1 \in 1..N /\ (rank[i] + 1) - 1 = rank[i]
    BY <1>1, <1>5
  <2>2. rank[s[rank[i] + 1]] = rank[i] /\ s[rank[i] + 1] \in S
    BY <1>11, <2>1
  <2> QED
    BY <1>7, <2>1, <2>2
<1>14. ASSUME NEW m \in 1..N, NEW n \in 1..N, m < n PROVE Before(s[m], s[n])
  <2>1. s[m] \in S /\ s[n] \in S /\ rank[s[m]] = m - 1 /\ rank[s[n]] = n - 1
    BY <1>11
  <2>2. rank[s[m]] < rank[s[n]]
    BY <1>14, <2>1
  <2>3. s[m] # s[n] /\ ~(rank[s[n]] < rank[s[m]])
    BY <1>14, <2>1
  <2> QED
    BY <1>2, <1>6, <2>1, <2>3
<1> QED
  BY <1>1, <1>12, <1>13, <1>14 DEF s

(* The larger and the smaller of two numbers. *)
LEMMA OfTwo ==
  ASSUME NEW a \in Int, NEW b \in Int
  PROVE  /\ Max({a, b}) = IF a >= b THEN a ELSE b
         /\ Min({a, b}) = IF a <= b THEN a ELSE b
<1>1. \E x \in {a, b} : \A y \in {a, b} : x >= y
  OBVIOUS
<1>2. \E x \in {a, b} : \A y \in {a, b} : x <= y
  OBVIOUS
<1> QED
  BY <1>1, <1>2 DEF Max, Min

--------------------------------------------------------------------------------
(* What _merge makes of the intervals, one after the other *)

MergeNext(merged, item) ==
  IF merged = <<>> \/ item.from > Last(merged).to THEN Append(merged, item)
  ELSE [merged EXCEPT ![Len(merged)].to = Max({@, item.to})]

(* It is a sequence of intervals. *)
LEMMA MergeNextType ==
  ASSUME NEW merged \in Seq(Spans), NEW item \in Spans
  PROVE  MergeNext(merged, item) \in Seq(Spans)
<1>1. CASE merged = <<>> \/ item.from > Last(merged).to
  BY <1>1 DEF MergeNext
<1>2. CASE ~(merged = <<>> \/ item.from > Last(merged).to)
  <2> DEFINE l == Len(merged)
             last == [merged[l] EXCEPT !.to = Max({@, item.to})]
  <2>1. l \in DOMAIN merged /\ merged[l] \in Spans
    BY <1>2
  <2>2. merged[l].to \in Int /\ item.to \in Int
    BY <2>1 DEF Spans
  <2>3. Max({merged[l].to, item.to}) \in Int
    BY <2>2, OfTwo
  <2>4. last \in Spans
    BY <2>1, <2>3 DEF Spans
  <2>5. MergeNext(merged, item) = [merged EXCEPT ![l] = last]
    BY <1>2 DEF MergeNext
  <2> HIDE DEF last, l
  <2> QED
    BY <2>1, <2>4, <2>5
<1> QED
  BY <1>1, <1>2

(* Merge takes them in order. *)
LEMMA MergedOneByOne ==
  ASSUME NEW S, InOrder({i \in S : i.to > i.from}) \in Seq(Spans)
  PROVE  LET ordered == InOrder({i \in S : i.to > i.from})
         IN \E f : /\ f[0] = <<>> /\ f[Len(ordered)] = Merge(S)
                   /\ \A n \in 1..Len(ordered) : f[n] = MergeNext(f[n - 1], ordered[n])
<1> DEFINE ordered == InOrder({i \in S : i.to > i.from})
           N == Len(ordered)
           D == Seq(Spans)
           step == [p \in D \X (1..N) |-> MergeNext(p[1], ordered[p[2]])]
           Solves(it) ==
             it = [s \in SUBSET (1..N) |->
                     IF s = {} THEN <<>> ELSE MergeNext(it[s \ {Max(s)}], ordered[Max(s)])]
           it == CHOOSE it : Solves(it)
<1> HIDE DEF it
<1>1. N \in Nat /\ DOMAIN ordered = 1..N /\ \A i \in 1..N : ordered[i] \in Spans
  <2>1. ordered \in Seq(Spans)
    OBVIOUS
  <2> HIDE DEF ordered
  <2> QED
    BY <2>1
<1>2. Merge(S) = it[1..N]
  <2> USE DEF it
  <2>1. Merge(S) = LET add(merged, item) == MergeNext(merged, item)
                   IN FoldLeft(add, <<>>, ordered)
    BY DEF Merge, MergeNext
  <2> HIDE DEF ordered
  <2> QED
    BY <1>1, <2>1 DEF FoldLeft, MapThenFoldSet
<1> HIDE DEF ordered
<1>3. <<>> \in D
  OBVIOUS
<1>4. \A d \in D, i \in 1..N :
        step[<<d, i>>] = MergeNext(d, ordered[i]) /\ step[<<d, i>>] \in D
  BY <1>1, MergeNextType
<1> HIDE DEF step, N, D
<1>5. \E jt : Solves(jt)
  <2>1. PICK jt : Folding(jt, step, <<>>, N)
    BY <1>1, FoldExists
  <2>2. \A s \in SUBSET (1..N) : jt[s] \in D
    BY <1>1, <1>3, <1>4, <2>1, FoldStays
  <2>3. \A s \in SUBSET (1..N) :
          s # {} => jt[s] = MergeNext(jt[s \ {Max(s)}], ordered[Max(s)])
    <3> SUFFICES ASSUME NEW s \in SUBSET (1..N), s # {}
                 PROVE  jt[s] = MergeNext(jt[s \ {Max(s)}], ordered[Max(s)])
      OBVIOUS
    <3>1. Max(s) \in 1..N /\ jt[s \ {Max(s)}] \in D
      BY <1>1, <2>2, LastIndex
    <3>2. jt[s] = step[<<jt[s \ {Max(s)}], Max(s)>>]
      BY <2>1 DEF Folding
    <3> QED
      BY <1>4, <3>1, <3>2
  <2>4. jt[{}] = <<>> /\ jt = [s \in SUBSET (1..N) |-> jt[s]]
    BY <2>1 DEF Folding
  <2>5. Solves(jt)
    BY <2>3, <2>4
  <2> QED
    BY <2>5
<1> HIDE DEF Solves
<1>6. Solves(it)
  BY <1>5 DEF it
<1>7. it[1..0] = <<>>
  <2>1. 1..0 = {}
    OBVIOUS
  <2> QED
    BY <1>6, <2>1 DEF Solves
<1>8. ASSUME NEW n \in 1..N PROVE it[1..n] = MergeNext(it[1..(n - 1)], ordered[n])
  <2>1. Max(1..n) = n /\ (1..n) \ {n} = 1..(n - 1)
    BY <1>1, LastIndex
  <2>2. 1..n \in SUBSET (1..N) /\ 1..n # {}
    BY <1>1, <1>8
  <2> QED
    BY <1>6, <2>1, <2>2 DEF Solves
<1> DEFINE f == [n \in 0..N |-> it[1..n]]
<1>9. f[0] = <<>> /\ f[N] = Merge(S)
  BY <1>1, <1>2, <1>7
<1>10. \A n \in 1..N : f[n] = MergeNext(f[n - 1], ordered[n])
  <2> HIDE DEF it
  <2>1. \A n \in 1..N : n \in 0..N /\ n - 1 \in 0..N
    BY <1>1
  <2> QED
    BY <1>8, <2>1
<1> HIDE DEF f
<1> QED
  BY <1>9, <1>10 DEF N, ordered

(* Intervals in order that do not touch, and the moments they cover. *)
Apart(m) ==
  /\ \A j \in 1..Len(m) : m[j].from < m[j].to
  /\ \A j, k \in 1..Len(m) : j < k => m[j].to < m[k].from
Covers(m, t) == \E j \in 1..Len(m) : Within(m[j], t)

(* Each interval of the order is added to what the earlier ones cover. *)
LEMMA MergeNextRight ==
  ASSUME NEW m \in Seq(Spans), NEW item \in Spans, item.from < item.to, Apart(m),
         m # <<>> => m[Len(m)].from <= item.from
  PROVE  LET r == MergeNext(m, item)
         IN /\ r \in Seq(Spans) /\ Apart(r) /\ r # <<>> /\ r[Len(r)].from <= item.from
            /\ \A t \in Int : Covers(r, t) <=> Covers(m, t) \/ Within(item, t)
<1> DEFINE r == MergeNext(m, item)
           l == Len(m)
<1>1. /\ r \in Seq(Spans) /\ l \in Nat
      /\ m # <<>> => l \in 1..l
      /\ item.from \in Int /\ item.to \in Int
      /\ \A j \in 1..l : m[j] \in Spans /\ m[j].from \in Int /\ m[j].to \in Int
  <2>1. r \in Seq(Spans)
    BY MergeNextType
  <2> HIDE DEF r
  <2>2. l \in Nat /\ \A j \in 1..l : m[j] \in Spans
    OBVIOUS
  <2>3. m # <<>> => l # 0
    OBVIOUS
  <2>4. \A i \in Spans : i.from \in Int /\ i.to \in Int
    BY DEF Spans
  <2> HIDE DEF l
  <2> QED
    BY <2>1, <2>2, <2>3, <2>4
<1>2. CASE m = <<>> \/ item.from > Last(m).to
  <2>1. r = Append(m, item)
    BY <1>2 DEF MergeNext
  <2>2. /\ Len(r) = l + 1 /\ r[l + 1] = item
        /\ \A j \in 1..l : r[j] = m[j]
    BY <1>1, <2>1
  <2>3. \A j \in 1..(l + 1) : j = l + 1 \/ j \in 1..l
    BY <1>1
  <2>4. \A j \in 1..l : m[j].to < item.from
    <3> SUFFICES ASSUME NEW j \in 1..l PROVE m[j].to < item.from
      OBVIOUS
    <3>1. m # <<>> /\ m[l].to < item.from
      BY <1>1, <1>2 DEF Last
    <3>2. CASE j = l
      BY <3>1, <3>2
    <3>3. CASE j # l
      <4>1. m[j].to < m[l].from /\ m[l].from < m[l].to
        BY <1>1, <3>1, <3>3 DEF Apart
      <4> QED
        BY <1>1, <3>1, <4>1
    <3> QED
      BY <3>2, <3>3
  <2> HIDE DEF r, l
  <2>5. Apart(r)
    <3>1. \A j \in 1..Len(r) : r[j].from < r[j].to
      BY <2>2, <2>3 DEF Apart, l
    <3>2. ASSUME NEW j \in 1..Len(r), NEW k \in 1..Len(r), j < k PROVE r[j].to < r[k].from
      <4>1. j \in 1..l
        BY <1>1, <2>2, <3>2
      <4>2. CASE k = l + 1
        BY <2>2, <2>4, <4>1, <4>2
      <4>3. CASE k \in 1..l
        BY <2>2, <3>2, <4>1, <4>3 DEF Apart, l
      <4> QED
        BY <2>2, <2>3, <4>2, <4>3
    <3> QED
      BY <3>1, <3>2 DEF Apart
  <2>6. ASSUME NEW t \in Int PROVE Covers(r, t) <=> Covers(m, t) \/ Within(item, t)
    <3>1. l + 1 \in 1..Len(r) /\ \A j \in 1..l : j \in 1..Len(r)
      BY <1>1, <2>2
    <3>2. Covers(r, t) <=> \E j \in 1..(l + 1) : Within(r[j], t)
      BY <2>2 DEF Covers
    <3>3. Covers(m, t) <=> \E j \in 1..l : Within(m[j], t)
      BY DEF Covers, l
    <3>4. (\E j \in 1..(l + 1) : Within(r[j], t)) <=> (Within(r[l + 1], t) \/ \E j \in 1..l : Within(r[j], t))
      BY <2>2, <2>3, <3>1
    <3>5. (\E j \in 1..l : Within(r[j], t)) <=> \E j \in 1..l : Within(m[j], t)
      BY <2>2
    <3> QED
      BY <2>2, <3>2, <3>3, <3>4, <3>5
  <2>7. r # <<>> /\ r[Len(r)].from <= item.from
    <3>1. Len(r) # 0
      BY <1>1, <2>2
    <3> QED
      BY <1>1, <2>2, <3>1
  <2> QED
    BY <1>1, <2>5, <2>6, <2>7 DEF r
<1>3. CASE ~(m = <<>> \/ item.from > Last(m).to)
  <2> DEFINE last == [m[l] EXCEPT !.to = Max({@, item.to})]
  <2>1. m # <<>> /\ l \in 1..l /\ m[l].from <= item.from /\ item.from <= m[l].to
    BY <1>1, <1>3 DEF Last
  <2>2. r = [m EXCEPT ![l] = last]
    BY <1>3 DEF MergeNext
  <2>3. /\ Max({m[l].to, item.to}) \in Int
        /\ Max({m[l].to, item.to}) = IF m[l].to >= item.to THEN m[l].to ELSE item.to
    BY <1>1, <2>1, OfTwo
  <2>4. last.from = m[l].from /\ last.to = IF m[l].to >= item.to THEN m[l].to ELSE item.to
    BY <1>1, <2>1, <2>3 DEF Spans
  <2> HIDE DEF last
  <2>5. Len(r) = l /\ r[l] = last /\ \A j \in 1..l : j # l => r[j] = m[j]
    BY <1>1, <2>1, <2>2
  <2>6. m[l].from < m[l].to
    BY <2>1 DEF Apart
  <2> HIDE DEF r, l
  <2>7. Apart(r)
    <3>1. ASSUME NEW j \in 1..Len(r) PROVE r[j].from < r[j].to
      <4>1. CASE j = l
        BY <1>1, <2>1, <2>4, <2>5, <2>6, <4>1
      <4>2. CASE j # l
        BY <2>5, <3>1, <4>2 DEF Apart, l
      <4> QED
        BY <4>1, <4>2
    <3>2. ASSUME NEW j \in 1..Len(r), NEW k \in 1..Len(r), j < k PROVE r[j].to < r[k].from
      <4>1. j \in 1..l /\ k \in 1..l /\ j # l
        BY <1>1, <2>5, <3>2
      <4>2. m[j].to < m[k].from
        BY <3>2, <4>1 DEF Apart, l
      <4>3. r[k].from = m[k].from
        BY <2>4, <2>5, <4>1
      <4> QED
        BY <2>5, <4>1, <4>2, <4>3
    <3> QED
      BY <3>1, <3>2 DEF Apart
  <2>8. ASSUME NEW t \in Int PROVE Covers(r, t) <=> Covers(m, t) \/ Within(item, t)
    <3>1. Within(r[l], t) <=> Within(m[l], t) \/ Within(item, t)
      BY <1>1, <2>1, <2>4, <2>5, <2>6 DEF Within
    <3>2. Covers(r, t) <=> Within(r[l], t) \/ \E j \in 1..l : j # l /\ Within(m[j], t)
      BY <2>1, <2>5 DEF Covers
    <3>3. Covers(m, t) <=> Within(m[l], t) \/ \E j \in 1..l : j # l /\ Within(m[j], t)
      BY <2>1 DEF Covers, l
    <3> QED
      BY <3>1, <3>2, <3>3
  <2>9. r # <<>> /\ r[Len(r)].from <= item.from
    <3>1. Len(r) # 0
      BY <1>1, <2>1, <2>5
    <3> QED
      BY <1>1, <2>1, <2>4, <2>5, <3>1
  <2> QED
    BY <1>1, <2>7, <2>8, <2>9 DEF r
<1> QED
  BY <1>2, <1>3

(* _merge: the intervals it returns are apart, and cover what they were made of. *)
LEMMA MergeIsRight ==
  ASSUME NEW S \in SUBSET Spans, IsFiniteSet(S)
  PROVE  /\ Merge(S) \in Seq(Spans) /\ Apart(Merge(S))
         /\ \A t \in Int : Covers(Merge(S), t) <=> \E i \in S : Within(i, t)
<1> DEFINE P == {i \in S : i.to > i.from}
           s == InOrder(P)
           N == Cardinality(P)
<1>1. P \in SUBSET Spans /\ IsFiniteSet(P)
  BY FS_Subset
<1>2. \A i \in P : i.from \in Int /\ i.to \in Int /\ i.from < i.to
  BY DEF Spans
<1>3. \A i \in S, t \in Int : Within(i, t) => i \in P
  <2>1. \A i \in S : i.from \in Int /\ i.to \in Int
    BY DEF Spans
  <2> QED
    BY <2>1 DEF Within
<1>4. /\ N \in Nat /\ s \in [1..N -> P]
      /\ \A i \in P : \E n \in 1..N : s[n] = i
      /\ \A j, k \in 1..N : j < k => Before(s[j], s[k])
  <2> HIDE DEF P
  <2> QED
    BY <1>1, OrderIsRight
<1>5. s \in Seq(Spans) /\ Len(s) = N
  <2> HIDE DEF P, s, N
  <2> QED
    BY <1>1, <1>4
<1>6. PICK f : /\ f[0] = <<>> /\ f[N] = Merge(S)
               /\ \A n \in 1..N : f[n] = MergeNext(f[n - 1], s[n])
  <2>1. InOrder({i \in S : i.to > i.from}) \in Seq(Spans)
    BY <1>5
  <2> QED
    BY ONLY <1>5, <2>1, MergedOneByOne
<1> HIDE DEF s, N
<1> DEFINE Good(m, n) ==
             /\ m \in Seq(Spans) /\ Apart(m)
             /\ m # <<>> => n \in 1..N /\ m[Len(m)].from <= s[n].from
             /\ \A t \in Int : Covers(m, t) <=> \E k \in 1..n : Within(s[k], t)
           G == {n \in 0..N : Good(f[n], n)}
<1>7. 0 \in G
  <2>1. Good(<<>>, 0)
    BY DEF Apart, Covers
  <2>2. 0 \in 0..N
    BY <1>4
  <2> HIDE DEF Good
  <2> QED
    BY <1>6, <2>1, <2>2
<1>8. ASSUME NEW n \in 1..N, n - 1 \in G PROVE n \in G
  <2>1. Good(f[n - 1], n - 1) /\ f[n] = MergeNext(f[n - 1], s[n])
    BY <1>6, <1>8
  <2>2. s[n] \in Spans /\ s[n].from \in Int /\ s[n].from < s[n].to
    BY <1>1, <1>2, <1>4
  <2>3. f[n - 1] # <<>> => f[n - 1][Len(f[n - 1])].from <= s[n].from
    <3> SUFFICES ASSUME f[n - 1] # <<>>
                 PROVE  f[n - 1][Len(f[n - 1])].from <= s[n].from
      OBVIOUS
    <3>1. n - 1 \in 1..N /\ f[n - 1][Len(f[n - 1])].from <= s[n - 1].from
      BY <2>1
    <3>2. n - 1 < n
      OBVIOUS
    <3>3. s[n - 1].from <= s[n].from
      <4>1. Before(s[n - 1], s[n])
        BY <1>4, <3>1, <3>2
      <4>2. s[n - 1].from \in Int
        BY <1>2, <1>4, <3>1
      <4> QED
        BY <2>2, <4>1, <4>2 DEF Before
    <3>4. f[n - 1][Len(f[n - 1])].from \in Int
      <4>1. f[n - 1] \in Seq(Spans)
        BY <2>1
      <4>2. f[n - 1][Len(f[n - 1])] \in Spans
        BY <4>1
      <4> QED
        BY <4>2 DEF Spans
    <3>5. s[n - 1].from \in Int
      BY <1>2, <1>4, <3>1
    <3> QED
      BY <2>2, <3>1, <3>3, <3>4, <3>5
  <2>4. /\ f[n] \in Seq(Spans) /\ Apart(f[n]) /\ f[n] # <<>>
        /\ f[n][Len(f[n])].from <= s[n].from
        /\ \A t \in Int : Covers(f[n], t) <=> Covers(f[n - 1], t) \/ Within(s[n], t)
    BY <2>1, <2>2, <2>3, MergeNextRight
  <2>5. \A t \in Int : Covers(f[n], t) <=> \E k \in 1..n : Within(s[k], t)
    <3>1. \A k \in 1..n : k = n \/ k \in 1..(n - 1)
      OBVIOUS
    <3>2. \A k \in 1..(n - 1) : k \in 1..n
      OBVIOUS
    <3>3. n \in 1..n
      OBVIOUS
    <3> QED
      BY <2>1, <2>4, <3>1, <3>2, <3>3
  <2>6. n \in 0..N
    BY <1>4
  <2> QED
    BY <2>4, <2>5, <2>6
<1>9. Good(f[N], N)
  <2>1. \A n \in 0..N : n \in G
    <3> HIDE DEF G
    <3> QED
      BY <1>4, <1>7, <1>8, OneByOne
  <2> QED
    BY <1>4, <2>1
<1>10. \A t \in Int : (\E k \in 1..N : Within(s[k], t)) <=> \E i \in S : Within(i, t)
  BY <1>1, <1>3, <1>4
<1> HIDE DEF P
<1> QED
  BY <1>6, <1>9, <1>10

(* The same of the set of them. *)
LEMMA MergedSetIsRight ==
  ASSUME NEW m \in Seq(Spans), Apart(m)
  PROVE  /\ ToSet(m) \in SUBSET Spans /\ IsFiniteSet(ToSet(m))
         /\ \A o, p \in ToSet(m) : o = p \/ ~Overlaps(o, p)
         /\ \A o \in ToSet(m) : \E k \in 1..Len(m) : o = m[k]
         /\ \A t : Covers(m, t) <=> \E o \in ToSet(m) : Within(o, t)
<1>1. DOMAIN m = 1..Len(m) /\ Len(m) \in Nat /\ \A k \in 1..Len(m) : m[k] \in Spans
  OBVIOUS
<1>2. ToSet(m) = {m[k] : k \in 1..Len(m)}
  BY <1>1 DEF ToSet
<1>3. IsFiniteSet(ToSet(m))
  <2>1. IsFiniteSet(1..Len(m))
    BY <1>1, FS_Interval
  <2> QED
    BY <1>2, <2>1, FiniteImage
<1>4. ASSUME NEW j \in 1..Len(m), NEW k \in 1..Len(m), m[j] # m[k]
      PROVE  ~Overlaps(m[j], m[k])
  <2>1. m[j].from \in Int /\ m[j].to \in Int /\ m[k].from \in Int /\ m[k].to \in Int
    BY <1>1 DEF Spans
  <2>2. j < k \/ k < j
    BY <1>1, <1>4
  <2>3. m[j].to < m[k].from \/ m[k].to < m[j].from
    BY <2>2 DEF Apart
  <2> QED
    BY <2>1, <2>3 DEF Overlaps
<1>5. \A t : Covers(m, t) <=> \E o \in ToSet(m) : Within(o, t)
  BY <1>2 DEF Covers
<1> QED
  BY <1>1, <1>2, <1>3, <1>4, <1>5

(* What two intervals have in common. *)
LEMMA ClipIsRight ==
  ASSUME NEW i, i.from \in Int, i.to \in Int, NEW j, j.from \in Int, j.to \in Int
  PROVE  /\ Clip(i, j) \in Spans
         /\ Clip(i, j).from = IF i.from >= j.from THEN i.from ELSE j.from
         /\ Clip(i, j).to = IF i.to <= j.to THEN i.to ELSE j.to
         /\ \A t \in Int : Within(Clip(i, j), t) <=> Within(i, t) /\ Within(j, t)
         /\ \A t \in Int : Within(i, t) /\ Within(j, t) => Overlaps(i, j)
<1>1. /\ Max({i.from, j.from}) = IF i.from >= j.from THEN i.from ELSE j.from
      /\ Min({i.to, j.to}) = IF i.to <= j.to THEN i.to ELSE j.to
  BY OfTwo
<1>2. /\ Clip(i, j).from = IF i.from >= j.from THEN i.from ELSE j.from
      /\ Clip(i, j).to = IF i.to <= j.to THEN i.to ELSE j.to
  BY <1>1 DEF Clip, Interval
<1>3. Clip(i, j) \in Spans
  BY <1>2 DEF Clip, Interval, Spans
<1> QED
  BY <1>2, <1>3 DEF Within, Overlaps

--------------------------------------------------------------------------------
(* What _subtract leaves, one merged interval after the other *)

CutNext(acc, item) ==
  [out    |-> IF item.from > acc.cursor
              THEN acc.out \cup {Interval(acc.cursor, item.from)} ELSE acc.out,
   cursor |-> Max({acc.cursor, item.to})]
Cuts == [out : SUBSET Spans, cursor : Int]
Whole(a) == [out |-> {}, cursor |-> a]
Cut(m, a) ==
  LET step(acc, item) == CutNext(acc, item) IN FoldLeft(step, Whole(a), m)

LEMMA CutNextType ==
  ASSUME NEW acc \in Cuts, NEW item \in Spans
  PROVE  /\ CutNext(acc, item) \in Cuts
         /\ CutNext(acc, item).cursor = IF acc.cursor >= item.to THEN acc.cursor ELSE item.to
<1>1. acc.cursor \in Int /\ item.from \in Int /\ item.to \in Int /\ acc.out \in SUBSET Spans
  BY DEF Cuts, Spans
<1>2. Max({acc.cursor, item.to}) = IF acc.cursor >= item.to THEN acc.cursor ELSE item.to
  BY <1>1, OfTwo
<1>3. Interval(acc.cursor, item.from) \in Spans
  BY <1>1 DEF Interval, Spans
<1> QED
  BY <1>1, <1>2, <1>3 DEF CutNext, Cuts

LEMMA CutOneByOne ==
  ASSUME NEW m \in Seq(Spans), NEW a \in Int
  PROVE  \E f : /\ f[0] = Whole(a) /\ f[Len(m)] = Cut(m, a)
                /\ \A n \in 1..Len(m) : f[n] = CutNext(f[n - 1], m[n])
<1> DEFINE N == Len(m)
           base == Whole(a)
           step == [p \in Cuts \X (1..N) |-> CutNext(p[1], m[p[2]])]
           Solves(it) ==
             it = [s \in SUBSET (1..N) |->
                     IF s = {} THEN base ELSE CutNext(it[s \ {Max(s)}], m[Max(s)])]
           it == CHOOSE it : Solves(it)
<1>1. N \in Nat /\ DOMAIN m = 1..N /\ \A i \in 1..N : m[i] \in Spans
  OBVIOUS
<1>2. Cut(m, a) = it[1..N]
  BY <1>1 DEF Cut, FoldLeft, MapThenFoldSet
<1>3. base \in Cuts
  BY DEF Whole, Cuts
<1>4. \A d \in Cuts, i \in 1..N :
        step[<<d, i>>] = CutNext(d, m[i]) /\ step[<<d, i>>] \in Cuts
  BY <1>1, CutNextType
<1> HIDE DEF step, N, base
<1>5. \E jt : Solves(jt)
  <2>1. PICK jt : Folding(jt, step, base, N)
    BY <1>1, FoldExists
  <2>2. \A s \in SUBSET (1..N) : jt[s] \in Cuts
    BY <1>1, <1>3, <1>4, <2>1, FoldStays
  <2>3. \A s \in SUBSET (1..N) : s # {} => jt[s] = CutNext(jt[s \ {Max(s)}], m[Max(s)])
    <3> SUFFICES ASSUME NEW s \in SUBSET (1..N), s # {}
                 PROVE  jt[s] = CutNext(jt[s \ {Max(s)}], m[Max(s)])
      OBVIOUS
    <3>1. Max(s) \in 1..N /\ jt[s \ {Max(s)}] \in Cuts
      BY <1>1, <2>2, LastIndex
    <3>2. jt[s] = step[<<jt[s \ {Max(s)}], Max(s)>>]
      BY <2>1 DEF Folding
    <3> QED
      BY <1>4, <3>1, <3>2
  <2>4. jt[{}] = base /\ jt = [s \in SUBSET (1..N) |-> jt[s]]
    BY <2>1 DEF Folding
  <2>5. Solves(jt)
    BY <2>3, <2>4
  <2> QED
    BY <2>5
<1> HIDE DEF Solves
<1>6. Solves(it)
  BY <1>5
<1> HIDE DEF it
<1>7. it[1..0] = base
  <2>1. 1..0 = {}
    OBVIOUS
  <2> QED
    BY <1>6, <2>1 DEF Solves
<1>8. ASSUME NEW n \in 1..N PROVE it[1..n] = CutNext(it[1..(n - 1)], m[n])
  <2>1. Max(1..n) = n /\ (1..n) \ {n} = 1..(n - 1)
    BY <1>1, LastIndex
  <2>2. 1..n \in SUBSET (1..N) /\ 1..n # {}
    BY <1>1, <1>8
  <2> QED
    BY <1>6, <2>1, <2>2 DEF Solves
<1> DEFINE f == [n \in 0..N |-> it[1..n]]
<1>9. f[0] = base /\ f[N] = Cut(m, a)
  BY <1>1, <1>2, <1>7
<1>10. \A n \in 1..N : f[n] = CutNext(f[n - 1], m[n])
  <2>1. \A n \in 1..N : n \in 0..N /\ n - 1 \in 0..N
    BY <1>1
  <2> QED
    BY <1>8, <2>1
<1> HIDE DEF f
<1> QED
  BY <1>9, <1>10 DEF N, base

(* The pieces in front of the cursor: apart, and what no merged interval covers. *)
Pieces(acc, a, m, n) ==
  /\ acc \in Cuts /\ a <= acc.cursor
  /\ n > 0 => acc.cursor = m[n].to
  /\ \A o \in acc.out : a <= o.from /\ o.from < o.to /\ o.to <= acc.cursor
  /\ \A o, p \in acc.out : o = p \/ ~Overlaps(o, p)
  /\ \A t \in Int : a <= t /\ t < acc.cursor =>
       ((\E o \in acc.out : Within(o, t)) <=> ~\E k \in 1..n : Within(m[k], t))

LEMMA CutNextRight ==
  ASSUME NEW m \in Seq(Spans), Apart(m), NEW a \in Int,
         \A k \in 1..Len(m) : a <= m[k].from,
         NEW n \in 1..Len(m), NEW acc, Pieces(acc, a, m, n - 1),
         n = 1 => acc.cursor = a
  PROVE  Pieces(CutNext(acc, m[n]), a, m, n)
<1> DEFINE item == m[n]
           new == CutNext(acc, item)
           piece == Interval(acc.cursor, item.from)
<1>1. item \in Spans /\ item.from \in Int /\ item.to \in Int /\ item.from < item.to
  <2>1. item \in Spans
    OBVIOUS
  <2>2. item.from < item.to
    BY DEF Apart
  <2> QED
    BY <2>1, <2>2 DEF Spans
<1>2. acc \in Cuts /\ acc.cursor \in Int
  BY DEF Pieces, Cuts
<1>3. acc.cursor <= item.from
  <2>1. CASE n = 1
    BY <2>1
  <2>2. CASE n # 1
    <3>1. n - 1 \in 1..Len(m) /\ n - 1 > 0 /\ n - 1 < n
      BY <2>2
    <3>2. acc.cursor = m[n - 1].to /\ m[n - 1].to < item.from
      BY <3>1 DEF Pieces, Apart
    <3> QED
      BY <1>1, <1>2, <3>2
  <2> QED
    BY <2>1, <2>2
<1>4. new \in Cuts /\ new.cursor = item.to
  <2>1. new \in Cuts /\ new.cursor = IF acc.cursor >= item.to THEN acc.cursor ELSE item.to
    BY <1>1, <1>2, CutNextType
  <2> QED
    BY <1>1, <1>2, <1>3, <2>1
<1>5. /\ piece.from = acc.cursor /\ piece.to = item.from
      /\ new.out = IF item.from > acc.cursor THEN acc.out \cup {piece} ELSE acc.out
  BY DEF Interval, CutNext
<1>6. \A o \in acc.out : /\ o.from \in Int /\ o.to \in Int
                         /\ a <= o.from /\ o.from < o.to /\ o.to <= acc.cursor
  <2>1. \A o \in Spans : o.from \in Int /\ o.to \in Int
    BY DEF Spans
  <2> QED
    BY <1>2, <2>1 DEF Pieces, Cuts
<1> HIDE DEF new, piece
<1>7. \A o \in new.out : a <= o.from /\ o.from < o.to /\ o.to <= new.cursor
  <2>1. a <= acc.cursor
    BY DEF Pieces
  <2> QED
    BY <1>1, <1>2, <1>3, <1>4, <1>5, <1>6, <2>1
<1>8. \A o \in acc.out : ~Overlaps(o, piece) /\ ~Overlaps(piece, o)
  BY <1>1, <1>2, <1>3, <1>5, <1>6 DEF Overlaps
<1>9. \A o, p \in new.out : o = p \/ ~Overlaps(o, p)
  BY <1>5, <1>8 DEF Pieces
<1>10. ASSUME NEW t \in Int, a <= t, t < new.cursor
       PROVE  (\E o \in new.out : Within(o, t)) <=> ~\E k \in 1..n : Within(m[k], t)
  <2>1. (\E k \in 1..n : Within(m[k], t))
          <=> Within(item, t) \/ \E k \in 1..(n - 1) : Within(m[k], t)
    <3>1. \A k \in 1..n : k = n \/ k \in 1..(n - 1)
      OBVIOUS
    <3>2. n \in 1..n /\ \A k \in 1..(n - 1) : k \in 1..n
      OBVIOUS
    <3> QED
      BY <3>1, <3>2
  <2>2. CASE t < acc.cursor
    <3>1. ~Within(item, t) /\ ~Within(piece, t)
      BY <1>1, <1>2, <1>3, <1>5, <2>2 DEF Within
    <3>2. (\E o \in acc.out : Within(o, t)) <=> ~\E k \in 1..(n - 1) : Within(m[k], t)
      BY <1>10, <2>2 DEF Pieces
    <3>3. (\E o \in new.out : Within(o, t)) <=> \E o \in acc.out : Within(o, t)
      BY <1>5, <3>1
    <3> QED
      BY <2>1, <3>1, <3>2, <3>3
  <2>3. CASE t >= acc.cursor
    <3>1. \A o \in acc.out : ~Within(o, t)
      BY <1>2, <1>6, <2>3 DEF Within
    <3>2. ~\E k \in 1..(n - 1) : Within(m[k], t)
      <4> SUFFICES ASSUME NEW k \in 1..(n - 1) PROVE ~Within(m[k], t)
        OBVIOUS
      <4>1. k \in 1..Len(m) /\ n - 1 \in 1..Len(m) /\ n - 1 > 0
        OBVIOUS
      <4>2. m[k] \in Spans /\ m[n - 1] \in Spans
        BY <4>1
      <4>3. m[k].to \in Int /\ m[n - 1].to \in Int /\ m[n - 1].from \in Int
        BY <4>2 DEF Spans
      <4>4. acc.cursor = m[n - 1].to
        BY <4>1 DEF Pieces
      <4>5. CASE k = n - 1
        BY <2>3, <4>3, <4>4, <4>5 DEF Within
      <4>6. CASE k # n - 1
        <5>1. m[k].to < m[n - 1].from /\ m[n - 1].from < m[n - 1].to
          BY <4>1, <4>6 DEF Apart
        <5> QED
          BY <2>3, <4>3, <4>4, <5>1 DEF Within
      <4> QED
        BY <4>5, <4>6
    <3>3. Within(item, t) <=> ~(item.from > acc.cursor /\ Within(piece, t))
      BY <1>1, <1>2, <1>3, <1>4, <1>5, <1>10, <2>3 DEF Within
    <3>4. (\E o \in new.out : Within(o, t)) <=> item.from > acc.cursor /\ Within(piece, t)
      BY <1>5, <3>1
    <3> QED
      BY <2>1, <3>2, <3>3, <3>4
  <2> QED
    BY <1>2, <2>2, <2>3
<1>11. a <= new.cursor
  <2>1. a <= item.from
    OBVIOUS
  <2> QED
    BY <1>1, <1>4, <2>1
<1> QED
  BY <1>4, <1>7, <1>9, <1>10, <1>11 DEF Pieces, new

(* Pieces of a whole, apart from each other. *)
Disjoint(out) == \A o, p \in out : o = p \/ ~Overlaps(o, p)
Inside(out, whole) ==
  \A o \in out : whole.from <= o.from /\ o.from < o.to /\ o.to <= whole.to

(* What merged intervals leave of a whole. *)
LEMMA CutIsRight ==
  ASSUME NEW m \in Seq(Spans), Apart(m), NEW a \in Int, \A k \in 1..Len(m) : a <= m[k].from
  PROVE  Pieces(Cut(m, a), a, m, Len(m)) /\ (Len(m) = 0 => Cut(m, a).cursor = a)
<1> DEFINE N == Len(m)
<1>1. N \in Nat
  OBVIOUS
<1>2. PICK f : /\ f[0] = Whole(a) /\ f[N] = Cut(m, a)
               /\ \A n \in 1..N : f[n] = CutNext(f[n - 1], m[n])
  BY CutOneByOne
<1> DEFINE G == {n \in 0..N : Pieces(f[n], a, m, n)}
<1>3. 0 \in G
  BY <1>1, <1>2 DEF Pieces, Whole, Cuts
<1>4. ASSUME NEW n \in 1..N, n - 1 \in G PROVE n \in G
  <2>1. Pieces(f[n - 1], a, m, n - 1) /\ f[n] = CutNext(f[n - 1], m[n])
    BY <1>2, <1>4
  <2>2. n = 1 => f[n - 1].cursor = a
    BY <1>2 DEF Whole
  <2>3. n \in 1..Len(m) /\ n \in 0..N
    OBVIOUS
  <2>4. Pieces(CutNext(f[n - 1], m[n]), a, m, n)
    BY <2>1, <2>2, <2>3, CutNextRight
  <2> QED
    BY <2>1, <2>3, <2>4
<1>5. N \in G
  <2>1. \A n \in 0..N : n \in G
    <3> HIDE DEF G
    <3> QED
      BY <1>1, <1>3, <1>4, OneByOne
  <2> QED
    BY <1>1, <2>1
<1> QED
  BY <1>2, <1>5 DEF Whole

(* What is blocked of a whole. *)
Blocking(whole, blocked) == {Clip(b, whole) : b \in {b \in blocked : Overlaps(b, whole)}}

LEMMA BlockingIsRight ==
  ASSUME NEW whole, whole.from \in Int, whole.to \in Int,
         NEW blocked \in SUBSET Spans, IsFiniteSet(blocked)
  PROVE  LET m == Merge(Blocking(whole, blocked))
         IN /\ m \in Seq(Spans) /\ Apart(m)
            /\ \A t \in Int : Covers(m, t) <=> Within(whole, t) /\ \E b \in blocked : Within(b, t)
            /\ \A k \in 1..Len(m) : whole.from <= m[k].from /\ m[k].from < m[k].to
                                     /\ m[k].to <= whole.to
<1> DEFINE B == {b \in blocked : Overlaps(b, whole)}
           C == Blocking(whole, blocked)
           m == Merge(C)
<1>1. \A b \in blocked : b.from \in Int /\ b.to \in Int
  BY DEF Spans
<1>2. C \in SUBSET Spans
  <2>1. \A b \in blocked : Clip(b, whole) \in Spans
    BY <1>1, ClipIsRight
  <2> QED
    BY <2>1 DEF Blocking
<1>3. IsFiniteSet(C)
  <2> DEFINE f == [b \in B |-> Clip(b, whole)]
  <2>1. IsFiniteSet(B)
    BY FS_Subset
  <2>2. C = {f[b] : b \in B}
    BY DEF Blocking
  <2> HIDE DEF f, B
  <2> QED
    BY <2>1, <2>2, FiniteImage
<1>4. ASSUME NEW t \in Int
      PROVE  (\E i \in C : Within(i, t)) <=> Within(whole, t) /\ \E b \in blocked : Within(b, t)
  <2>1. \A b \in blocked : /\ Within(Clip(b, whole), t) <=> Within(b, t) /\ Within(whole, t)
                           /\ Within(b, t) /\ Within(whole, t) => Overlaps(b, whole)
    BY <1>1, ClipIsRight
  <2> QED
    BY <2>1 DEF Blocking
<1> HIDE DEF C
<1>5. /\ m \in Seq(Spans) /\ Apart(m)
      /\ \A t \in Int : Covers(m, t) <=> \E i \in C : Within(i, t)
  BY <1>2, <1>3, MergeIsRight
<1> HIDE DEF m
<1>6. \A t \in Int : Covers(m, t) <=> Within(whole, t) /\ \E b \in blocked : Within(b, t)
  BY <1>4, <1>5
<1>7. ASSUME NEW k \in 1..Len(m)
      PROVE  whole.from <= m[k].from /\ m[k].from < m[k].to /\ m[k].to <= whole.to
  <2>1. m[k] \in Spans
    BY <1>5
  <2>2. m[k].from \in Int /\ m[k].to \in Int /\ m[k].to - 1 \in Int
    BY <2>1 DEF Spans
  <2>3. m[k].from < m[k].to
    BY <1>5 DEF Apart
  <2>4. Covers(m, m[k].from) /\ Covers(m, m[k].to - 1)
    <3>1. Within(m[k], m[k].from) /\ Within(m[k], m[k].to - 1)
      BY <2>2, <2>3 DEF Within
    <3> QED
      BY <3>1 DEF Covers
  <2>5. Within(whole, m[k].from) /\ Within(whole, m[k].to - 1)
    BY <1>6, <2>2, <2>4
  <2> QED
    BY <2>2, <2>3, <2>5 DEF Within
<1> QED
  BY <1>5, <1>6, <1>7 DEF m, C

(* _subtract: the pieces it returns are apart, inside the whole, and cover what of *)
(* the whole is not blocked.                                                        *)
LEMMA SubtractIsRight ==
  ASSUME NEW whole, whole.from \in Int, whole.to \in Int,
         NEW blocked \in SUBSET Spans, IsFiniteSet(blocked)
  PROVE  LET out == Subtract(whole, blocked)
         IN /\ out \in SUBSET Spans /\ Inside(out, whole) /\ Disjoint(out)
            /\ \A t \in Int : Within(whole, t) =>
                 ((\E o \in out : Within(o, t)) <=> ~\E b \in blocked : Within(b, t))
<1> DEFINE m == Merge(Blocking(whole, blocked))
           a == whole.from
           done == Cut(m, a)
           rest == Interval(done.cursor, whole.to)
           out == Subtract(whole, blocked)
<1>1. /\ m \in Seq(Spans) /\ Apart(m)
      /\ \A t \in Int : Covers(m, t) <=> Within(whole, t) /\ \E b \in blocked : Within(b, t)
      /\ \A k \in 1..Len(m) : a <= m[k].from /\ m[k].from < m[k].to /\ m[k].to <= whole.to
  BY BlockingIsRight
<1>2. out = IF whole.to <= whole.from THEN {}
            ELSE IF done.cursor < whole.to THEN done.out \cup {rest} ELSE done.out
  <2>1. m = Merge({Clip(b, whole) : b \in {b \in blocked : Overlaps(b, whole)}})
    BY DEF Blocking
  <2> HIDE DEF m
  <2> QED
    BY <2>1 DEF Subtract, Cut, CutNext, Whole
<1> HIDE DEF m
<1>3. Pieces(done, a, m, Len(m)) /\ (Len(m) = 0 => done.cursor = a)
  BY <1>1, CutIsRight
<1> HIDE DEF done
<1>4. done.cursor \in Int /\ done.out \in SUBSET Spans /\ a <= done.cursor
  BY <1>3 DEF Pieces, Cuts
<1>5. CASE whole.to <= whole.from
  BY <1>2, <1>5 DEF Inside, Disjoint, Within
<1>6. CASE whole.to > whole.from
  <2>1. rest.from = done.cursor /\ rest.to = whole.to /\ rest \in Spans
    BY <1>4 DEF Interval, Spans
  <2>2. done.cursor <= whole.to
    <3>1. CASE Len(m) = 0
      BY <1>3, <1>6, <3>1
    <3>2. CASE Len(m) # 0
      <4>1. Len(m) \in 1..Len(m) /\ Len(m) > 0
        BY <1>1, <3>2
      <4> QED
        BY <1>1, <1>3, <4>1 DEF Pieces
    <3> QED
      BY <3>1, <3>2
  <2>3. \A o \in done.out : /\ o.from \in Int /\ o.to \in Int
                            /\ a <= o.from /\ o.from < o.to /\ o.to <= done.cursor
    <3>1. \A o \in Spans : o.from \in Int /\ o.to \in Int
      BY DEF Spans
    <3> QED
      BY <1>3, <1>4, <3>1 DEF Pieces
  <2> HIDE DEF rest
  <2>4. out = IF done.cursor < whole.to THEN done.out \cup {rest} ELSE done.out
    BY <1>2, <1>6
  <2> HIDE DEF out
  <2>5. out \in SUBSET Spans /\ Inside(out, whole)
    BY <1>4, <2>1, <2>2, <2>3, <2>4 DEF Inside
  <2>6. Disjoint(out)
    <3>1. \A o \in done.out : ~Overlaps(o, rest) /\ ~Overlaps(rest, o)
      BY <1>4, <2>1, <2>3 DEF Overlaps
    <3>2. Disjoint(done.out)
      BY <1>3 DEF Pieces, Disjoint
    <3> QED
      BY <2>4, <3>1, <3>2 DEF Disjoint
  <2>7. ASSUME NEW t \in Int, Within(whole, t)
        PROVE  (\E o \in out : Within(o, t)) <=> ~\E b \in blocked : Within(b, t)
    <3>1. (\E b \in blocked : Within(b, t)) <=> \E k \in 1..Len(m) : Within(m[k], t)
      BY <1>1, <2>7 DEF Covers
    <3>2. a <= t /\ t < whole.to
      BY <2>7 DEF Within
    <3>3. CASE t < done.cursor
      <4>1. (\E o \in done.out : Within(o, t)) <=> ~\E k \in 1..Len(m) : Within(m[k], t)
        BY <1>3, <3>2, <3>3 DEF Pieces
      <4>2. ~Within(rest, t)
        BY <1>4, <2>1, <3>3 DEF Within
      <4> QED
        BY <2>4, <3>1, <4>1, <4>2
    <3>4. CASE t >= done.cursor
      <4>1. Within(rest, t) /\ done.cursor < whole.to
        BY <1>4, <2>1, <3>2, <3>4 DEF Within
      <4>2. ~\E k \in 1..Len(m) : Within(m[k], t)
        <5> SUFFICES ASSUME NEW k \in 1..Len(m) PROVE ~Within(m[k], t)
          OBVIOUS
        <5>1. Len(m) \in 1..Len(m) /\ Len(m) > 0
          BY <1>1
        <5>2. m[k] \in Spans /\ m[Len(m)] \in Spans
          BY <1>1, <5>1
        <5>3. m[k].to \in Int /\ m[Len(m)].from \in Int /\ m[Len(m)].to \in Int
          BY <5>2 DEF Spans
        <5>4. done.cursor = m[Len(m)].to
          BY <1>3, <5>1 DEF Pieces
        <5>5. CASE k = Len(m)
          BY <3>4, <5>3, <5>4, <5>5 DEF Within
        <5>6. CASE k # Len(m)
          <6>1. k < Len(m)
            BY <1>1, <5>6
          <6>2. m[k].to < m[Len(m)].from /\ m[Len(m)].from < m[Len(m)].to
            BY <1>1, <5>1, <6>1 DEF Apart
          <6> QED
            BY <3>4, <5>3, <5>4, <6>2 DEF Within
        <5> QED
          BY <5>5, <5>6
      <4> QED
        BY <2>4, <3>1, <4>1, <4>2
    <3> QED
      BY <1>4, <3>3, <3>4
  <2> QED
    BY <2>5, <2>6, <2>7 DEF out
<1> QED
  BY <1>5, <1>6

--------------------------------------------------------------------------------
(* The plan *)

(* The calendar day of a moment. *)
LEMMA DateOf ==
  ASSUME NEW t \in Nat
  PROVE  /\ Midnight \in Nat \ {0} /\ Date(t) \in Nat
         /\ \A d \in Nat : d * Midnight <= t => d <= Date(t)
         /\ \A d \in Nat : t < (d + 1) * Midnight => Date(t) <= d
         /\ \A u \in Nat : t <= u => Date(t) <= Date(u)
<1>1. Midnight \in Nat \ {0}
  BY AttendanceAssumption
<1>2. \A n, M \in Nat, d \in Nat : M # 0 =>
        /\ n \div M \in Nat
        /\ d * M <= n => d <= n \div M
        /\ n < (d + 1) * M => n \div M <= d
  OBVIOUS
<1>3. \A n, M, u \in Nat : M # 0 /\ n <= u => n \div M <= u \div M
  OBVIOUS
<1> QED
  BY <1>1, <1>2, <1>3 DEF Date

(* What the invariant needs of the plan. *)
PlanOK ==
  /\ shift.from \in Nat /\ shift.to \in Nat
  /\ shift.kind # "Off" => shift.from < shift.to
  /\ IsFiniteSet(timeOff)
  /\ \A r \in timeOff :
       /\ r.first \in Nat /\ r.last \in Nat /\ r.from \in Nat /\ r.to \in Nat
       /\ r.kind = "PARTIAL_DAY" /\ r.to > r.from =>
            r.first = r.last /\ r.first * Midnight <= r.from /\ r.to <= (r.first + 1) * Midnight
  /\ status \subseteq [from : Nat, to : Nat, category : STRING, rank : Nat]
  /\ lilo \subseteq [date : Nat, first : Nat \cup {NoTime}, last : Nat \cup {NoTime}]

LEMMA PlanIsOK ==
  ASSUME TypeOK
  PROVE  PlanOK
<1>1. PICK p \in Plans : /\ shift = p.shift /\ timeOff = p.timeOff
                         /\ held = [status |-> p.status, lilo |-> p.lilo]
  BY DEF TypeOK
<1>2. /\ p.status = held.status /\ p.lilo = held.lilo
      /\ status \subseteq held.status /\ lilo \subseteq held.lilo
  BY <1>1 DEF TypeOK
<1>3. /\ p.shift.from \in Nat /\ p.shift.to \in Nat
      /\ p.shift.kind # "Off" => p.shift.from < p.shift.to
      /\ IsFiniteSet(p.timeOff)
      /\ \A r \in p.timeOff :
            /\ r.first \in Nat /\ r.last \in Nat /\ r.from \in Nat /\ r.to \in Nat
            /\ r.kind = "PARTIAL_DAY" /\ r.to > r.from =>
                 r.first = r.last /\ r.first * Midnight <= r.from /\ r.to <= (r.first + 1) * Midnight
      /\ p.status \subseteq [from : Nat, to : Nat, category : STRING, rank : Nat]
      /\ p.lilo \subseteq [date : Nat, first : Nat \cup {NoTime}, last : Nat \cup {NoTime}]
  BY <1>1, AttendanceAssumption
<1> QED
  BY <1>1, <1>2, <1>3 DEF PlanOK

(* What is approved of a shift is covered by intervals made of the rows in scope. *)
InScope(sh, rows) == {r \in rows : r.first <= Date(sh.to) /\ r.last >= Date(sh.from)}

LEMMA ApprovedCovered ==
  ASSUME PlanOK
  PROVE  LET approved == ApprovedIntervals(shift, InScope(shift, timeOff))
         IN /\ approved \in SUBSET Spans /\ IsFiniteSet(approved)
            /\ \A t \in Int : Within(shift, t) =>
                 ((\E b \in approved : Within(b, t)) <=> Approved(t))
<1> DEFINE rows == InScope(shift, timeOff)
           partial == {r \in rows : r.kind = "PARTIAL_DAY" /\ r.to > r.from}
           full == {r \in rows : r.kind = "FULL_DAY" /\ Date(shift.from) \in r.first..r.last}
           f == [r \in partial |-> Interval(r.from, r.to)]
           g == [r \in full |-> Interval(shift.from, shift.to)]
           P == {f[r] : r \in partial}
           F == {g[r] : r \in full}
           approved == ApprovedIntervals(shift, rows)
<1>1. /\ shift.from \in Nat /\ shift.to \in Nat
      /\ \A r \in timeOff :
           r.first \in Nat /\ r.last \in Nat /\ r.from \in Nat /\ r.to \in Nat
  BY DEF PlanOK
<1>2. rows \in SUBSET timeOff /\ partial \in SUBSET timeOff /\ full \in SUBSET timeOff
  BY DEF InScope
<1>3. approved = P \cup F
  BY DEF ApprovedIntervals
<1>4. IsFiniteSet(P) /\ IsFiniteSet(F)
  <2>1. IsFiniteSet(partial) /\ IsFiniteSet(full)
    BY <1>2, FS_Subset DEF PlanOK
  <2> HIDE DEF partial, full, f, g
  <2> QED
    BY <2>1, FiniteImage
<1>5. /\ \A r \in partial : f[r].from = r.from /\ f[r].to = r.to /\ f[r] \in Spans
      /\ \A r \in full : g[r].from = shift.from /\ g[r].to = shift.to /\ g[r] \in Spans
  <2>1. \A a, b \in Nat : /\ Interval(a, b).from = a /\ Interval(a, b).to = b
                          /\ Interval(a, b) \in Spans
    BY DEF Interval, Spans
  <2> QED
    BY <1>1, <1>2, <2>1
<1>6. approved \in SUBSET Spans /\ IsFiniteSet(approved)
  <2> HIDE DEF f, g, partial, full, approved
  <2>1. P \in SUBSET Spans /\ F \in SUBSET Spans
    BY <1>5
  <2> HIDE DEF P, F
  <2> QED
    BY <1>3, <1>4, <2>1, FS_Union
<1>7. ASSUME NEW t \in Int, Within(shift, t)
      PROVE  (\E b \in approved : Within(b, t)) <=> Approved(t)
  <2>1. t \in Nat /\ shift.from <= t /\ t < shift.to
    BY <1>1, <1>7 DEF Within
  <2>2. (\E b \in approved : Within(b, t))
          <=> (\E r \in partial : Within(f[r], t)) \/ \E r \in full : Within(g[r], t)
    BY <1>3
  <2>3. /\ \A r \in partial : Within(f[r], t) <=> Within(r, t)
        /\ \A r \in full : Within(g[r], t)
    BY <1>5, <1>7 DEF Within
  <2>4. \A r \in timeOff : t \in Ticks(r) <=> Within(r, t)
    BY <1>1 DEF Ticks, Within
  <2>5. ASSUME NEW r \in timeOff, r.kind = "PARTIAL_DAY", Within(r, t) PROVE r \in partial
    <3>1. r.from <= t /\ t < r.to /\ r.to > r.from
      BY <1>1, <2>1, <2>5 DEF Within
    <3>2. /\ r.first = r.last /\ r.first * Midnight <= r.from
          /\ r.to <= (r.first + 1) * Midnight
      BY <2>5, <3>1 DEF PlanOK
    <3>3. Midnight \in Nat /\ r.first * Midnight \in Nat /\ (r.first + 1) * Midnight \in Nat
      BY <1>1, <2>1, DateOf
    <3>4. r.first * Midnight <= shift.to /\ shift.from < (r.first + 1) * Midnight
      BY <1>1, <2>1, <3>1, <3>2, <3>3
    <3>5. r.first <= Date(shift.to) /\ Date(shift.from) <= r.first
      BY <1>1, <3>4, DateOf
    <3>6. r \in rows
      BY <3>2, <3>5, <1>1, DateOf DEF InScope
    <3> QED
      BY <2>5, <3>1, <3>6
  <2>6. ASSUME NEW r \in timeOff, r.kind = "FULL_DAY", Date(shift.from) \in r.first..r.last
        PROVE  r \in full
    <3>1. shift.from <= shift.to
      BY <1>1, <2>1
    <3>2. Date(shift.from) <= Date(shift.to) /\ Date(shift.from) \in Nat /\ Date(shift.to) \in Nat
      BY <1>1, <3>1, DateOf
    <3>3. r.first <= Date(shift.from) /\ Date(shift.from) <= r.last
      BY <1>1, <2>6
    <3>4. r \in rows
      BY <1>1, <3>2, <3>3 DEF InScope
    <3> QED
      BY <2>6, <3>4
  <2>7. Approved(t) <=> \/ \E r \in timeOff : r.kind = "PARTIAL_DAY" /\ Within(r, t)
                        \/ \E r \in timeOff : r.kind = "FULL_DAY" /\ Date(shift.from) \in r.first..r.last
    BY <2>4 DEF Approved
  <2>8. /\ \A r \in partial : r \in timeOff /\ r.kind = "PARTIAL_DAY"
        /\ \A r \in full : r \in timeOff /\ r.kind = "FULL_DAY" /\ Date(shift.from) \in r.first..r.last
    BY <1>2
  <2> HIDE DEF partial, full, f, g, approved
  <2> QED
    BY <2>2, <2>3, <2>5, <2>6, <2>7, <2>8
<1> QED
  BY <1>6, <1>7

(* The shift is no absence by itself. *)
ToBeWorked == shift.kind # "Planned absence"

(* Approved time off: apart, inside the shift, and exactly what the rows approve. *)
LEMMA TimeOffIsRight ==
  ASSUME PlanOK, ToBeWorked
  PROVE  LET off == TimeOff(shift, timeOff)
         IN /\ off \in SUBSET Spans /\ IsFiniteSet(off)
            /\ Inside(off, shift) /\ Disjoint(off)
            /\ \A t \in Int : Within(shift, t) =>
                 ((\E o \in off : Within(o, t)) <=> Approved(t))
<1> DEFINE approved == ApprovedIntervals(shift, InScope(shift, timeOff))
           m == Merge(Blocking(shift, approved))
           off == TimeOff(shift, timeOff)
<1>1. shift.from \in Int /\ shift.to \in Int
  BY DEF PlanOK
<1>2. off = ToSet(m)
  BY DEF TimeOff, ToBeWorked, InScope, Blocking
<1>3. /\ approved \in SUBSET Spans /\ IsFiniteSet(approved)
      /\ \A t \in Int : Within(shift, t) => ((\E b \in approved : Within(b, t)) <=> Approved(t))
  BY ApprovedCovered
<1> HIDE DEF approved
<1>4. /\ m \in Seq(Spans) /\ Apart(m)
      /\ \A t \in Int : Covers(m, t) <=> Within(shift, t) /\ \E b \in approved : Within(b, t)
      /\ \A k \in 1..Len(m) : shift.from <= m[k].from /\ m[k].from < m[k].to
                               /\ m[k].to <= shift.to
  BY <1>1, <1>3, BlockingIsRight
<1> HIDE DEF m, off
<1>5. /\ ToSet(m) \in SUBSET Spans /\ IsFiniteSet(ToSet(m))
      /\ \A o, p \in ToSet(m) : o = p \/ ~Overlaps(o, p)
      /\ \A o \in ToSet(m) : \E k \in 1..Len(m) : o = m[k]
      /\ \A t : Covers(m, t) <=> \E o \in ToSet(m) : Within(o, t)
  BY <1>4, MergedSetIsRight
<1>6. Inside(off, shift) /\ Disjoint(off)
  BY <1>2, <1>4, <1>5 DEF Inside, Disjoint
<1>7. ASSUME NEW t \in Int, Within(shift, t)
      PROVE  (\E o \in off : Within(o, t)) <=> Approved(t)
  BY <1>2, <1>3, <1>4, <1>5, <1>7
<1> QED
  BY <1>2, <1>5, <1>6, <1>7 DEF off

(* Work is what of the shift no row approves. *)
LEMMA WorkingIsRight ==
  ASSUME PlanOK, ToBeWorked
  PROVE  LET work == Working(shift, timeOff)
         IN /\ work \in SUBSET Spans /\ Inside(work, shift) /\ Disjoint(work)
            /\ \A t \in Int : Within(shift, t) =>
                 ((\E w \in work : Within(w, t)) <=> ~Approved(t))
<1> DEFINE off == TimeOff(shift, timeOff)
<1>1. shift.from \in Int /\ shift.to \in Int
  BY DEF PlanOK
<1>2. /\ off \in SUBSET Spans /\ IsFiniteSet(off)
      /\ \A t \in Int : Within(shift, t) => ((\E o \in off : Within(o, t)) <=> Approved(t))
  BY TimeOffIsRight
<1>3. Working(shift, timeOff) = Subtract(shift, off)
  BY DEF Working
<1> HIDE DEF off
<1> QED
  BY <1>1, <1>2, <1>3, SubtractIsRight

(* Every tick of a shift is in exactly one interval. *)
LEMMA PartitionedRight ==
  ASSUME PlanOK
  PROVE  ShiftPartitioned
<1> SUFFICES ASSUME shift.kind = "Work", NEW t \in Ticks(shift)
             PROVE  /\ Cardinality({i \in TimeOff(shift, timeOff) \cup Working(shift, timeOff) :
                                      t \in Ticks(i)}) = 1
                    /\ Approved(t) <=> \E i \in TimeOff(shift, timeOff) : t \in Ticks(i)
  BY DEF ShiftPartitioned
<1> DEFINE off == TimeOff(shift, timeOff)
           work == Working(shift, timeOff)
           at == {i \in off \cup work : t \in Ticks(i)}
<1>1. t \in Int /\ Within(shift, t)
  <2>1. shift.from \in Nat /\ shift.to \in Nat
    BY DEF PlanOK
  <2> QED
    BY <2>1 DEF Ticks, Within
<1>2. ToBeWorked
  BY DEF ToBeWorked
<1>3. /\ off \in SUBSET Spans /\ Disjoint(off)
      /\ (\E o \in off : Within(o, t)) <=> Approved(t)
  BY <1>1, <1>2, TimeOffIsRight
<1>4. /\ work \in SUBSET Spans /\ Disjoint(work)
      /\ (\E w \in work : Within(w, t)) <=> ~Approved(t)
  BY <1>1, <1>2, WorkingIsRight
<1> HIDE DEF off, work
<1>5. \A i \in Spans : /\ i.from \in Int /\ i.to \in Int
                       /\ t \in Ticks(i) <=> Within(i, t)
  BY <1>1 DEF Spans, Ticks, Within
<1>6. \A i, j \in Spans : Within(i, t) /\ Within(j, t) => Overlaps(i, j)
  BY <1>1, <1>5 DEF Within, Overlaps
<1>7. \E i \in at : at = {i}
  <2>1. CASE Approved(t)
    <3>1. PICK o \in off : Within(o, t)
      BY <1>3, <2>1
    <3>2. \A i \in at : i = o
      BY <1>3, <1>4, <1>5, <1>6, <2>1, <3>1 DEF Disjoint
    <3> QED
      BY <1>3, <1>5, <3>1, <3>2
  <2>2. CASE ~Approved(t)
    <3>1. PICK w \in work : Within(w, t)
      BY <1>4, <2>2
    <3>2. \A i \in at : i = w
      BY <1>3, <1>4, <1>5, <1>6, <2>2, <3>1 DEF Disjoint
    <3> QED
      BY <1>4, <1>5, <3>1, <3>2
  <2> QED
    BY <2>1, <2>2
<1>8. Cardinality(at) = 1
  <2> HIDE DEF at
  <2> QED
    BY <1>7, FS_Singleton
<1>9. Approved(t) <=> \E i \in off : t \in Ticks(i)
  BY <1>3, <1>5
<1> QED
  BY <1>8, <1>9 DEF off, work

--------------------------------------------------------------------------------
(* What of an interval is work, and what was recorded of the agent *)

(* A set of numbers that has a bound has a last one. *)
LEMMA GreatestNumber ==
  ASSUME NEW S \in SUBSET Int, S # {}, NEW b \in Int, \A x \in S : x <= b
  PROVE  Max(S) \in S /\ \A x \in S : x <= Max(S)
<1> DEFINE D == {n \in Nat : b - n \in S}
<1>1. D # {}
  <2>1. PICK x \in S : TRUE
    OBVIOUS
  <2>2. b - x \in Nat /\ b - (b - x) = x
    BY <2>1
  <2> QED
    BY <2>1, <2>2
<1>2. PICK n \in D : \A k \in D : n <= k
  <2>1. D \in SUBSET Nat
    OBVIOUS
  <2> HIDE DEF D
  <2> QED
    BY <1>1, <2>1, LeastNumber
<1>3. b - n \in S /\ \A x \in S : b - n >= x
  <2>1. \A x \in S : b - x \in D
    OBVIOUS
  <2> QED
    BY <1>2, <2>1
<1>4. \E x \in S : \A y \in S : x >= y
  BY <1>3
<1>5. Max(S) \in S /\ \A y \in S : Max(S) >= y
  BY <1>4 DEF Max
<1> QED
  BY <1>5

(* A set of natural numbers has a first one. *)
LEMMA SmallestNumber ==
  ASSUME NEW S \in SUBSET Nat, S # {}
  PROVE  Min(S) \in S /\ \A x \in S : Min(S) <= x
<1>1. \E x \in S : \A y \in S : x <= y
  BY LeastNumber
<1> QED
  BY <1>1 DEF Min

(* Parts of work are apart when work is, and each is part of an interval of work. *)
LEMMA IntersectionsAreRight ==
  ASSUME NEW i, i.from \in Int, i.to \in Int, i.from < i.to,
         NEW work \in SUBSET Spans, Disjoint(work), \A w \in work : w.from < w.to
  PROVE  LET parts == Intersections(i, work)
         IN /\ parts \in SUBSET Spans /\ Inside(parts, i) /\ Disjoint(parts)
            /\ \A o \in parts : \E w \in work : w.from <= o.from /\ o.to <= w.to
<1> DEFINE parts == Intersections(i, work)
<1>1. \A w \in work : w.from \in Int /\ w.to \in Int
  BY DEF Spans
<1>2. \A w \in work : /\ Clip(i, w) \in Spans
                      /\ Clip(i, w).from = IF i.from >= w.from THEN i.from ELSE w.from
                      /\ Clip(i, w).to = IF i.to <= w.to THEN i.to ELSE w.to
  BY <1>1, ClipIsRight
<1>3. \A o \in parts : \E w \in work : Overlaps(w, i) /\ o = Clip(i, w)
  BY DEF Intersections
<1> HIDE DEF parts
<1>4. ASSUME NEW w \in work, Overlaps(w, i)
      PROVE  /\ i.from <= Clip(i, w).from /\ Clip(i, w).from < Clip(i, w).to
             /\ Clip(i, w).to <= i.to
             /\ w.from <= Clip(i, w).from /\ Clip(i, w).to <= w.to
  BY <1>1, <1>2, <1>4 DEF Overlaps
<1>5. ASSUME NEW w \in work, NEW v \in work, w # v
      PROVE  ~Overlaps(Clip(i, w), Clip(i, v))
  <2>1. ~Overlaps(w, v)
    BY <1>5 DEF Disjoint
  <2> QED
    BY <1>1, <1>2, <2>1 DEF Overlaps
<1>6. parts \in SUBSET Spans
  BY <1>2, <1>3
<1>7. Inside(parts, i)
  BY <1>3, <1>4 DEF Inside
<1>8. Disjoint(parts)
  BY <1>3, <1>5 DEF Disjoint
<1>9. \A o \in parts : \E w \in work : w.from <= o.from /\ o.to <= w.to
  BY <1>3, <1>4
<1> QED
  BY <1>6, <1>7, <1>8, <1>9 DEF parts

(* Recorded segments: apart, of the shift, and not of the future. *)
GrossOK(gross, asOf) ==
  /\ IsFiniteSet(gross) /\ Disjoint(gross) /\ Inside(gross, shift)
  /\ \A g \in gross : g.from \in Nat /\ g.to \in Nat /\ g.from < g.to /\ g.to <= asOf

(* Rows inside the window, and the boundaries they give. *)
ClippedRows(sh, until, rows) ==
  {[r EXCEPT !.from = Max({sh.from, @}), !.to = Min({until, @})] :
     r \in {r \in rows : r.from < until /\ r.to > sh.from}}
Boundaries(sh, until, rows) ==
  {sh.from, until} \cup UNION {{r.from, r.to} : r \in ClippedRows(sh, until, rows)}
PiecesOf(B) == {p \in B \X B : p[1] < p[2] /\ \A b \in B : b <= p[1] \/ b >= p[2]}

LEMMA SegmentsArePieces ==
  ASSUME NEW sh, NEW until, NEW rows
  PROVE  \E c, P : /\ P \subseteq PiecesOf(Boundaries(sh, until, rows))
                   /\ StatusSegments(sh, until, rows) =
                        {[from |-> p[1], to |-> p[2], category |-> c[p]] : p \in P}
<1> DEFINE clipped == ClippedRows(sh, until, rows)
           B == Boundaries(sh, until, rows)
           active(p) == {r \in clipped : r.from < p[2] /\ r.to > p[1]}
           chosen(p) == CHOOSE r \in active(p) :
                          \A o \in active(p) : o.from < r.from \/ (o.from = r.from /\ o.rank <= r.rank)
           P == {p \in PiecesOf(B) : active(p) # {}}
           c == [p \in P |-> chosen(p).category]
<1>1. StatusSegments(sh, until, rows) =
        {[from |-> p[1], to |-> p[2], category |-> chosen(p).category] : p \in P}
  BY DEF StatusSegments, ClippedRows, Boundaries, PiecesOf
<1>2. \A p \in P : c[p] = chosen(p).category
  OBVIOUS
<1>3. P \subseteq PiecesOf(B)
  OBVIOUS
<1> HIDE DEF P, c, chosen, B
<1>4. StatusSegments(sh, until, rows) =
        {[from |-> p[1], to |-> p[2], category |-> c[p]] : p \in P}
  BY <1>1, <1>2
<1> QED
  BY <1>3, <1>4 DEF B

LEMMA NoSegments ==
  ASSUME NEW sh, NEW until
  PROVE  StatusSegments(sh, until, {}) = {}
<1> DEFINE clipped == ClippedRows(sh, until, {})
           active(p) == {r \in clipped : r.from < p[2] /\ r.to > p[1]}
           chosen(p) == CHOOSE r \in active(p) :
                          \A o \in active(p) : o.from < r.from \/ (o.from = r.from /\ o.rank <= r.rank)
           P == {p \in PiecesOf(Boundaries(sh, until, {})) : active(p) # {}}
<1>1. StatusSegments(sh, until, {}) =
        {[from |-> p[1], to |-> p[2], category |-> chosen(p).category] : p \in P}
  BY DEF StatusSegments, ClippedRows, Boundaries, PiecesOf
<1>2. clipped = {}
  BY DEF ClippedRows
<1> HIDE DEF clipped
<1>3. P = {}
  BY <1>2
<1> HIDE DEF P, chosen
<1> QED
  BY <1>1, <1>3

(* Two pieces between neighbouring boundaries are one or do not overlap. *)
LEMMA PiecesAreApart ==
  ASSUME NEW B \in SUBSET Nat, NEW p \in PiecesOf(B), NEW q \in PiecesOf(B)
  PROVE  /\ p[1] \in B /\ p[2] \in B /\ p[1] < p[2] /\ q[1] \in B /\ q[2] \in B
         /\ p = q \/ p[2] <= q[1] \/ q[2] <= p[1]
<1>1. p \in B \X B /\ q \in B \X B
  BY DEF PiecesOf
<1>2. p = <<p[1], p[2]>> /\ q = <<q[1], q[2]>>
  BY <1>1
<1>3. p[1] \in B /\ p[2] \in B /\ q[1] \in B /\ q[2] \in B
  BY <1>1
<1>4. /\ p[1] < p[2] /\ \A b \in B : b <= p[1] \/ b >= p[2]
      /\ q[1] < q[2] /\ \A b \in B : b <= q[1] \/ b >= q[2]
  BY DEF PiecesOf
<1>5. p[1] \in Nat /\ p[2] \in Nat /\ q[1] \in Nat /\ q[2] \in Nat
  BY <1>3
<1>6. (p[1] = q[1] /\ p[2] = q[2]) \/ p[2] <= q[1] \/ q[2] <= p[1]
  BY <1>3, <1>4, <1>5
<1> QED
  BY <1>2, <1>3, <1>4, <1>6

LEMMA SegmentsAreRight ==
  ASSUME PlanOK, shift.from < shift.to, NEW asOf \in Nat
  PROVE  GrossOK(StatusSegments(shift, EvidenceEnd(shift, asOf), status), asOf)
<1> DEFINE until == EvidenceEnd(shift, asOf)
           a == shift.from
           clipped == ClippedRows(shift, until, status)
           B == Boundaries(shift, until, status)
           gross == StatusSegments(shift, until, status)
<1>1. a \in Nat /\ shift.to \in Nat
  BY DEF PlanOK
<1>2. /\ until \in Nat /\ a <= until /\ until <= shift.to
      /\ until <= asOf \/ until = a
  <2>1. Min({shift.to, asOf}) = IF shift.to <= asOf THEN shift.to ELSE asOf
    <3>1. shift.to \in Int /\ asOf \in Int
      BY <1>1
    <3> QED
      BY ONLY <3>1, OfTwo
  <2> QED
    BY <1>1, <2>1 DEF EvidenceEnd
<1> HIDE DEF until
<1>3. \A r \in clipped : r.from \in a..until /\ r.to \in a..until
  <2> SUFFICES ASSUME NEW r \in status, r.from < until, r.to > a
               PROVE  LET c == [r EXCEPT !.from = Max({a, @}), !.to = Min({until, @})]
                      IN c.from \in a..until /\ c.to \in a..until
    BY DEF ClippedRows
  <2> DEFINE c == [r EXCEPT !.from = Max({a, @}), !.to = Min({until, @})]
  <2>1. r \in [from : Nat, to : Nat, category : STRING, rank : Nat]
    BY DEF PlanOK
  <2>2. r.from \in Nat /\ r.to \in Nat
    BY <2>1
  <2>3. /\ Max({a, r.from}) = IF a >= r.from THEN a ELSE r.from
        /\ Min({until, r.to}) = IF until <= r.to THEN until ELSE r.to
    <3>1. a \in Int /\ until \in Int /\ r.from \in Int /\ r.to \in Int
      BY <1>1, <1>2, <2>2
    <3> QED
      BY ONLY <3>1, OfTwo
  <2>4. c.from = Max({a, r.from}) /\ c.to = Min({until, r.to})
    BY <2>1
  <2> HIDE DEF c
  <2>5. c.from \in a..until /\ c.to \in a..until
    BY <1>1, <1>2, <2>2, <2>3, <2>4
  <2> QED
    BY <2>5 DEF c
<1>4. B \in SUBSET (a..until)
  <2>1. a \in a..until /\ until \in a..until
    BY <1>1, <1>2
  <2> HIDE DEF clipped
  <2>2. B = {a, until} \cup UNION {{r.from, r.to} : r \in clipped}
    BY DEF Boundaries, clipped
  <2> QED
    BY <1>3, <2>1, <2>2
<1>5. B \in SUBSET Nat /\ \A b \in B : a <= b /\ b <= until
  BY <1>1, <1>2, <1>4
<1>6. IsFiniteSet(PiecesOf(B))
  <2>1. IsFiniteSet(a..until)
    <3>1. a \in Int /\ until \in Int
      BY <1>1, <1>2
    <3> QED
      BY ONLY <3>1, FS_Interval
  <2>2. IsFiniteSet(B)
    BY <1>4, <2>1, FS_Subset
  <2>3. IsFiniteSet(B \X B)
    BY <2>2, FS_Product
  <2>4. PiecesOf(B) \in SUBSET (B \X B)
    BY DEF PiecesOf
  <2> QED
    BY <2>3, <2>4, FS_Subset
<1>7. PICK c, P : /\ P \subseteq PiecesOf(B)
                  /\ gross = {[from |-> p[1], to |-> p[2], category |-> c[p]] : p \in P}
  BY SegmentsArePieces
<1> HIDE DEF B, gross
<1> DEFINE f == [p \in P |-> [from |-> p[1], to |-> p[2], category |-> c[p]]]
<1>8. gross = {f[p] : p \in P} /\ \A p \in P : f[p].from = p[1] /\ f[p].to = p[2]
  BY <1>7
<1> HIDE DEF f
<1>9. IsFiniteSet(gross)
  <2>1. IsFiniteSet(P)
    BY <1>6, <1>7, FS_Subset
  <2> QED
    BY <1>8, <2>1, FiniteImage
<1>10. \A g \in gross : /\ g.from \in Nat /\ g.to \in Nat /\ g.from < g.to
                        /\ a <= g.from /\ g.to <= until
  <2>1. \A p \in P : p[1] \in B /\ p[2] \in B /\ p[1] < p[2]
    BY <1>5, <1>7, PiecesAreApart
  <2> QED
    BY <1>5, <1>8, <2>1
<1>11. Disjoint(gross)
  <2> SUFFICES ASSUME NEW p \in P, NEW q \in P, f[p] # f[q] PROVE ~Overlaps(f[p], f[q])
    BY <1>8 DEF Disjoint
  <2>1. p \in PiecesOf(B) /\ q \in PiecesOf(B) /\ p # q
    BY <1>7
  <2>2. /\ p[1] \in B /\ p[2] \in B /\ q[1] \in B /\ q[2] \in B
        /\ p[2] <= q[1] \/ q[2] <= p[1]
    BY <1>5, <2>1, PiecesAreApart
  <2>3. p[1] \in Nat /\ p[2] \in Nat /\ q[1] \in Nat /\ q[2] \in Nat
    BY <1>5, <2>2
  <2> QED
    BY <1>8, <2>2, <2>3 DEF Overlaps
<1>12. Inside(gross, shift) /\ \A g \in gross : g.to <= asOf
  BY <1>1, <1>2, <1>10 DEF Inside
<1> QED
  BY <1>9, <1>10, <1>11, <1>12 DEF GrossOK, gross, until

(* The parts of recorded segments that are work. *)
SegmentsOK(segments, asOf) ==
  \A g \in segments : /\ g.from \in Nat /\ g.to \in Nat /\ g.from < g.to
                      /\ g.from <= shift.to /\ g.to <= shift.to /\ g.to <= asOf

LEMMA SegmentsAtWorkAreRight ==
  ASSUME PlanOK, NEW asOf \in Nat, NEW gross, GrossOK(gross, asOf),
         NEW work \in SUBSET Spans, Disjoint(work), Inside(work, shift)
  PROVE  SegmentsOK(SegmentsAtWork(gross, work), asOf)
<1> SUFFICES ASSUME NEW g \in gross, NEW c \in Intersections(g, work)
             PROVE  LET s == [from |-> c.from, to |-> c.to, category |-> g.category]
                    IN /\ s.from \in Nat /\ s.to \in Nat /\ s.from < s.to
                       /\ s.from <= shift.to /\ s.to <= shift.to /\ s.to <= asOf
  BY DEF SegmentsAtWork, SegmentsOK
<1>1. /\ g.from \in Nat /\ g.to \in Nat /\ g.from < g.to /\ g.to <= asOf
      /\ shift.from <= g.from /\ g.to <= shift.to
  BY DEF GrossOK, Inside
<1>2. g.from \in Int /\ g.to \in Int /\ \A w \in work : w.from < w.to
  BY <1>1 DEF Inside
<1>3. /\ Intersections(g, work) \in SUBSET Spans
      /\ Inside(Intersections(g, work), g)
  BY <1>1, <1>2, IntersectionsAreRight
<1>4. c.from \in Int /\ c.to \in Int /\ g.from <= c.from /\ c.from < c.to /\ c.to <= g.to
  BY <1>3 DEF Inside, Spans
<1>5. shift.to \in Nat
  BY DEF PlanOK
<1>6. /\ c.from \in Nat /\ c.to \in Nat /\ c.from < c.to
      /\ c.from <= shift.to /\ c.to <= shift.to /\ c.to <= asOf
  BY <1>1, <1>4, <1>5
<1> QED
  BY <1>6

LEMMA LeastIs ==
  ASSUME NEW S \in SUBSET (Nat \cup {NoTime})
  PROVE  Least(S) \in S \cup {NoTime}
<1>1. CASE S \ {NoTime} = {}
  BY <1>1 DEF Least
<1>2. CASE S \ {NoTime} # {}
  <2>1. Min(S \ {NoTime}) \in S \ {NoTime}
    BY <1>2, SmallestNumber
  <2> QED
    BY <1>2, <2>1 DEF Least
<1> QED
  BY <1>1, <1>2

LEMMA GreatestIs ==
  ASSUME NEW S \in SUBSET (Nat \cup {NoTime}), NEW b \in Nat, \A x \in S : x <= b
  PROVE  /\ Greatest(S) \in S \cup {NoTime}
         /\ \A x \in S : x # NoTime => Greatest(S) # NoTime /\ x <= Greatest(S)
<1>1. CASE S \ {NoTime} = {}
  BY <1>1 DEF Greatest
<1>2. CASE S \ {NoTime} # {}
  <2> DEFINE T == S \ {NoTime}
  <2>1. T \in SUBSET Int /\ b \in Int /\ \A x \in T : x <= b
    <3>1. T \in SUBSET Nat
      OBVIOUS
    <3> QED
      BY <3>1
  <2>2. Greatest(S) = Max(T)
    BY <1>2 DEF Greatest
  <2>3. T # {}
    BY <1>2
  <2>4. \A x \in S : x # NoTime => x \in T
    OBVIOUS
  <2>5. T \subseteq S /\ NoTime \notin T
    OBVIOUS
  <2> HIDE DEF T
  <2>6. Max(T) \in T /\ \A x \in T : x <= Max(T)
    BY <2>1, <2>3, GreatestNumber
  <2> QED
    BY <2>2, <2>4, <2>5, <2>6
<1> QED
  BY <1>1, <1>2

(* The first login and the last logout that count. *)
RecordOK(record) ==
  /\ record.first \in Nat \cup {NoTime} /\ record.last \in Nat \cup {NoTime}
  /\ record.first # NoTime => record.first <= shift.to

LEMMA RecordIsRight ==
  ASSUME PlanOK
  PROVE  /\ RecordOK(LiloEvidence(shift, lilo))
         /\ lilo = {} => LiloEvidence(shift, lilo) =
                            [present |-> FALSE, first |-> NoTime, last |-> NoTime]
<1> DEFINE near == {r \in lilo : r.date \in RequiredDates(shift)}
           logins == {r.first : r \in {r \in near : r.first # NoTime
                                   /\ r.first >= shift.from - Reach /\ r.first <= shift.to}}
           logouts == {r.last : r \in {r \in near : r.last # NoTime
                                   /\ r.last >= shift.from /\ r.last <= shift.to + Reach}}
           record == LiloEvidence(shift, lilo)
<1>1. record = [present |-> near # {},
                first   |-> IF logins = {} THEN NoTime ELSE Min(logins),
                last    |-> IF logouts = {} THEN NoTime ELSE Max(logouts)]
  BY DEF LiloEvidence
<1>2. \A r \in lilo : r.first \in Nat \cup {NoTime} /\ r.last \in Nat \cup {NoTime}
  BY DEF PlanOK
<1>3. logins \in SUBSET Nat /\ \A x \in logins : x <= shift.to
  BY <1>2
<1>4. logouts \in SUBSET Nat /\ \A x \in logouts : x <= shift.to + Reach
  BY <1>2
<1>5. shift.to + Reach \in Int
  <2>1. shift.to \in Nat
    BY DEF PlanOK
  <2>2. Reach \in Nat
    BY AttendanceAssumption
  <2> QED
    BY <2>1, <2>2
<1>6. lilo = {} => near = {} /\ logins = {} /\ logouts = {}
  OBVIOUS
<1> HIDE DEF near, logins, logouts, record
<1>7. logins # {} => Min(logins) \in Nat /\ Min(logins) <= shift.to
  BY <1>3, SmallestNumber
<1>8. logouts # {} => Max(logouts) \in Nat
  <2>1. logouts \in SUBSET Int
    BY <1>4
  <2> QED
    BY <1>4, <1>5, <2>1, GreatestNumber
<1>9. RecordOK(record)
  BY <1>1, <1>7, <1>8 DEF RecordOK
<1> QED
  BY <1>1, <1>6, <1>9 DEF record

(* The parts of what was seen. *)
Presence(segments) == {g \in segments : g.category # "Logged Off"}
ShownFirst(segments) == Least({g.from : g \in Presence(segments)})
ShownLast(segments) == Greatest({g.to : g \in Presence(segments)})
LoggedIn(record, asOf) ==
  IF record.first # NoTime /\ record.first <= asOf THEN record.first ELSE NoTime
LoggedOut(record, asOf) ==
  IF record.last # NoTime THEN Min({record.last, asOf}) ELSE NoTime
Elapsed(work, asOf) ==
  MapThenSumSet(LAMBDA w : Minutes(Interval(w.from, Min({w.to, asOf}))), work)
Enough(segments, elapsed) ==
  elapsed # 0 /\ TotalMinutes(segments) * CoverageDen >= CoverageNum * elapsed
FirstOf(alone, shown, logged) ==
  IF alone /\ shown # NoTime THEN shown ELSE Least({logged, shown})
LastOf(alone, shown, logged) ==
  IF alone /\ shown # NoTime THEN shown ELSE Greatest({logged, shown})

LEMMA EvaluatedIs ==
  ASSUME NEW work, NEW gross, NEW segments, NEW record, NEW asOf,
         NEW elapsed, elapsed = Elapsed(work, asOf)
  PROVE  Evaluated(work, gross, segments, record, asOf) =
           [gross        |-> gross,
            lilo         |-> record,
            elapsed      |-> elapsed,
            present      |-> Presence(segments) # {},
            primary      |-> gross # {} /\ Enough(segments, elapsed),
            disconnected |-> segments # {} /\ Presence(segments) = {} /\ Enough(segments, elapsed),
            first        |-> FirstOf(gross # {} /\ Enough(segments, elapsed),
                                     ShownFirst(segments), LoggedIn(record, asOf)),
            last         |-> LastOf(gross # {} /\ Enough(segments, elapsed),
                                    ShownLast(segments), LoggedOut(record, asOf))]
BY Zenon DEF Evaluated, Elapsed, Enough, Presence, ShownFirst, ShownLast, LoggedIn, LoggedOut,
             FirstOf, LastOf

(* What was seen is recorded, and not of the future. *)
SeenOK(seen, asOf) ==
  /\ GrossOK(seen.gross, asOf)
  /\ seen.first \in Int /\ seen.last \in Int
  /\ seen.first # NoTime => seen.first <= asOf

LEMMA TimesAreRight ==
  ASSUME PlanOK, NEW asOf \in Nat, NEW segments, SegmentsOK(segments, asOf),
         NEW record, RecordOK(record), NEW alone
  PROVE  /\ FirstOf(alone, ShownFirst(segments), LoggedIn(record, asOf)) \in Nat \cup {NoTime}
         /\ FirstOf(alone, ShownFirst(segments), LoggedIn(record, asOf)) <= asOf
         /\ FirstOf(alone, ShownFirst(segments), LoggedIn(record, asOf)) <= shift.to
         /\ ShownLast(segments) \in Nat \cup {NoTime}
         /\ ShownLast(segments) <= asOf /\ ShownLast(segments) <= shift.to
         /\ LoggedOut(record, asOf) \in Nat \cup {NoTime} /\ LoggedOut(record, asOf) <= asOf
         /\ LastOf(alone, ShownLast(segments), LoggedOut(record, asOf)) \in Nat \cup {NoTime}
<1> DEFINE froms == {g.from : g \in Presence(segments)}
           tos == {g.to : g \in Presence(segments)}
           shown == ShownFirst(segments)
           left == ShownLast(segments)
           in == LoggedIn(record, asOf)
           out == LoggedOut(record, asOf)
           Early == {x \in Nat \cup {NoTime} : x <= asOf /\ x <= shift.to}
<1>1. shift.to \in Nat /\ NoTime = -1
  BY DEF PlanOK, NoTime
<1>2. \A g \in Presence(segments) :
        /\ g.from \in Nat /\ g.to \in Nat /\ g.from < g.to
        /\ g.from <= shift.to /\ g.to <= shift.to /\ g.to <= asOf
  BY DEF SegmentsOK, Presence
<1>3. froms \in SUBSET Early /\ tos \in SUBSET Early /\ NoTime \in Early
  <2>1. \A g \in Presence(segments) : g.from <= asOf
    BY <1>2
  <2> QED
    BY <1>1, <1>2, <2>1
<1>4. shown \in Early
  <2>1. froms \in SUBSET (Nat \cup {NoTime})
    BY <1>3
  <2> HIDE DEF froms, Early
  <2>2. Least(froms) \in Early
    BY <1>3, <2>1, LeastIs
  <2> QED
    BY <2>2 DEF ShownFirst, froms
<1>5. left \in Early
  <2>1. tos \in SUBSET (Nat \cup {NoTime}) /\ \A x \in tos : x <= asOf
    BY <1>3
  <2> HIDE DEF tos, Early
  <2>2. Greatest(tos) \in Early
    BY <1>3, <2>1, GreatestIs
  <2> QED
    BY <2>2 DEF ShownLast, tos
<1>6. in \in Early
  BY <1>1 DEF LoggedIn, RecordOK
<1>7. out \in Nat \cup {NoTime} /\ out <= asOf
  <2>1. CASE record.last = NoTime
    BY <1>1, <2>1 DEF LoggedOut
  <2>2. CASE record.last # NoTime
    <3>1. record.last \in Int /\ asOf \in Int /\ record.last \in Nat
      BY <2>2 DEF RecordOK
    <3>2. Min({record.last, asOf}) = IF record.last <= asOf THEN record.last ELSE asOf
      BY ONLY <3>1, OfTwo
    <3> QED
      BY <2>2, <3>1, <3>2 DEF LoggedOut
  <2> QED
    BY <2>1, <2>2
<1> HIDE DEF shown, left, in, out
<1>8. Least({in, shown}) \in Early
  <2>1. {in, shown} \in SUBSET (Nat \cup {NoTime})
    BY <1>4, <1>6
  <2> HIDE DEF Early
  <2>2. Least({in, shown}) \in {in, shown} \cup {NoTime}
    BY <2>1, LeastIs
  <2> QED
    BY <1>3, <1>4, <1>6, <2>2
<1>9. Greatest({out, left}) \in Nat \cup {NoTime}
  <2>1. {out, left} \in SUBSET (Nat \cup {NoTime}) /\ \A x \in {out, left} : x <= asOf
    BY <1>5, <1>7
  <2>2. Greatest({out, left}) \in {out, left} \cup {NoTime}
    BY <2>1, GreatestIs
  <2> QED
    BY <1>5, <1>7, <2>2
<1>10. FirstOf(alone, shown, in) \in Early
  BY <1>4, <1>8 DEF FirstOf
<1>11. LastOf(alone, left, out) \in Nat \cup {NoTime}
  BY <1>5, <1>9 DEF LastOf
<1> QED
  BY <1>5, <1>7, <1>10, <1>11 DEF shown, left, in, out

LEMMA SeenIsRight ==
  ASSUME PlanOK, shift.from < shift.to, NEW asOf \in Nat,
         NEW work \in SUBSET Spans, Disjoint(work), Inside(work, shift)
  PROVE  SeenOK(Seen(shift, work, status, lilo, asOf), asOf)
<1> DEFINE gross == StatusSegments(shift, EvidenceEnd(shift, asOf), status)
           segments == SegmentsAtWork(gross, work)
           record == LiloEvidence(shift, lilo)
           elapsed == Elapsed(work, asOf)
           alone == gross # {} /\ Enough(segments, elapsed)
           seen == Seen(shift, work, status, lilo, asOf)
<1>1. GrossOK(gross, asOf)
  BY SegmentsAreRight
<1>2. seen = Evaluated(work, gross, segments, record, asOf)
  BY DEF Seen
<1> HIDE DEF gross
<1>3. SegmentsOK(segments, asOf)
  BY <1>1, SegmentsAtWorkAreRight
<1> HIDE DEF segments
<1>4. RecordOK(record)
  BY RecordIsRight
<1> HIDE DEF record, elapsed
<1>5. /\ seen.gross = gross
      /\ seen.first = FirstOf(alone, ShownFirst(segments), LoggedIn(record, asOf))
      /\ seen.last = LastOf(alone, ShownLast(segments), LoggedOut(record, asOf))
  <2>1. elapsed = Elapsed(work, asOf)
    BY DEF elapsed
  <2> QED
    BY <1>2, <2>1, EvaluatedIs
<1> HIDE DEF alone, seen
<1>6. /\ seen.first \in Nat \cup {NoTime} /\ seen.first <= asOf
      /\ seen.last \in Nat \cup {NoTime}
  BY <1>3, <1>4, <1>5, TimesAreRight
<1>7. seen.first \in Int /\ seen.last \in Int
  BY <1>6 DEF NoTime
<1> QED
  BY <1>1, <1>5, <1>6, <1>7 DEF SeenOK, seen

--------------------------------------------------------------------------------
(* The gaps *)

(* Parts of work that has passed. *)
PartsOK(parts, work, asOf) ==
  /\ parts \in SUBSET Spans /\ Disjoint(parts)
  /\ \A o \in parts : /\ o.from < o.to /\ o.to <= asOf
                      /\ \E w \in work : w.from <= o.from /\ o.to <= w.to
WorkOK(work) == work \in SUBSET Spans /\ Disjoint(work) /\ Inside(work, shift)

LEMMA PartsOfInterval ==
  ASSUME NEW asOf \in Nat, NEW a \in Int, NEW b \in Int, a < b, b <= asOf,
         NEW work, WorkOK(work), NEW parts, parts \subseteq Intersections(Interval(a, b), work)
  PROVE  PartsOK(parts, work, asOf) /\ \A o \in parts : a <= o.from /\ o.to <= b
<1> DEFINE i == Interval(a, b)
           all == Intersections(i, work)
<1>1. i.from = a /\ i.to = b
  BY DEF Interval
<1>2. work \in SUBSET Spans /\ Disjoint(work) /\ \A w \in work : w.from < w.to
  BY DEF WorkOK, Inside
<1> HIDE DEF i
<1>3. /\ all \in SUBSET Spans /\ Inside(all, i) /\ Disjoint(all)
      /\ \A o \in all : \E w \in work : w.from <= o.from /\ o.to <= w.to
  BY <1>1, <1>2, IntersectionsAreRight
<1>4. parts \subseteq all
  BY DEF i
<1> HIDE DEF all
<1>5. \A o \in parts : o.from \in Int /\ o.to \in Int /\ a <= o.from /\ o.from < o.to /\ o.to <= b
  BY <1>1, <1>3, <1>4 DEF Inside, Spans
<1>6. \A o \in parts : o.to <= asOf
  BY <1>5
<1>7. Disjoint(parts)
  BY <1>3, <1>4 DEF Disjoint
<1> QED
  BY <1>3, <1>4, <1>5, <1>6, <1>7 DEF PartsOK

(* A usable pair is in order, and late arrival ends where it begins. *)
LEMMA LateIsRight ==
  ASSUME PlanOK, shift.from < shift.to, NEW asOf \in Nat,
         NEW work, WorkOK(work), NEW seen, SeenOK(seen, asOf)
  PROVE  LET late == LateParts(shift, work, seen)
         IN /\ PartsOK(late, work, asOf) /\ \A o \in late : o.to <= seen.first
            /\ late # {} => UsablePair(shift, seen)
<1> DEFINE b == Min({seen.first, shift.to})
           late == LateParts(shift, work, seen)
<1>1. shift.from \in Int /\ shift.to \in Int /\ seen.first \in Int
  <2>1. shift.from \in Nat /\ shift.to \in Nat
    BY DEF PlanOK
  <2> QED
    BY <2>1 DEF SeenOK
<1>2. b = IF seen.first <= shift.to THEN seen.first ELSE shift.to
  BY ONLY <1>1, OfTwo
<1>3. CASE UsablePair(shift, seen) /\ seen.first > shift.from
  <2>1. late \subseteq Intersections(Interval(shift.from, b), work)
    BY <1>3 DEF LateParts, Tolerated
  <2> HIDE DEF b, late
  <2>2. seen.first <= asOf
    BY <1>3 DEF UsablePair, SeenOK
  <2>3. b \in Int /\ shift.from < b /\ b <= asOf /\ b <= seen.first
    BY <1>1, <1>2, <1>3, <2>2
  <2>4. PartsOK(late, work, asOf) /\ \A o \in late : shift.from <= o.from /\ o.to <= b
    BY <1>1, <2>1, <2>3, PartsOfInterval
  <2>5. \A o \in late : o.to <= seen.first
    <3>1. \A o \in late : o.to \in Int
      BY <2>4 DEF PartsOK, Spans
    <3> QED
      BY <1>1, <2>3, <2>4, <3>1
  <2> QED
    BY <1>3, <2>4, <2>5 DEF late
<1>4. CASE ~(UsablePair(shift, seen) /\ seen.first > shift.from)
  <2>1. late = {}
    BY <1>4 DEF LateParts
  <2> HIDE DEF late
  <2> QED
    BY <2>1 DEF PartsOK, Disjoint, late
<1> QED
  BY <1>3, <1>4

LEMMA EarlyIsRight ==
  ASSUME PlanOK, shift.from < shift.to, NEW asOf \in Nat,
         NEW work, WorkOK(work), NEW seen, SeenOK(seen, asOf)
  PROVE  LET early == EarlyParts(shift, work, seen, asOf)
         IN /\ PartsOK(early, work, asOf) /\ \A o \in early : seen.last <= o.from
            /\ early # {} => UsablePair(shift, seen)
<1> DEFINE a == Max({seen.last, shift.from})
           early == EarlyParts(shift, work, seen, asOf)
<1>1. shift.from \in Int /\ shift.to \in Int /\ seen.last \in Int
  <2>1. shift.from \in Nat /\ shift.to \in Nat
    BY DEF PlanOK
  <2> QED
    BY <2>1 DEF SeenOK
<1>2. a = IF seen.last >= shift.from THEN seen.last ELSE shift.from
  BY ONLY <1>1, OfTwo
<1>3. CASE UsablePair(shift, seen) /\ Complete(shift, asOf) /\ shift.to > seen.last
  <2>1. early \subseteq Intersections(Interval(a, shift.to), work)
    BY <1>3 DEF EarlyParts, Tolerated
  <2> HIDE DEF a, early
  <2>2. shift.to <= asOf
    BY <1>1, <1>3 DEF Complete
  <2>3. a \in Int /\ a < shift.to /\ seen.last <= a
    BY <1>1, <1>2, <1>3
  <2>4. PartsOK(early, work, asOf) /\ \A o \in early : a <= o.from /\ o.to <= shift.to
    BY <1>1, <2>1, <2>2, <2>3, PartsOfInterval
  <2>5. \A o \in early : seen.last <= o.from
    <3>1. \A o \in early : o.from \in Int
      BY <2>4 DEF PartsOK, Spans
    <3> QED
      BY <1>1, <2>3, <2>4, <3>1
  <2> QED
    BY <1>3, <2>4, <2>5 DEF early
<1>4. CASE ~(UsablePair(shift, seen) /\ Complete(shift, asOf) /\ shift.to > seen.last)
  <2>1. early = {}
    BY <1>4 DEF EarlyParts
  <2> HIDE DEF early
  <2> QED
    BY <2>1 DEF PartsOK, Disjoint, early
<1> QED
  BY <1>3, <1>4

LEMMA NoShowIsRight ==
  ASSUME PlanOK, NEW asOf \in Nat, NEW work, WorkOK(work), NEW seen, NEW dates
  PROVE  PartsOK(NoShowParts(shift, work, seen, dates, asOf), work, asOf)
<1>1. shift.from \in Nat /\ shift.to \in Nat
  BY DEF PlanOK
<1>2. CASE NoShowParts(shift, work, seen, dates, asOf) = {}
  BY <1>2 DEF PartsOK, Disjoint
<1>3. CASE NoShowParts(shift, work, seen, dates, asOf) = work /\ Complete(shift, asOf)
  <2>1. \A w \in work : w.from \in Int /\ w.to \in Int /\ w.from < w.to /\ w.to <= shift.to
    BY DEF WorkOK, Inside, Spans
  <2>2. shift.to <= asOf
    BY <1>1, <1>3 DEF Complete
  <2>3. \A w \in work : w.from < w.to /\ w.to <= asOf /\ w.from <= w.from /\ w.to <= w.to
    BY <1>1, <2>1, <2>2
  <2> QED
    BY <1>3, <2>3 DEF PartsOK, WorkOK
<1> QED
  BY <1>2, <1>3 DEF NoShowParts

(* Neighbouring segments of one category, as one. *)
Matching(gross, category) ==
  ToSet(Merge({Interval(g.from, g.to) : g \in {g \in gross : g.category = category}}))

LEMMA MatchingIsRight ==
  ASSUME NEW asOf, NEW gross, GrossOK(gross, asOf), NEW category
  PROVE  LET matching == Matching(gross, category)
         IN /\ matching \in SUBSET Spans
            /\ \A m, n \in matching : m = n \/ ~Overlaps(m, n)
            /\ \A m \in matching : m.from < m.to
            /\ \A m \in matching, t \in Int : Within(m, t) =>
                 \E g \in gross : g.category = category /\ Within(g, t)
<1> DEFINE chosen == {g \in gross : g.category = category}
           f == [g \in chosen |-> Interval(g.from, g.to)]
           S == {f[g] : g \in chosen}
           merged == Merge(S)
           matching == ToSet(merged)
<1>1. /\ \A g \in gross : g.from \in Nat /\ g.to \in Nat
      /\ IsFiniteSet(gross)
  BY DEF GrossOK
<1>2. \A g \in chosen : f[g].from = g.from /\ f[g].to = g.to /\ f[g] \in Spans
  BY <1>1 DEF Interval, Spans
<1>3. S \in SUBSET Spans /\ IsFiniteSet(S)
  <2>1. IsFiniteSet(chosen)
    BY <1>1, FS_Subset
  <2> HIDE DEF f, chosen
  <2> QED
    BY <1>2, <2>1, FiniteImage
<1>4. S = {Interval(g.from, g.to) : g \in {g \in gross : g.category = category}}
  OBVIOUS
<1>5. \A t \in Int : (\E i \in S : Within(i, t))
                       => \E g \in gross : g.category = category /\ Within(g, t)
  BY <1>2 DEF Within
<1>6. matching = Matching(gross, category)
  BY <1>4 DEF Matching
<1> HIDE DEF S
<1>7. /\ merged \in Seq(Spans) /\ Apart(merged)
      /\ \A t \in Int : Covers(merged, t) <=> \E i \in S : Within(i, t)
  BY <1>3, MergeIsRight
<1> HIDE DEF merged
<1>8. /\ matching \in SUBSET Spans
      /\ \A m, n \in matching : m = n \/ ~Overlaps(m, n)
      /\ \A m \in matching : \E k \in 1..Len(merged) : m = merged[k]
      /\ \A t : Covers(merged, t) <=> \E m \in matching : Within(m, t)
  BY <1>7, MergedSetIsRight
<1> HIDE DEF matching
<1>9. \A m \in matching : m.from < m.to
  BY <1>7, <1>8 DEF Apart
<1>10. \A m \in matching, t \in Int : Within(m, t) =>
         \E g \in gross : g.category = category /\ Within(g, t)
  BY <1>5, <1>7, <1>8
<1> QED
  BY <1>6, <1>8, <1>9, <1>10

(* Gaps inside presence are parts of recorded segments of their category. *)
LEMMA StatusGapsAreRight ==
  ASSUME NEW asOf \in Nat, NEW work, WorkOK(work), NEW seen, SeenOK(seen, asOf), NEW category
  PROVE  LET parts == StatusGaps(work, seen, category)
         IN /\ PartsOK(parts, work, asOf)
            /\ \A o \in parts :
                 /\ seen.first <= o.from /\ o.to <= seen.last /\ seen.first < seen.last
                 /\ \A t \in Int : Within(o, t) =>
                      \E g \in seen.gross : g.category = category /\ Within(g, t)
<1> DEFINE matching == Matching(seen.gross, category)
           between == Interval(seen.first, seen.last)
           parts == StatusGaps(work, seen, category)
<1>1. /\ \A g \in seen.gross : g.from \in Nat /\ g.to \in Nat /\ g.to <= asOf
      /\ seen.first \in Int /\ seen.last \in Int
  BY DEF SeenOK, GrossOK
<1>2. \/ parts = {}
      \/ /\ seen.first < seen.last
         /\ \A p \in parts : \E m \in matching :
              Overlaps(m, between) /\ p \in Intersections(Clip(m, between), work)
  <2>1. parts = IF seen.first = NoTime \/ seen.last <= seen.first THEN {}
                ELSE {p \in UNION {Intersections(Clip(m, between), work) :
                                     m \in {m \in matching : Overlaps(m, between)}} :
                        Minutes(p) > StatusTolerance}
    BY DEF StatusGaps, Matching
  <2> HIDE DEF parts, between, matching
  <2> QED
    BY <1>1, <2>1
<1>3. /\ matching \in SUBSET Spans
      /\ \A m, n \in matching : m = n \/ ~Overlaps(m, n)
      /\ \A m \in matching : m.from < m.to
      /\ \A m \in matching, t \in Int : Within(m, t) =>
           \E g \in seen.gross : g.category = category /\ Within(g, t)
  BY MatchingIsRight DEF SeenOK
<1> HIDE DEF matching, parts
<1>4. CASE parts = {}
  BY <1>4 DEF PartsOK, Disjoint, parts
<1>5. CASE /\ seen.first < seen.last
            /\ \A p \in parts : \E m \in matching :
                 Overlaps(m, between) /\ p \in Intersections(Clip(m, between), work)
  <2>1. between.from = seen.first /\ between.to = seen.last
    BY DEF Interval
  <2> HIDE DEF between
  <2>2. ASSUME NEW m \in matching, Overlaps(m, between)
        PROVE  LET i == Clip(m, between)
               IN /\ i.from \in Int /\ i.to \in Int /\ i.from < i.to
                  /\ m.from <= i.from /\ i.to <= m.to /\ seen.first <= i.from /\ i.to <= seen.last
    <3>1. m.from \in Int /\ m.to \in Int /\ m.from < m.to
      BY <1>3 DEF Spans
    <3>2. /\ Clip(m, between).from = IF m.from >= between.from THEN m.from ELSE between.from
          /\ Clip(m, between).to = IF m.to <= between.to THEN m.to ELSE between.to
      BY <1>1, <2>1, <3>1, ClipIsRight
    <3> QED
      BY <1>1, <1>5, <2>1, <2>2, <3>1, <3>2 DEF Overlaps
  <2>3. work \in SUBSET Spans /\ Disjoint(work) /\ \A w \in work : w.from < w.to
    BY DEF WorkOK, Inside
  <2>4. ASSUME NEW m \in matching, Overlaps(m, between)
        PROVE  LET i == Clip(m, between)
                   all == Intersections(i, work)
               IN /\ all \in SUBSET Spans /\ Inside(all, i) /\ Disjoint(all)
                  /\ \A o \in all : \E w \in work : w.from <= o.from /\ o.to <= w.to
    BY <2>2, <2>3, <2>4, IntersectionsAreRight
  <2>5. ASSUME NEW o \in parts, NEW m \in matching, Overlaps(m, between),
               o \in Intersections(Clip(m, between), work)
        PROVE  /\ o \in Spans /\ o.from \in Int /\ o.to \in Int /\ o.from < o.to
               /\ m.from <= o.from /\ o.to <= m.to /\ seen.first <= o.from /\ o.to <= seen.last
               /\ \E w \in work : w.from <= o.from /\ o.to <= w.to
    <3> DEFINE i == Clip(m, between)
    <3>1. /\ o \in Spans /\ i.from <= o.from /\ o.from < o.to /\ o.to <= i.to
          /\ \E w \in work : w.from <= o.from /\ o.to <= w.to
      BY <2>4, <2>5 DEF Inside
    <3>2. /\ i.from \in Int /\ i.to \in Int /\ m.from <= i.from /\ i.to <= m.to
          /\ seen.first <= i.from /\ i.to <= seen.last
      BY <2>2, <2>5
    <3>3. o.from \in Int /\ o.to \in Int /\ m.from \in Int /\ m.to \in Int
      BY <1>3, <3>1 DEF Spans
    <3> HIDE DEF i
    <3> QED
      BY <1>1, <3>1, <3>2, <3>3
  <2>6. ASSUME NEW o \in parts, NEW t \in Int, Within(o, t)
        PROVE  \E g \in seen.gross : g.category = category /\ Within(g, t)
    <3>1. PICK m \in matching : /\ Overlaps(m, between)
                                /\ o \in Intersections(Clip(m, between), work)
      BY <1>5
    <3>2. /\ o.from \in Int /\ o.to \in Int /\ m.from <= o.from /\ o.to <= m.to
      BY <2>5, <3>1
    <3>3. m.from \in Int /\ m.to \in Int
      BY <1>3 DEF Spans
    <3>4. Within(m, t)
      BY <2>6, <3>2, <3>3 DEF Within
    <3> QED
      BY <1>3, <3>4
  <2>7. \A o \in parts : /\ o \in Spans /\ o.from \in Int /\ o.to \in Int /\ o.from < o.to
                         /\ seen.first <= o.from /\ o.to <= seen.last
                         /\ \E w \in work : w.from <= o.from /\ o.to <= w.to
    BY <1>5, <2>5
  <2>8. ASSUME NEW o \in parts PROVE o.to <= asOf
    <3>1. o.to - 1 \in Int /\ Within(o, o.to - 1)
      BY <2>7 DEF Within
    <3>2. PICK g \in seen.gross : Within(g, o.to - 1)
      BY <2>6, <3>1
    <3> QED
      BY <1>1, <2>7, <3>2 DEF Within
  <2>9. Disjoint(parts)
    <3> SUFFICES ASSUME NEW o \in parts, NEW p \in parts, o # p PROVE ~Overlaps(o, p)
      BY DEF Disjoint
    <3>1. PICK m \in matching : /\ Overlaps(m, between)
                                /\ o \in Intersections(Clip(m, between), work)
      BY <1>5
    <3>2. PICK n \in matching : /\ Overlaps(n, between)
                                /\ p \in Intersections(Clip(n, between), work)
      BY <1>5
    <3>3. CASE m = n
      BY <2>4, <3>1, <3>2, <3>3 DEF Disjoint
    <3>4. CASE m # n
      <4>1. ~Overlaps(m, n)
        BY <1>3, <3>4
      <4>2. /\ o.from \in Int /\ o.to \in Int /\ m.from <= o.from /\ o.to <= m.to
            /\ p.from \in Int /\ p.to \in Int /\ n.from <= p.from /\ p.to <= n.to
        BY <2>5, <3>1, <3>2
      <4>3. m.from \in Int /\ m.to \in Int /\ n.from \in Int /\ n.to \in Int
        BY <1>3 DEF Spans
      <4> QED
        BY <4>1, <4>2, <4>3 DEF Overlaps
    <3> QED
      BY <3>3, <3>4
  <2>10. PartsOK(parts, work, asOf)
    BY <2>7, <2>8, <2>9 DEF PartsOK
  <2> QED
    BY <1>5, <2>6, <2>7, <2>10 DEF parts
<1> QED
  BY <1>2, <1>4, <1>5

(* Every gap is a part of work that has passed; those inside the shift are apart. *)
LEMMA GapsAreRight ==
  ASSUME PlanOK, shift.from < shift.to, NEW asOf \in Nat,
         NEW work, WorkOK(work), NEW seen, SeenOK(seen, asOf)
  PROVE  LET gaps == Gaps(work, seen, asOf)
         IN /\ \A g \in gaps : /\ g.from \in Int /\ g.to \in Int /\ g.to <= asOf
                               /\ \E w \in work : w.from <= g.from /\ g.to <= w.to
            /\ \A g, h \in {g \in gaps : g.type # "NO_SHOW"} : g = h \/ ~Overlaps(g, h)
<1> DEFINE noShow == NoShowParts(shift, work, seen, loaded.lilo, asOf)
           late == LateParts(shift, work, seen)
           early == EarlyParts(shift, work, seen, asOf)
           off == StatusGaps(work, seen, "Logged Off")
           away == StatusGaps(work, seen, "Unavailable")
           gaps == Gaps(work, seen, asOf)
<1>1. PartsOK(noShow, work, asOf)
  BY NoShowIsRight
<1>2. /\ PartsOK(late, work, asOf) /\ \A o \in late : o.to <= seen.first
      /\ late # {} => UsablePair(shift, seen)
  BY LateIsRight
<1>3. /\ PartsOK(early, work, asOf) /\ \A o \in early : seen.last <= o.from
      /\ early # {} => UsablePair(shift, seen)
  BY EarlyIsRight
<1>4. /\ PartsOK(off, work, asOf)
      /\ \A o \in off : /\ seen.first <= o.from /\ o.to <= seen.last
                        /\ \A t \in Int : Within(o, t) =>
                             \E g \in seen.gross : g.category = "Logged Off" /\ Within(g, t)
  <2> DEFINE category == "Logged Off"
             parts == StatusGaps(work, seen, category)
  <2> HIDE DEF category
  <2>1. /\ PartsOK(parts, work, asOf)
        /\ \A o \in parts : /\ seen.first <= o.from /\ o.to <= seen.last
                            /\ \A t \in Int : Within(o, t) =>
                                 \E g \in seen.gross : g.category = category /\ Within(g, t)
    BY StatusGapsAreRight
  <2>2. parts = off /\ category = "Logged Off"
    BY DEF category
  <2> HIDE DEF parts
  <2> QED
    BY <2>1, <2>2 DEF category
<1>5. /\ PartsOK(away, work, asOf)
      /\ \A o \in away : /\ seen.first <= o.from /\ o.to <= seen.last
                         /\ \A t \in Int : Within(o, t) =>
                              \E g \in seen.gross : g.category = "Unavailable" /\ Within(g, t)
  BY StatusGapsAreRight
<1>6. gaps = GapsOf("NO_SHOW", noShow) \cup GapsOf("LATE", late) \cup GapsOf("EARLY_LEAVE", early)
              \cup GapsOf("LOGGED_OFF", off) \cup GapsOf("UNAVAILABLE", away)
  BY DEF Gaps
<1> HIDE DEF noShow, late, early, off, away, gaps
<1>7. \A parts : PartsOK(parts, work, asOf) =>
        \A o \in parts : /\ o \in Spans /\ o.from \in Int /\ o.to \in Int
                         /\ o.from < o.to /\ o.to <= asOf
                         /\ \E w \in work : w.from <= o.from /\ o.to <= w.to
  BY DEF PartsOK, Spans
<1>8. \A type, parts : \A g \in GapsOf(type, parts) :
        /\ g.type = type
        /\ \E o \in parts : g.from = o.from /\ g.to = o.to
                            /\ g = [type |-> type, from |-> o.from, to |-> o.to]
  BY DEF GapsOf
<1>9. ASSUME NEW g \in gaps
      PROVE  /\ g.from \in Int /\ g.to \in Int /\ g.to <= asOf
             /\ \E w \in work : w.from <= g.from /\ g.to <= w.to
  <2>1. PICK type, parts : g \in GapsOf(type, parts) /\ PartsOK(parts, work, asOf)
    BY <1>1, <1>2, <1>3, <1>4, <1>5, <1>6
  <2>2. PICK o \in parts : g.from = o.from /\ g.to = o.to
    BY <1>8, <2>1
  <2> QED
    BY <1>7, <2>1, <2>2
<1>10. seen.first \in Int /\ seen.last \in Int /\ Disjoint(seen.gross)
       /\ (UsablePair(shift, seen) => seen.first <= seen.last)
  BY DEF SeenOK, GrossOK, UsablePair
<1> DEFINE Never(A, B) == \A a \in A, b \in B : ~Overlaps(a, b) /\ ~Overlaps(b, a)
<1>11. Never(late, early)
  <2> SUFFICES ASSUME NEW a \in late, NEW b \in early PROVE ~Overlaps(a, b) /\ ~Overlaps(b, a)
    OBVIOUS
  <2>1. a.to <= seen.first /\ seen.first <= seen.last /\ seen.last <= b.from
    BY <1>2, <1>3, <1>10
  <2>2. a.from \in Int /\ a.to \in Int /\ a.from < a.to /\ b.from \in Int /\ b.to \in Int /\ b.from < b.to
    BY <1>2, <1>3, <1>7
  <2> QED
    BY <1>10, <2>1, <2>2 DEF Overlaps
<1>12. Never(late, off \cup away)
  <2> SUFFICES ASSUME NEW a \in late, NEW b \in off \cup away
               PROVE  ~Overlaps(a, b) /\ ~Overlaps(b, a)
    OBVIOUS
  <2>1. a.to <= seen.first /\ seen.first <= b.from
    BY <1>2, <1>4, <1>5
  <2>2. a.from \in Int /\ a.to \in Int /\ a.from < a.to /\ b.from \in Int /\ b.to \in Int /\ b.from < b.to
    BY <1>2, <1>4, <1>5, <1>7
  <2> QED
    BY <1>10, <2>1, <2>2 DEF Overlaps
<1>13. Never(early, off \cup away)
  <2> SUFFICES ASSUME NEW a \in early, NEW b \in off \cup away
               PROVE  ~Overlaps(a, b) /\ ~Overlaps(b, a)
    OBVIOUS
  <2>1. seen.last <= a.from /\ b.to <= seen.last
    BY <1>3, <1>4, <1>5
  <2>2. a.from \in Int /\ a.to \in Int /\ a.from < a.to /\ b.from \in Int /\ b.to \in Int /\ b.from < b.to
    BY <1>3, <1>4, <1>5, <1>7
  <2> QED
    BY <1>10, <2>1, <2>2 DEF Overlaps
<1>14. Never(off, away)
  <2> SUFFICES ASSUME NEW a \in off, NEW b \in away, Overlaps(a, b) \/ Overlaps(b, a) PROVE FALSE
    OBVIOUS
  <2>1. a.from \in Int /\ a.to \in Int /\ a.from < a.to /\ b.from \in Int /\ b.to \in Int /\ b.from < b.to
    BY <1>4, <1>5, <1>7
  <2> DEFINE t == IF a.from >= b.from THEN a.from ELSE b.from
  <2>2. t \in Int /\ Within(a, t) /\ Within(b, t)
    BY <2>1 DEF Overlaps, Within
  <2> HIDE DEF t
  <2>3. PICK g \in seen.gross : g.category = "Logged Off" /\ Within(g, t)
    BY <1>4, <2>2
  <2>4. PICK h \in seen.gross : h.category = "Unavailable" /\ Within(h, t)
    BY <1>5, <2>2
  <2>5. g # h
    BY <2>3, <2>4
  <2>6. g.from \in Int /\ g.to \in Int /\ h.from \in Int /\ h.to \in Int
    BY DEF SeenOK, GrossOK
  <2>7. Overlaps(g, h)
    <3>1. t \in Int /\ g.from <= t /\ t < g.to /\ h.from <= t /\ t < h.to
      BY <2>2, <2>3, <2>4 DEF Within
    <3> QED
      BY <2>6, <3>1 DEF Overlaps
  <2> QED
    BY <1>10, <2>5, <2>7 DEF Disjoint
<1>15. Disjoint(late) /\ Disjoint(early) /\ Disjoint(off) /\ Disjoint(away)
  BY <1>2, <1>3, <1>4, <1>5 DEF PartsOK
<1> DEFINE Kinds == {<<"LATE", late>>, <<"EARLY_LEAVE", early>>,
                     <<"LOGGED_OFF", off>>, <<"UNAVAILABLE", away>>}
<1>16. \A j, k \in Kinds : j = k \/ Never(j[2], k[2])
  BY <1>11, <1>12, <1>13, <1>14
<1>17. \A k \in Kinds : Disjoint(k[2])
  BY <1>15
<1>18. \A g \in gaps : g.type # "NO_SHOW" => \E k \in Kinds : g \in GapsOf(k[1], k[2])
  <2>1. \A g \in GapsOf("NO_SHOW", noShow) : g.type = "NO_SHOW"
    BY <1>8
  <2> QED
    BY <1>6, <2>1
<1> HIDE DEF Kinds
<1>19. ASSUME NEW g \in gaps, NEW h \in gaps, g.type # "NO_SHOW", h.type # "NO_SHOW", g # h
       PROVE  ~Overlaps(g, h)
  <2>1. PICK j \in Kinds : g \in GapsOf(j[1], j[2])
    BY <1>18, <1>19
  <2>2. PICK k \in Kinds : h \in GapsOf(k[1], k[2])
    BY <1>18, <1>19
  <2>3. PICK a \in j[2] : /\ g.from = a.from /\ g.to = a.to
                          /\ g = [type |-> j[1], from |-> a.from, to |-> a.to]
    BY <1>8, <2>1
  <2>4. PICK b \in k[2] : /\ h.from = b.from /\ h.to = b.to
                          /\ h = [type |-> k[1], from |-> b.from, to |-> b.to]
    BY <1>8, <2>2
  <2>5. ~Overlaps(a, b)
    <3>1. CASE j = k
      <4>1. a # b
        BY <1>19, <2>3, <2>4, <3>1
      <4> QED
        BY <1>17, <3>1, <4>1 DEF Disjoint
    <3>2. CASE j # k
      BY <1>16, <3>2
    <3> QED
      BY <3>1, <3>2
  <2> QED
    BY <2>3, <2>4, <2>5 DEF Overlaps
<1> QED
  BY <1>9, <1>19 DEF gaps

(* The gaps of a day. *)
LEMMA DayIsRight ==
  ASSUME PlanOK, NEW asOf \in Nat
  PROVE  /\ \A g \in Day(asOf).gaps :
              g.to <= asOf /\ \A t \in Ticks(g) : t \in Ticks(shift) /\ ~Approved(t)
         /\ \A g, h \in {g \in Day(asOf).gaps : g.type # "NO_SHOW"} : g = h \/ ~Overlaps(g, h)
<1> DEFINE work == Working(shift, timeOff)
           seen == Seen(shift, work, status, lilo, asOf)
<1>1. CASE Day(asOf).gaps = {}
  BY <1>1
<1>2. CASE /\ shift.kind # "Off" /\ ToBeWorked
           /\ Day(asOf).gaps = Gaps(work, seen, asOf)
  <2>1. shift.from \in Nat /\ shift.to \in Nat /\ shift.from < shift.to
    BY <1>2 DEF PlanOK
  <2>2. /\ WorkOK(work)
        /\ \A t \in Int : Within(shift, t) => ((\E w \in work : Within(w, t)) <=> ~Approved(t))
    BY <1>2, WorkingIsRight DEF WorkOK
  <2> HIDE DEF work
  <2>3. SeenOK(seen, asOf)
    BY <2>1, <2>2, SeenIsRight DEF WorkOK
  <2> HIDE DEF seen
  <2>4. LET gaps == Gaps(work, seen, asOf)
        IN /\ \A g \in gaps : /\ g.from \in Int /\ g.to \in Int /\ g.to <= asOf
                              /\ \E w \in work : w.from <= g.from /\ g.to <= w.to
           /\ \A g, h \in {g \in gaps : g.type # "NO_SHOW"} : g = h \/ ~Overlaps(g, h)
    BY <2>1, <2>2, <2>3, GapsAreRight
  <2>5. ASSUME NEW g \in Gaps(work, seen, asOf), NEW t \in Ticks(g)
        PROVE  t \in Ticks(shift) /\ ~Approved(t)
    <3>1. g.from \in Int /\ g.to \in Int
      BY <2>4
    <3>2. PICK w \in work : w.from <= g.from /\ g.to <= w.to
      BY <2>4
    <3>3. /\ w.from \in Int /\ w.to \in Int /\ shift.from <= w.from /\ w.to <= shift.to
      BY <2>2 DEF WorkOK, Inside, Spans
    <3>4. t \in Int /\ g.from <= t /\ t < g.to
      BY <3>1 DEF Ticks
    <3>5. w.from <= t /\ t < w.to /\ shift.from <= t /\ t < shift.to
      BY <2>1, <3>1, <3>2, <3>3, <3>4
    <3>6. Within(w, t) /\ Within(shift, t)
      BY <3>5 DEF Within
    <3>7. ~Approved(t)
      BY <2>2, <3>4, <3>6
    <3>8. t \in Ticks(shift)
      BY <2>1, <3>4, <3>5 DEF Ticks
    <3> QED
      BY <3>7, <3>8
  <2> QED
    BY <1>2, <2>4, <2>5
<1>3. \/ Day(asOf).gaps = {}
      \/ /\ shift.kind # "Off" /\ ToBeWorked
         /\ Day(asOf).gaps = Gaps(work, seen, asOf)
  <2> HIDE DEF work, seen
  <2> QED
    BY DEF Day, WorkedDay, Classified, ToBeWorked, work, seen
<1> QED
  BY <1>1, <1>2, <1>3

--------------------------------------------------------------------------------
(* A day of which no export has a row *)

LEMMA NoMinutes == TotalMinutes({}) = 0
<1> DEFINE Solves(it) ==
             it = [s \in SUBSET {} |-> IF s = {} THEN 0
                                       ELSE Minutes(First(s)) + it[s \ {First(s)}]]
           it == CHOOSE it : Solves(it)
           jt == [s \in SUBSET {} |-> 0]
<1>1. TotalMinutes({}) = it[{}]
  BY DEF TotalMinutes, MapThenSumSet, MapThenFoldSet, First
<1>2. Solves(jt)
  <2>1. \A s \in SUBSET {} : s = {}
    OBVIOUS
  <2> QED
    BY <2>1
<1> HIDE DEF Solves, jt
<1>3. Solves(it)
  BY <1>2
<1> HIDE DEF it
<1>4. it[{}] = 0
  BY <1>3 DEF Solves
<1> QED
  BY <1>1, <1>4

LEMMA UnknownDay ==
  ASSUME PlanOK, status = {}, lilo = {}, NEW asOf \in Nat
  PROVE  /\ Day(asOf).gaps = {}
         /\ Day(asOf).result \in {"Off", "Planned absence", "Not started", "Shift in progress",
                                  "Data not loaded", "Missing actual evidence"}
<1> DEFINE planned == TotalMinutes(TimeOff(shift, timeOff))
           work == Working(shift, timeOff)
           seen == Seen(shift, work, status, lilo, asOf)
           gross == StatusSegments(shift, EvidenceEnd(shift, asOf), status)
           segments == SegmentsAtWork(gross, work)
           record == LiloEvidence(shift, lilo)
           elapsed == Elapsed(work, asOf)
           alone == gross # {} /\ Enough(segments, elapsed)
<1>1. gross = {}
  <2> DEFINE until == EvidenceEnd(shift, asOf)
  <2> HIDE DEF until
  <2>1. StatusSegments(shift, until, {}) = {}
    BY NoSegments
  <2> QED
    BY <2>1 DEF until
<1>2. segments = {}
  <2> HIDE DEF gross, work
  <2> QED
    BY <1>1 DEF SegmentsAtWork
<1>3. record = [present |-> FALSE, first |-> NoTime, last |-> NoTime]
  BY RecordIsRight
<1>4. seen = Evaluated(work, gross, segments, record, asOf)
  BY DEF Seen
<1>5. /\ seen.lilo = record
      /\ seen.disconnected = (segments # {} /\ Presence(segments) = {} /\ Enough(segments, elapsed))
      /\ seen.first = FirstOf(alone, ShownFirst(segments), LoggedIn(record, asOf))
      /\ seen.last = LastOf(alone, ShownLast(segments), LoggedOut(record, asOf))
  <2>1. elapsed = Elapsed(work, asOf)
    OBVIOUS
  <2> HIDE DEF elapsed, seen, work, gross, segments, record
  <2> QED
    BY <1>4, <2>1, EvaluatedIs
<1>6. ~alone
  BY <1>1
<1> HIDE DEF seen, work, gross, segments, record, elapsed, planned, alone
<1>7. Least({}) = NoTime /\ Greatest({}) = NoTime
      /\ Least({NoTime, NoTime}) = NoTime /\ Greatest({NoTime, NoTime}) = NoTime
  BY DEF Least, Greatest
<1>8. ShownFirst(segments) = NoTime /\ ShownLast(segments) = NoTime
  <2>1. Presence(segments) = {}
    BY <1>2 DEF Presence
  <2>2. {g.from : g \in Presence(segments)} = {} /\ {g.to : g \in Presence(segments)} = {}
    BY <2>1
  <2> QED
    BY <1>7, <2>2 DEF ShownFirst, ShownLast
<1>9. LoggedIn(record, asOf) = NoTime /\ LoggedOut(record, asOf) = NoTime
  BY <1>3 DEF LoggedIn, LoggedOut
<1>10. /\ seen.first = NoTime /\ seen.last = NoTime /\ ~seen.disconnected
       /\ ~seen.lilo.present
  <2>1. seen.first = NoTime
    BY <1>5, <1>6, <1>7, <1>8, <1>9 DEF FirstOf
  <2>2. seen.last = NoTime
    BY <1>5, <1>6, <1>7, <1>8, <1>9 DEF LastOf
  <2>3. ~seen.disconnected
    BY Zenon, <1>2, <1>5
  <2>4. seen.lilo.present = FALSE
    <3>1. record.present = FALSE
      BY <1>3
    <3> QED
      BY <1>5, <3>1
  <2> QED
    BY <2>1, <2>2, <2>3, <2>4
<1>11. Gaps(work, seen, asOf) = {}
  <2>1. LateParts(shift, work, seen) = {} /\ EarlyParts(shift, work, seen, asOf) = {}
    BY <1>10 DEF LateParts, EarlyParts, UsablePair
  <2>2. NoShowParts(shift, work, seen, loaded.lilo, asOf) = {}
    BY <1>10 DEF NoShowParts, BlankLilo
  <2>3. \A category : StatusGaps(work, seen, category) = {}
    BY <1>10 DEF StatusGaps
  <2>4. \A type : GapsOf(type, {}) = {}
    BY DEF GapsOf
  <2> QED
    BY <2>1, <2>2, <2>3, <2>4 DEF Gaps
<1>12. Result(shift, planned, seen, {}, BlankLilo(shift, seen, loaded.lilo), Unloaded, asOf)
         \in {"Not started", "Shift in progress", "Data not loaded", "Missing actual evidence"}
  <2>1. ~BlankLilo(shift, seen, loaded.lilo)
    BY <1>10 DEF BlankLilo
  <2>2. \A type : ~(TotalMinutes({g \in {} : g.type = type}) > 0)
    <3>1. \A type : {g \in {} : g.type = type} = {}
      OBVIOUS
    <3> QED
      BY <3>1, NoMinutes
  <2> QED
    BY <1>10, <2>1, <2>2 DEF Result
<1>13. \/ Day(asOf) = [result |-> "Off", gaps |-> {}]
       \/ Day(asOf) = [result |-> "Planned absence", gaps |-> {}]
       \/ Day(asOf) = [result |-> Result(shift, planned, seen, Gaps(work, seen, asOf),
                                         BlankLilo(shift, seen, loaded.lilo), Unloaded, asOf),
                       gaps |-> Gaps(work, seen, asOf)]
  BY DEF Day, WorkedDay, Classified, planned, work, seen
<1> DEFINE result == Result(shift, planned, seen, {}, BlankLilo(shift, seen, loaded.lilo), Unloaded, asOf)
<1>14. Day(asOf).gaps = {} /\ Day(asOf).result \in {"Off", "Planned absence", result}
  <2>1. Result(shift, planned, seen, Gaps(work, seen, asOf),
               BlankLilo(shift, seen, loaded.lilo), Unloaded, asOf) = result
    BY <1>11
  <2> HIDE DEF result
  <2>2. \/ Day(asOf) = [result |-> "Off", gaps |-> {}]
        \/ Day(asOf) = [result |-> "Planned absence", gaps |-> {}]
        \/ Day(asOf) = [result |-> result, gaps |-> {}]
    BY ONLY <1>11, <1>13, <2>1
  <2>3. \E r \in {"Off", "Planned absence", result} : Day(asOf) = [result |-> r, gaps |-> {}]
    BY <2>2
  <2>4. \A r : [result |-> r, gaps |-> {}].result = r /\ [result |-> r, gaps |-> {}].gaps = {}
    OBVIOUS
  <2> QED
    BY ONLY <2>3, <2>4
<1> HIDE DEF result
<1> QED
  BY <1>12, <1>14 DEF result

--------------------------------------------------------------------------------
(* A day that is over *)

(* Intervals of work are finitely many. *)
LEMMA WorkIsFinite ==
  ASSUME PlanOK, NEW work, WorkOK(work)
  PROVE  IsFiniteSet(work)
<1> DEFINE T == shift.from..shift.to
           Box == T \X T
           f == [p \in Box |-> Interval(p[1], p[2])]
           All == {f[p] : p \in Box}
<1>1. shift.from \in Int /\ shift.to \in Int
  BY DEF PlanOK
<1>2. IsFiniteSet(T)
  BY ONLY <1>1, FS_Interval
<1>3. IsFiniteSet(Box)
  <2> HIDE DEF T
  <2> QED
    BY <1>2, FS_Product
<1>4. IsFiniteSet(All)
  <2> HIDE DEF Box, f
  <2> QED
    BY <1>3, FiniteImage
<1>5. ASSUME NEW w \in work PROVE w \in All
  <2>1. /\ w \in Spans /\ w.from \in Int /\ w.to \in Int
        /\ shift.from <= w.from /\ w.from < w.to /\ w.to <= shift.to
    BY DEF WorkOK, Inside, Spans
  <2>2. w = Interval(w.from, w.to)
    BY <2>1 DEF Spans, Interval
  <2>3. w.from \in T /\ w.to \in T
    BY <1>1, <2>1
  <2>4. <<w.from, w.to>> \in Box /\ f[<<w.from, w.to>>] = Interval(w.from, w.to)
    BY <2>3
  <2> HIDE DEF Box, f
  <2> QED
    BY <2>2, <2>4
<1> HIDE DEF All
<1>6. work \in SUBSET All
  BY <1>5
<1> QED
  BY <1>4, <1>6, FS_Subset

(* Elapsed work is a sum over the intervals of work. *)
LEMMA ElapsedIsSum ==
  ASSUME NEW work, IsFiniteSet(work), NEW asOf, NEW g,
         \A w \in work : g[w] = Minutes(Interval(w.from, Min({w.to, asOf}))) /\ g[w] \in Int
  PROVE  Elapsed(work, asOf) = SumOf(g, work)
<1> DEFINE Solves(it) ==
             it = [s \in SUBSET work |->
                     IF s = {} THEN 0
                     ELSE Minutes(Interval(First(s).from, Min({First(s).to, asOf})))
                            + it[s \ {First(s)}]]
           it == CHOOSE it : Solves(it)
<1>1. Elapsed(work, asOf) = it[work]
  BY DEF Elapsed, MapThenSumSet, MapThenFoldSet, First
<1>2. \A s \in SUBSET work : s # {} =>
        g[First(s)] = Minutes(Interval(First(s).from, Min({First(s).to, asOf})))
  BY DEF First
<1>3. \A jt : Solves(jt) <=> Sums(jt, g, work)
  BY <1>2 DEF Sums
<1>4. \E jt : Solves(jt)
  BY <1>3, SumExists
<1> HIDE DEF Solves
<1>5. Sums(it, g, work)
  BY <1>3, <1>4
<1> QED
  BY <1>1, <1>5, SumOfSolves

LEMMA MinutesType ==
  ASSUME NEW i, i.from \in Int, i.to \in Int
  PROVE  Minutes(i) \in Int
<1>1. Minute \in Nat \ {0}
  BY AttendanceAssumption
<1>2. (i.to - i.from) \div Minute \in Int
  BY <1>1
<1>3. Max({0, (i.to - i.from) \div Minute}) \in Int
  BY <1>2, OfTwo
<1> QED
  BY <1>3 DEF Minutes

(* All work has elapsed once the shift is over. *)
LEMMA AllElapsed ==
  ASSUME PlanOK, NEW a \in Nat, NEW b \in Nat, shift.to <= a, shift.to <= b,
         NEW work, WorkOK(work)
  PROVE  Elapsed(work, a) = Elapsed(work, b)
<1> DEFINE g == [w \in work |-> Minutes(Interval(w.from, w.to))]
<1>1. IsFiniteSet(work)
  BY WorkIsFinite
<1>2. shift.to \in Nat
  BY DEF PlanOK
<1>3. ASSUME NEW w \in work
      PROVE  /\ Min({w.to, a}) = w.to /\ Min({w.to, b}) = w.to
             /\ Minutes(Interval(w.from, w.to)) \in Int
  <2>1. w.from \in Int /\ w.to \in Int /\ w.to <= shift.to
    BY DEF WorkOK, Inside, Spans
  <2>2. a \in Int /\ b \in Int /\ w.to <= a /\ w.to <= b
    BY <1>2, <2>1
  <2>3. Min({w.to, a}) = w.to /\ Min({w.to, b}) = w.to
    BY ONLY <2>1, <2>2, OfTwo
  <2>4. Interval(w.from, w.to).from = w.from /\ Interval(w.from, w.to).to = w.to
    BY DEF Interval
  <2>5. Minutes(Interval(w.from, w.to)) \in Int
    BY <2>1, <2>4, MinutesType
  <2> QED
    BY <2>3, <2>5
<1>4. \A w \in work : /\ g[w] = Minutes(Interval(w.from, Min({w.to, a})))
                      /\ g[w] = Minutes(Interval(w.from, Min({w.to, b})))
                      /\ g[w] \in Int
  BY <1>3
<1> HIDE DEF g
<1>5. Elapsed(work, a) = SumOf(g, work)
  BY <1>1, <1>4, ElapsedIsSum
<1>6. Elapsed(work, b) = SumOf(g, work)
  BY <1>1, <1>4, ElapsedIsSum
<1> QED
  BY <1>5, <1>6

(* What is seen of a day that is over differs at most in a logout after it. *)
LateLogout(x, y) == x = y \/ (x \in Nat /\ y \in Nat /\ shift.to <= x /\ shift.to <= y)

LEMMA LogoutSettles ==
  ASSUME PlanOK, NEW a \in Nat, NEW b \in Nat, shift.to <= a, shift.to <= b,
         NEW record, RecordOK(record), NEW segments, SegmentsOK(segments, a), NEW alone
  PROVE  LateLogout(LastOf(alone, ShownLast(segments), LoggedOut(record, a)),
                    LastOf(alone, ShownLast(segments), LoggedOut(record, b)))
<1> DEFINE left == ShownLast(segments)
           x == LoggedOut(record, a)
           y == LoggedOut(record, b)
<1>1. shift.to \in Nat /\ NoTime = -1
  BY DEF PlanOK, NoTime
<1>2. left \in Nat \cup {NoTime} /\ left <= shift.to /\ left <= a
  BY TimesAreRight
<1> HIDE DEF left
<1>3. CASE x = y
  BY <1>3 DEF LateLogout, left
<1>4. CASE x # y
  <2>1. record.last # NoTime
    BY <1>4 DEF LoggedOut
  <2>2. record.last \in Int /\ a \in Int /\ b \in Int /\ record.last \in Nat
    BY <2>1 DEF RecordOK
  <2>3. /\ Min({record.last, a}) = IF record.last <= a THEN record.last ELSE a
        /\ Min({record.last, b}) = IF record.last <= b THEN record.last ELSE b
    BY ONLY <2>2, OfTwo
  <2>4. /\ x = IF record.last <= a THEN record.last ELSE a
        /\ y = IF record.last <= b THEN record.last ELSE b
    BY <2>1, <2>3 DEF LoggedOut
  <2> HIDE DEF x, y
  <2>5. x \in Nat /\ y \in Nat /\ shift.to <= x /\ shift.to <= y
    BY <1>1, <1>4, <2>2, <2>4
  <2>6. ASSUME NEW z \in Nat, shift.to <= z
        PROVE  Greatest({z, left}) \in Nat /\ shift.to <= Greatest({z, left})
    <3>1. {z, left} \in SUBSET (Nat \cup {NoTime}) /\ \A u \in {z, left} : u <= z
      BY <1>1, <1>2, <2>6
    <3>2. /\ Greatest({z, left}) \in {z, left} \cup {NoTime}
          /\ \A u \in {z, left} : u # NoTime => Greatest({z, left}) # NoTime /\ u <= Greatest({z, left})
      BY <3>1, GreatestIs
    <3>3. z # NoTime
      BY <1>1
    <3>4. Greatest({z, left}) # NoTime /\ z <= Greatest({z, left})
      BY <3>2, <3>3
    <3>5. Greatest({z, left}) \in Nat
      BY <1>2, <3>2, <3>4
    <3> QED
      BY <1>1, <2>6, <3>4, <3>5
  <2>7. CASE alone /\ left # NoTime
    BY <2>7 DEF LastOf, LateLogout, left
  <2>8. CASE ~(alone /\ left # NoTime)
    <3>1. /\ LastOf(alone, left, x) = Greatest({x, left})
          /\ LastOf(alone, left, y) = Greatest({y, left})
      BY <2>8 DEF LastOf
    <3>2. LateLogout(LastOf(alone, left, x), LastOf(alone, left, y))
      BY <2>5, <2>6, <3>1 DEF LateLogout
    <3> QED
      BY <3>2 DEF left, x, y
  <2> QED
    BY <2>7, <2>8
<1> QED
  BY <1>3, <1>4

(* Two views of the agent that differ at most in that. *)
SameView(x, y) ==
  /\ x.gross = y.gross /\ x.lilo = y.lilo /\ x.disconnected = y.disconnected
  /\ x.first = y.first /\ LateLogout(x.last, y.last)
  /\ x.first \in Int /\ x.first <= shift.to /\ x.last \in Int /\ y.last \in Int

LEMMA SeenSettles ==
  ASSUME PlanOK, shift.from < shift.to,
         NEW a \in Nat, NEW b \in Nat, shift.to <= a, shift.to <= b,
         NEW work, WorkOK(work)
  PROVE  LET x == Seen(shift, work, status, lilo, a)
             y == Seen(shift, work, status, lilo, b)
         IN SameView(x, y) /\ GrossOK(x.gross, a)
<1> DEFINE x == Seen(shift, work, status, lilo, a)
           y == Seen(shift, work, status, lilo, b)
           gross == StatusSegments(shift, EvidenceEnd(shift, a), status)
           segments == SegmentsAtWork(gross, work)
           record == LiloEvidence(shift, lilo)
           elapsed == Elapsed(work, a)
           alone == gross # {} /\ Enough(segments, elapsed)
<1>1. shift.to \in Nat /\ shift.from \in Nat /\ NoTime = -1
  BY DEF PlanOK, NoTime
<1>2. EvidenceEnd(shift, a) = shift.to /\ EvidenceEnd(shift, b) = shift.to
  <2>1. shift.to \in Int /\ a \in Int /\ b \in Int
    BY <1>1
  <2>2. Min({shift.to, a}) = shift.to /\ Min({shift.to, b}) = shift.to
    BY ONLY <2>1, OfTwo, shift.to <= a, shift.to <= b
  <2>3. a > shift.from /\ b > shift.from
    BY <1>1
  <2> QED
    BY <2>2, <2>3 DEF EvidenceEnd
<1>3. /\ x = Evaluated(work, gross, segments, record, a)
      /\ y = Evaluated(work, gross, segments, record, b)
  BY <1>2 DEF Seen
<1>4. GrossOK(gross, a)
  BY SegmentsAreRight
<1>5. SegmentsOK(segments, a)
  <2> HIDE DEF gross
  <2> QED
    BY <1>4, SegmentsAtWorkAreRight DEF WorkOK
<1>6. RecordOK(record)
  BY RecordIsRight
<1>7. elapsed = Elapsed(work, a) /\ elapsed = Elapsed(work, b)
  BY AllElapsed
<1> HIDE DEF x, y, gross, segments, record, elapsed
<1>8. /\ x.gross = gross /\ x.lilo = record
      /\ x.disconnected = (segments # {} /\ Presence(segments) = {} /\ Enough(segments, elapsed))
      /\ x.first = FirstOf(alone, ShownFirst(segments), LoggedIn(record, a))
      /\ x.last = LastOf(alone, ShownLast(segments), LoggedOut(record, a))
  <2>1. elapsed = Elapsed(work, a)
    BY <1>7
  <2> QED
    BY ONLY <1>3, <2>1, EvaluatedIs DEF alone
<1>9. /\ y.gross = gross /\ y.lilo = record
      /\ y.disconnected = (segments # {} /\ Presence(segments) = {} /\ Enough(segments, elapsed))
      /\ y.first = FirstOf(alone, ShownFirst(segments), LoggedIn(record, b))
      /\ y.last = LastOf(alone, ShownLast(segments), LoggedOut(record, b))
  BY <1>3, <1>7, EvaluatedIs
<1> HIDE DEF alone
<1>10. LoggedIn(record, a) = LoggedIn(record, b)
  <2>1. record.first # NoTime => record.first \in Nat /\ record.first <= a /\ record.first <= b
    BY <1>1, <1>6 DEF RecordOK
  <2> QED
    BY <2>1 DEF LoggedIn
<1>11. SegmentsOK(segments, b)
  <2>1. \A g \in segments : g.to \in Nat /\ g.to <= shift.to
    BY <1>5 DEF SegmentsOK
  <2>2. \A g \in segments : g.to <= b
    BY <1>1, <2>1
  <2> QED
    BY <1>5, <2>2 DEF SegmentsOK
<1>12. /\ x.first \in Nat \cup {NoTime} /\ x.first <= shift.to
       /\ x.last \in Nat \cup {NoTime} /\ y.last \in Nat \cup {NoTime}
  BY <1>5, <1>6, <1>8, <1>9, <1>11, TimesAreRight
<1>13. LateLogout(x.last, y.last)
  BY <1>5, <1>6, <1>8, <1>9, LogoutSettles
<1>14. x.first \in Int /\ x.last \in Int /\ y.last \in Int
  BY <1>1, <1>12
<1>15. SameView(x, y)
  BY <1>8, <1>9, <1>10, <1>12, <1>13, <1>14 DEF SameView
<1> QED
  BY <1>4, <1>8, <1>15 DEF x, y

LEMMA PairSettles ==
  ASSUME PlanOK, shift.from < shift.to, NEW x, NEW y, SameView(x, y)
  PROVE  /\ UsablePair(shift, x) <=> UsablePair(shift, y)
         /\ x.last = NoTime <=> y.last = NoTime
         /\ x.last # y.last => shift.to <= x.last /\ shift.to <= y.last
<1>1. shift.to \in Nat /\ shift.from \in Nat /\ NoTime = -1
  BY DEF PlanOK, NoTime
<1>2. /\ x.first = y.first /\ x.first \in Int /\ x.first <= shift.to
      /\ x.last \in Int /\ y.last \in Int
  BY DEF SameView
<1>3. CASE x.last = y.last
  BY <1>2, <1>3 DEF UsablePair
<1>4. CASE x.last # y.last
  <2>1. x.last \in Nat /\ y.last \in Nat /\ shift.to <= x.last /\ shift.to <= y.last
    BY <1>4 DEF SameView, LateLogout
  <2>2. /\ x.last # NoTime /\ y.last # NoTime
        /\ x.last >= x.first /\ y.last >= y.first /\ x.last > shift.from /\ y.last > shift.from
    BY <1>1, <1>2, <2>1
  <2>3. UsablePair(shift, x) <=> UsablePair(shift, y)
    BY <1>2, <2>2 DEF UsablePair
  <2> QED
    BY <2>1, <2>2, <2>3
<1> QED
  BY <1>3, <1>4

LEMMA StatusGapsSettle ==
  ASSUME PlanOK, shift.from < shift.to, NEW asOf, NEW work, NEW category,
         NEW x, NEW y, SameView(x, y), GrossOK(x.gross, asOf)
  PROVE  StatusGaps(work, x, category) = StatusGaps(work, y, category)
<1> DEFINE matching == Matching(x.gross, category)
           Kept(last) == {p \in UNION {Intersections(Clip(m, Interval(x.first, last)), work) :
                                         m \in {m \in matching : Overlaps(m, Interval(x.first, last))}} :
                            Minutes(p) > StatusTolerance}
<1>1. shift.to \in Nat /\ shift.from \in Nat
  BY DEF PlanOK
<1>2. /\ x.first = y.first /\ x.gross = y.gross /\ x.first \in Int /\ x.first <= shift.to
      /\ x.last \in Int /\ y.last \in Int
  BY DEF SameView
<1>3. /\ StatusGaps(work, x, category) =
           IF x.first = NoTime \/ x.last <= x.first THEN {} ELSE Kept(x.last)
      /\ StatusGaps(work, y, category) =
           IF x.first = NoTime \/ y.last <= x.first THEN {} ELSE Kept(y.last)
  BY <1>2 DEF StatusGaps, Matching
<1>4. CASE x.last = y.last
  BY <1>3, <1>4
<1>5. CASE x.last # y.last
  <2>1. x.last \in Nat /\ y.last \in Nat /\ shift.to <= x.last /\ shift.to <= y.last
    BY <1>5 DEF SameView, LateLogout
  <2>2. \A m \in matching : /\ m.from \in Int /\ m.to \in Int
                            /\ m.from < m.to /\ m.to <= shift.to
    <3>1. /\ matching \in SUBSET Spans
          /\ \A m \in matching : m.from < m.to
          /\ \A m \in matching, t \in Int : Within(m, t) =>
               \E g \in x.gross : g.category = category /\ Within(g, t)
      BY MatchingIsRight
    <3> HIDE DEF matching
    <3> SUFFICES ASSUME NEW m \in matching
                 PROVE  m.from \in Int /\ m.to \in Int /\ m.from < m.to /\ m.to <= shift.to
      OBVIOUS
    <3>2. m.from \in Int /\ m.to \in Int /\ m.from < m.to
      BY <3>1 DEF Spans
    <3>3. m.to - 1 \in Int /\ Within(m, m.to - 1)
      BY <3>2 DEF Within
    <3>4. PICK g \in x.gross : Within(g, m.to - 1)
      BY <3>1, <3>3
    <3>5. g.to \in Nat /\ g.to <= shift.to
      BY DEF GrossOK, Inside
    <3> QED
      BY <1>1, <3>2, <3>4, <3>5 DEF Within
  <2> HIDE DEF matching
  <2>3. ASSUME NEW last \in Nat, shift.to <= last, NEW m \in matching
        PROVE  /\ Overlaps(m, Interval(x.first, last)) <=> m.to > x.first
               /\ Clip(m, Interval(x.first, last)) = Interval(Max({m.from, x.first}), m.to)
    <3>1. m.from \in Int /\ m.to \in Int /\ m.from < m.to /\ m.to <= shift.to
      BY <2>2
    <3>2. Interval(x.first, last).from = x.first /\ Interval(x.first, last).to = last
      BY DEF Interval
    <3>3. m.from < last /\ m.to <= last /\ last \in Int
      BY <1>1, <2>3, <3>1
    <3>4. Min({m.to, last}) = m.to
      BY ONLY <3>1, <3>3, OfTwo
    <3>5. Overlaps(m, Interval(x.first, last)) <=> m.to > x.first
      BY <3>2, <3>3 DEF Overlaps
    <3>6. Clip(m, Interval(x.first, last)) = Interval(Max({m.from, x.first}), m.to)
      BY <3>2, <3>4 DEF Clip
    <3> QED
      BY <3>5, <3>6
  <2> DEFINE Same == {p \in UNION {Intersections(Interval(Max({m.from, x.first}), m.to), work) :
                                     m \in {m \in matching : m.to > x.first}} :
                        Minutes(p) > StatusTolerance}
  <2>4. ASSUME NEW last \in Nat, shift.to <= last PROVE Kept(last) = Same
    <3>1. {m \in matching : Overlaps(m, Interval(x.first, last))} = {m \in matching : m.to > x.first}
      BY <2>3, <2>4
    <3>2. {Intersections(Clip(m, Interval(x.first, last)), work) :
             m \in {m \in matching : Overlaps(m, Interval(x.first, last))}}
           = {Intersections(Interval(Max({m.from, x.first}), m.to), work) :
                m \in {m \in matching : m.to > x.first}}
      BY <2>3, <2>4, <3>1
    <3> QED
      BY <3>2
  <2>5. Kept(x.last) = Same /\ Kept(y.last) = Same
    BY <2>1, <2>4
  <2>6. CASE x.first = shift.to
    <3>1. {m \in matching : m.to > x.first} = {}
      BY <1>1, <2>2, <2>6
    <3>2. UNION {Intersections(Interval(Max({m.from, x.first}), m.to), work) :
                   m \in {m \in matching : m.to > x.first}} = {}
      BY <3>1
    <3>3. Same = {}
      BY <3>2
    <3> HIDE DEF Kept, Same
    <3> QED
      BY <1>3, <2>5, <3>3
  <2>7. CASE x.first # shift.to
    <3>1. ~(x.last <= x.first) /\ ~(y.last <= x.first)
      BY <1>1, <1>2, <2>1, <2>7
    <3> HIDE DEF Kept, Same
    <3> QED
      BY <1>3, <2>5, <3>1
  <2> QED
    BY <2>6, <2>7
<1> QED
  BY <1>4, <1>5

LEMMA GapsSettle ==
  ASSUME PlanOK, shift.from < shift.to,
         NEW a \in Nat, NEW b \in Nat, shift.to <= a, shift.to <= b, NEW work,
         NEW x, NEW y, SameView(x, y), GrossOK(x.gross, a)
  PROVE  Gaps(work, x, a) = Gaps(work, y, b)
<1>1. shift.to \in Nat /\ shift.from \in Nat
  BY DEF PlanOK
<1>2. /\ x.first = y.first /\ x.lilo = y.lilo /\ x.disconnected = y.disconnected
      /\ x.last \in Int /\ y.last \in Int
  BY DEF SameView
<1>3. /\ UsablePair(shift, x) <=> UsablePair(shift, y)
      /\ x.last # y.last => shift.to <= x.last /\ shift.to <= y.last
  BY PairSettles
<1>4. Complete(shift, a) /\ Complete(shift, b)
  BY <1>1 DEF Complete
<1>5. NoShowParts(shift, work, x, loaded.lilo, a) = NoShowParts(shift, work, y, loaded.lilo, b)
  BY <1>2, <1>4 DEF NoShowParts, BlankLilo
<1>6. LateParts(shift, work, x) = LateParts(shift, work, y)
  BY <1>2, <1>3 DEF LateParts
<1>7. EarlyParts(shift, work, x, a) = EarlyParts(shift, work, y, b)
  <2>1. CASE x.last = y.last
    BY <1>3, <1>4, <2>1 DEF EarlyParts
  <2>2. CASE x.last # y.last
    <3>1. ~(shift.to > x.last) /\ ~(shift.to > y.last)
      BY <1>1, <1>2, <1>3, <2>2
    <3> QED
      BY <3>1 DEF EarlyParts
  <2> QED
    BY <2>1, <2>2
<1>8. \A category : StatusGaps(work, x, category) = StatusGaps(work, y, category)
  BY StatusGapsSettle
<1>9. /\ StatusGaps(work, x, "Logged Off") = StatusGaps(work, y, "Logged Off")
      /\ StatusGaps(work, x, "Unavailable") = StatusGaps(work, y, "Unavailable")
  BY <1>8
<1> QED
  BY Zenon, <1>5, <1>6, <1>7, <1>9 DEF Gaps

LEMMA DaySettles ==
  ASSUME PlanOK, NEW a \in Nat, NEW b \in Nat, shift.to <= a, shift.to <= b
  PROVE  Day(a) = Day(b)
<1> DEFINE planned == TotalMinutes(TimeOff(shift, timeOff))
           work == Working(shift, timeOff)
           x == Seen(shift, work, status, lilo, a)
           y == Seen(shift, work, status, lilo, b)
           fullOff == \/ shift.kind = "Planned absence"
                      \/ Minutes(shift) > 0 /\ planned >= Minutes(shift)
           DayOf(seen, asOf) ==
             IF shift.kind = "Off" THEN [result |-> "Off", gaps |-> {}]
             ELSE IF fullOff THEN [result |-> "Planned absence", gaps |-> {}]
             ELSE [result |-> Result(shift, planned, seen, Gaps(work, seen, asOf),
                                     BlankLilo(shift, seen, loaded.lilo), Unloaded, asOf),
                   gaps |-> Gaps(work, seen, asOf)]
<1>1. Day(a) = DayOf(x, a) /\ Day(b) = DayOf(y, b)
  BY DEF Day, WorkedDay, Classified
<1>2. CASE shift.kind = "Off" \/ fullOff
  <2> HIDE DEF fullOff, planned, work, x, y
  <2>1. CASE shift.kind = "Off"
    BY <1>1, <2>1
  <2>2. CASE shift.kind # "Off" /\ fullOff
    <3>1. /\ DayOf(x, a) = [result |-> "Planned absence", gaps |-> {}]
          /\ DayOf(y, b) = [result |-> "Planned absence", gaps |-> {}]
      BY <2>2
    <3> HIDE DEF DayOf
    <3> QED
      BY <1>1, <3>1
  <2> QED
    BY <1>2, <2>1, <2>2
<1>3. CASE ~(shift.kind = "Off" \/ fullOff)
  <2>1. shift.from < shift.to /\ shift.from \in Nat /\ shift.to \in Nat
    BY <1>3 DEF PlanOK
  <2>2. ToBeWorked
    BY <1>3 DEF ToBeWorked
  <2>3. WorkOK(work)
    BY <2>2, WorkingIsRight DEF WorkOK
  <2> HIDE DEF work
  <2>4. SameView(x, y) /\ GrossOK(x.gross, a)
    BY <2>1, <2>3, SeenSettles
  <2> HIDE DEF x, y, planned, fullOff
  <2>5. Gaps(work, x, a) = Gaps(work, y, b)
    BY <2>1, <2>4, GapsSettle
  <2>6. /\ UsablePair(shift, x) <=> UsablePair(shift, y)
        /\ x.last = NoTime <=> y.last = NoTime
    BY <2>1, <2>4, PairSettles
  <2>7. x.first = y.first /\ x.lilo = y.lilo
    BY <2>4 DEF SameView
  <2>8. BlankLilo(shift, x, loaded.lilo) = BlankLilo(shift, y, loaded.lilo)
    BY <2>7 DEF BlankLilo
  <2>9. ~(a < shift.from) /\ ~(b < shift.from) /\ ~InProgress(shift, a) /\ ~InProgress(shift, b)
    BY <2>1 DEF InProgress
  <2>10. \A gaps, blank : Result(shift, planned, x, gaps, blank, Unloaded, a)
                            = Result(shift, planned, y, gaps, blank, Unloaded, b)
    BY <2>6, <2>7, <2>9 DEF Result
  <2> QED
    BY <1>1, <1>3, <2>5, <2>8, <2>10
<1> QED
  BY <1>2, <1>3

--------------------------------------------------------------------------------
(* The inductive invariant: a cut that is there was built from the evidence that is *)
(* there, at a moment that has been.                                                  *)
DayInv ==
  /\ TypeOK
  /\ builtAt # NotBuilt => builtAt <= now /\ day = Day(builtAt)
  /\ builtAt = NotBuilt => day = NoDay

LEMMA MomentsAre ==
  /\ Min(Moments) \in Moments /\ Moments \subseteq Nat /\ NotBuilt \notin Moments
  /\ \A t : (\E m \in Moments : m > t) =>
       Min({m \in Moments : m > t}) \in Moments /\ Min({m \in Moments : m > t}) > t
<1>1. Moments \in SUBSET Nat /\ Moments # {}
  BY AttendanceAssumption
<1>2. Min(Moments) \in Moments
  BY <1>1, SmallestNumber
<1>3. ASSUME NEW t, \E m \in Moments : m > t
      PROVE  Min({m \in Moments : m > t}) \in Moments /\ Min({m \in Moments : m > t}) > t
  <2> DEFINE later == {m \in Moments : m > t}
  <2>1. later \in SUBSET Nat /\ later # {}
    BY <1>1, <1>3
  <2>2. Min(later) \in later
    <3> HIDE DEF later
    <3> QED
      BY <2>1, SmallestNumber
  <2> QED
    BY <2>2
<1>4. NotBuilt \notin Moments
  BY <1>1 DEF NotBuilt
<1> QED
  BY <1>1, <1>2, <1>3, <1>4

LEMMA AttendanceInit == Init => DayInv
<1> SUFFICES ASSUME Init PROVE DayInv
  OBVIOUS
<1>1. TypeOK
  <2>1. \E p \in Plans : /\ shift = p.shift /\ timeOff = p.timeOff
                         /\ held = [status |-> p.status, lilo |-> p.lilo]
    BY DEF Init
  <2>2. loaded \in [status : SUBSET Nat, lilo : SUBSET Nat]
    BY DEF Init
  <2> QED
    BY <2>1, <2>2, MomentsAre DEF Init, TypeOK
<1> QED
  BY <1>1 DEF Init, DayInv

(* What exports add to. *)
LEMMA LoadedStays ==
  ASSUME TypeOK, NEW d \in Nat
  PROVE  /\ [loaded EXCEPT !.status = @ \cup {d}] \in [status : SUBSET Nat, lilo : SUBSET Nat]
         /\ [loaded EXCEPT !.lilo = @ \cup {d}] \in [status : SUBSET Nat, lilo : SUBSET Nat]
BY DEF TypeOK

(* The day, said of what it is built from. *)
GapsFrom(sh, ld, work, seen, asOf) ==
       GapsOf("NO_SHOW", NoShowParts(sh, work, seen, ld.lilo, asOf))
  \cup GapsOf("LATE", LateParts(sh, work, seen))
  \cup GapsOf("EARLY_LEAVE", EarlyParts(sh, work, seen, asOf))
  \cup GapsOf("LOGGED_OFF", StatusGaps(work, seen, "Logged Off"))
  \cup GapsOf("UNAVAILABLE", StatusGaps(work, seen, "Unavailable"))

ClassifiedFrom(sh, ld, planned, seen, gaps, asOf) ==
  [result |-> Result(sh, planned, seen, gaps, BlankLilo(sh, seen, ld.lilo),
                     \A source \in {"status", "lilo"} :
                       ~(RequiredDates(sh) \subseteq ld[source]), asOf),
   gaps |-> gaps]

WorkedFrom(sh, ld, planned, work, seen, asOf) ==
  ClassifiedFrom(sh, ld, planned, seen, GapsFrom(sh, ld, work, seen, asOf), asOf)

DayFrom(sh, rows, st, li, ld, asOf) ==
  LET planned == TotalMinutes(TimeOff(sh, rows))
      work == Working(sh, rows)
      fullOff == \/ sh.kind = "Planned absence"
                 \/ Minutes(sh) > 0 /\ planned >= Minutes(sh)
  IN IF sh.kind = "Off" THEN [result |-> "Off", gaps |-> {}]
     ELSE IF fullOff THEN [result |-> "Planned absence", gaps |-> {}]
     ELSE WorkedFrom(sh, ld, planned, work, Seen(sh, work, st, li, asOf), asOf)

LEMMA DayIsFrom ==
  /\ \A asOf : Day(asOf) = DayFrom(shift, timeOff, status, lilo, loaded, asOf)
  /\ Day(builtAt)' = DayFrom(shift', timeOff', status', lilo', loaded', builtAt')
<1>1. ASSUME NEW asOf PROVE Day(asOf) = DayFrom(shift, timeOff, status, lilo, loaded, asOf)
  BY DEF Day, WorkedDay, Classified, Unloaded, Gaps,
         DayFrom, WorkedFrom, ClassifiedFrom, GapsFrom
<1>2. Day(builtAt)' = DayFrom(shift', timeOff', status', lilo', loaded', builtAt')
  BY DEF Day, WorkedDay, Classified, Unloaded, Gaps,
         DayFrom, WorkedFrom, ClassifiedFrom, GapsFrom
<1> QED
  BY <1>1, <1>2

LEMMA AttendanceStep == DayInv /\ [Next]_vars => DayInv'
<1> SUFFICES ASSUME DayInv, [Next]_vars PROVE DayInv'
  OBVIOUS
<1>1. TypeOK /\ PlanOK
  BY PlanIsOK DEF DayInv
<1> DEFINE Typed == [status : SUBSET Nat, lilo : SUBSET Nat]
<1>2. \A d \in RequiredDates(shift) : d \in Nat
  <2>1. Date(shift.from) \in Nat
    BY <1>1, DateOf DEF PlanOK
  <2>2. Date(shift.to - 1) \in Int
    <3>1. shift.to - 1 \in Int /\ Midnight \in Nat \ {0}
      BY <1>1, AttendanceAssumption DEF PlanOK
    <3> QED
      BY <3>1 DEF Date
  <2> HIDE DEF Typed
  <2> QED
    BY <2>1, <2>2 DEF RequiredDates
<1>3. ASSUME loaded' \in Typed, status' \subseteq held.status, lilo' \subseteq held.lilo,
             UNCHANGED <<held, shift, timeOff, now>>, builtAt' = NotBuilt, day' = NoDay
      PROVE  DayInv'
  <2>1. TypeOK'
    BY <1>1, <1>3 DEF TypeOK
  <2> QED
    BY <1>3, <2>1 DEF DayInv
<1>4. CASE ExportStatus
  <2>1. PICK r \in held.status \ status :
          /\ status' = status \cup {r}
          /\ loaded' = [loaded EXCEPT !.status = @ \cup {Date(r.from)}]
    BY <1>4 DEF ExportStatus
  <2>2. r.from \in Nat
    <3>1. PICK p \in Plans : held = [status |-> p.status, lilo |-> p.lilo]
      BY <1>1 DEF TypeOK
    <3>2. r \in [from : Nat, to : Nat, category : STRING, rank : Nat]
      BY <3>1, <2>1, AttendanceAssumption
    <3> QED
      BY <3>2
  <2>3. loaded' \in Typed
    BY <1>1, <2>1, <2>2, DateOf, LoadedStays
  <2> HIDE DEF Typed
  <2> QED
    BY <1>1, <1>3, <1>4, <2>1, <2>3 DEF ExportStatus, TypeOK
<1>5. CASE ExportLilo
  <2>1. PICK r \in held.lilo \ lilo :
          /\ lilo' = lilo \cup {r}
          /\ loaded' = [loaded EXCEPT !.lilo = @ \cup {r.date}]
    BY <1>5 DEF ExportLilo
  <2>2. r.date \in Nat
    <3>1. PICK p \in Plans : held = [status |-> p.status, lilo |-> p.lilo]
      BY <1>1 DEF TypeOK
    <3>2. r \in [date : Nat, first : Nat \cup {NoTime}, last : Nat \cup {NoTime}]
      BY <3>1, <2>1, AttendanceAssumption
    <3> QED
      BY <3>2
  <2>3. loaded' \in Typed
    BY <1>1, <2>1, <2>2, LoadedStays
  <2> HIDE DEF Typed
  <2> QED
    BY <1>1, <1>3, <1>5, <2>1, <2>3 DEF ExportLilo, TypeOK
<1>6. CASE ExportOthers
  <2>1. PICK source \in {"status", "lilo"}, d \in RequiredDates(shift) :
          loaded' = [loaded EXCEPT ![source] = @ \cup {d}]
    BY <1>6 DEF ExportOthers
  <2>2. loaded' \in Typed
    BY <1>1, <1>2, <2>1, LoadedStays
  <2> HIDE DEF Typed
  <2> QED
    BY <1>1, <1>3, <1>6, <2>2 DEF ExportOthers, TypeOK
<1>7. CASE Refresh
  <2>1. /\ UNCHANGED <<held, shift, timeOff, status, lilo, loaded, now>>
        /\ builtAt' = now /\ day' = Day(now)
    BY <1>7 DEF Refresh, evidence
  <2>2. TypeOK'
    BY <1>1, <2>1 DEF TypeOK
  <2>3. Day(builtAt)' = Day(now)
    BY <2>1, DayIsFrom
  <2>4. now \in Moments /\ now \in Nat /\ now # NotBuilt
    BY <1>1, MomentsAre DEF TypeOK
  <2> QED
    BY <2>1, <2>2, <2>3, <2>4 DEF DayInv
<1>8. ASSUME UNCHANGED <<held, shift, timeOff, status, lilo, loaded, builtAt, day>>,
             now' \in Moments, now <= now'
      PROVE  DayInv'
  <2>1. TypeOK'
    BY <1>1, <1>8 DEF TypeOK
  <2>2. Day(builtAt)' = Day(builtAt)
    BY <1>8, DayIsFrom
  <2>3. builtAt # NotBuilt => builtAt <= now'
    <3>1. now \in Nat /\ now' \in Nat /\ (builtAt # NotBuilt => builtAt \in Nat)
      BY <1>1, <1>8, MomentsAre DEF TypeOK
    <3> QED
      BY <1>8, <3>1 DEF DayInv
  <2> QED
    BY <1>8, <2>1, <2>2, <2>3 DEF DayInv
<1>9. CASE TimePasses
  <2>1. /\ UNCHANGED <<held, shift, timeOff, status, lilo, loaded, builtAt, day>>
        /\ \E m \in Moments : m > now
        /\ now' = Min({m \in Moments : m > now})
    BY <1>9 DEF TimePasses, evidence
  <2>2. now' \in Moments /\ now' > now
    BY <2>1, MomentsAre
  <2>3. now \in Nat /\ now' \in Nat
    BY <1>1, <2>2, MomentsAre DEF TypeOK
  <2>4. now <= now'
    BY <2>2, <2>3
  <2> QED
    BY <1>8, <2>1, <2>2, <2>4
<1>10. CASE UNCHANGED vars
  <2>1. UNCHANGED <<held, shift, timeOff, status, lilo, loaded, now, builtAt, day>>
    BY <1>10 DEF vars, evidence
  <2>2. now' \in Moments /\ now <= now'
    BY <1>1, <2>1, MomentsAre DEF TypeOK
  <2> QED
    BY <1>8, <2>1, <2>2
<1> QED
  BY <1>4, <1>5, <1>6, <1>7, <1>9, <1>10 DEF Next

LEMMA AttendanceInvariant == Spec => []DayInv
<1> QED
  BY AttendanceInit, AttendanceStep, PTL DEF Spec

(* Types, and a cut is built at a moment at which a refresh may run, of the shift, *)
(* the register rows and the evidence of one plan (build_attendance_model).         *)
THEOREM AttendanceTypeCorrect == Spec => []TypeOK
<1>1. DayInv => TypeOK
  BY DEF DayInv
<1> QED
  BY <1>1, AttendanceInvariant, PTL

(* A cut that is there was built at a moment that has been, of what is there. *)
LEMMA BuiltDay ==
  ASSUME DayInv, builtAt # NotBuilt
  PROVE  builtAt \in Nat /\ now \in Nat /\ builtAt <= now /\ day = Day(builtAt)
<1>1. builtAt \in Nat /\ now \in Nat
  BY MomentsAre DEF DayInv, TypeOK
<1> QED
  BY <1>1 DEF DayInv

(* Every tick of a working shift is in exactly one interval of time off or work, and *)
(* is time off exactly if a register approves it: what _merge and _subtract make of *)
(* any finite set of register rows loses nothing and counts nothing twice.           *)
THEOREM ShiftIsPartitioned == Spec => []ShiftPartitioned
<1>1. DayInv => ShiftPartitioned
  BY PlanIsOK, PartitionedRight DEF DayInv
<1> QED
  BY <1>1, AttendanceInvariant, PTL

(* No moment is held against an agent twice: the fragments that _day_model emits *)
(* do not overlap, whatever rows the two sources hold.                               *)
THEOREM GapsAreSeparate == Spec => []GapsSeparate
<1>1. ASSUME DayInv PROVE GapsSeparate
  <2>1. CASE builtAt = NotBuilt
    BY <1>1, <2>1 DEF GapsSeparate, DayInv, NoDay
  <2>2. CASE builtAt # NotBuilt
    <3>1. PlanOK
      BY <1>1, PlanIsOK DEF DayInv
    <3>2. builtAt \in Nat /\ day = Day(builtAt)
      BY <1>1, <2>2, BuiltDay
    <3> QED
      BY <3>1, <3>2, DayIsRight DEF GapsSeparate
  <2> QED
    BY <2>1, <2>2
<1> QED
  BY <1>1, AttendanceInvariant, PTL

(* No gap touches approved time off, lies outside the shift or had not happened yet  *)
(* when the cut was built, though a source may have rows of a time to come           *)
(* (_day_model, _status_segments).                                                   *)
THEOREM GapsAreElapsedWork == Spec => []GapsInElapsedWork
<1>1. ASSUME DayInv PROVE GapsInElapsedWork
  <2>1. CASE builtAt = NotBuilt
    BY <1>1, <2>1 DEF GapsInElapsedWork, DayInv, NoDay
  <2>2. CASE builtAt # NotBuilt
    <3>1. PlanOK
      BY <1>1, PlanIsOK DEF DayInv
    <3>2. builtAt \in Nat /\ day = Day(builtAt)
      BY <1>1, <2>2, BuiltDay
    <3> QED
      BY <3>1, <3>2, DayIsRight DEF GapsInElapsedWork
  <2> QED
    BY <2>1, <2>2
<1> QED
  BY <1>1, AttendanceInvariant, PTL

(* An agent of whom no export has a row is never late, absent or present, whatever  *)
(* is loaded of others (_day_model).                                                  *)
THEOREM UnknownIsUnknown == Spec => []UnknownStaysUnknown
<1>1. ASSUME DayInv PROVE UnknownStaysUnknown
  <2> SUFFICES ASSUME builtAt # NotBuilt, status = {}, lilo = {}
               PROVE  /\ day.gaps = {}
                      /\ day.result \in {"Off", "Planned absence", "Not started",
                                         "Shift in progress", "Data not loaded",
                                         "Missing actual evidence"}
    BY DEF UnknownStaysUnknown
  <2>1. PlanOK
    BY <1>1, PlanIsOK DEF DayInv
  <2>2. builtAt \in Nat /\ day = Day(builtAt)
    BY <1>1, BuiltDay
  <2> QED
    BY <2>1, <2>2, UnknownDay
<1> QED
  BY <1>1, AttendanceInvariant, PTL

(* A cut built after the shift ended says what one built later from the same sources *)
(* would say, so that a refresh that finds its sources unchanged may keep it.          *)
THEOREM UnchangedCutIsSettled == Spec => []UnchangedCutSettled
<1>1. ASSUME DayInv PROVE UnchangedCutSettled
  <2> SUFFICES ASSUME builtAt # NotBuilt, builtAt >= shift.to PROVE day = Day(now)
    BY DEF UnchangedCutSettled
  <2>1. PlanOK /\ shift.to \in Nat
    BY <1>1, PlanIsOK DEF DayInv, PlanOK
  <2>2. builtAt \in Nat /\ now \in Nat /\ builtAt <= now /\ day = Day(builtAt)
    BY <1>1, BuiltDay
  <2>3. shift.to <= builtAt /\ shift.to <= now
    BY <2>1, <2>2
  <2> QED
    BY <2>1, <2>2, <2>3, DaySettles
<1> QED
  BY <1>1, AttendanceInvariant, PTL
================================================================================
