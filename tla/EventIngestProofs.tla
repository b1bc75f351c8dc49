---------------------------- MODULE EventIngestProofs ----------------------------
(***************************************************************************)
(* Proofs about the reading of one event file, for every text, every       *)
(* roster and set of labels, every size of a batch and every number of     *)
(* replacements while the file is read.                                    *)
(***************************************************************************)
EXTENDS EventIngest, FiniteSetTheorems, TLAPS

Reasons == {"accepted", "outside", "rejected"}

Counts == [accepted : Nat, outside : Nat, rejected : Nat, unmapped : Nat]

(* A batch is not full, holds no row twice and none that is inserted already. *)
BatchInv ==
  /\ phase \in {"statted", "hashed", "reading", "committed", "done", "failed"}
  /\ place \in Nat /\ counts \in Counts /\ counts.unmapped <= counts.accepted
  /\ IsFiniteSet(batch) /\ Cardinality(batch) < BatchSize
  /\ batch \cap pending = {} /\ \A x \in batch \cup pending : x.row \in 1..place

(* What the first n rows of a text come to. *)
WithReason(text, n, reason) == {i \in 1..n : Reason(text, text.rows[i]) = reason}

RowsUpTo(text, n) == {Row(text, i) : i \in WithReason(text, n, "accepted")}

Counted(text, n) ==
  /\ counts.accepted = Cardinality(WithReason(text, n, "accepted"))
  /\ counts.outside = Cardinality(WithReason(text, n, "outside"))
  /\ counts.rejected = Cardinality(WithReason(text, n, "rejected"))

(* A file that has the metadata it had at first has the bytes that were hashed, and
   everything read so far was read from them; once it has others it never has those
   again. *)
ReadingInv ==
  /\ file.text \in Texts /\ file.stat \in Nat /\ before.stat \in Nat
  /\ before.stat <= file.stat
  /\ phase \in {"statted", "hashed"} =>
       place = 0 /\ batch = {} /\ pending = {} /\ counts = NoCounts
  /\ phase \in {"hashed", "reading"} /\ MetadataMatches => before.text = file.text
  /\ phase = "reading" /\ MetadataMatches =>
       /\ place <= Len(file.text.rows) /\ Counted(file.text, place)
       /\ pending \cup batch = RowsUpTo(file.text, place)
  /\ before = [stat |-> before.stat, text |-> before.text]

(* What others see: nothing, or all of the text that was hashed. *)
SeenInv ==
  /\ phase \notin {"committed", "done"} => bronze = {}
  /\ phase # "done" => plan = NoPlan
  /\ phase = "committed" =>
       /\ before.text \in Texts /\ bronze = AcceptedRows(before.text)
       /\ Counted(before.text, Len(before.text.rows))

IngestInv == BatchInv /\ ReadingInv /\ SeenInv

--------------------------------------------------------------------------------
(* The rows of a text are numbered. *)
LEMMA Numbered ==
  ASSUME NEW text \in Texts
  PROVE  Len(text.rows) \in Nat /\ DOMAIN text.rows = 1..Len(text.rows)
<1> DEFINE R == {text.rows[i] : i \in DOMAIN text.rows}
<1>1. text.rows \in Seq(R)
  BY EventIngestAssumption
<1> HIDE DEF R
<1> QED
  BY <1>1

(* One row more comes under one heading. *)
LEMMA OneMore ==
  ASSUME NEW text, NEW n \in Nat, NEW reason
  PROVE  /\ IsFiniteSet(WithReason(text, n, reason))
         /\ Cardinality(WithReason(text, n, reason)) \in Nat
         /\ WithReason(text, n + 1, reason) =
              IF Reason(text, text.rows[n + 1]) = reason
                THEN WithReason(text, n, reason) \cup {n + 1} ELSE WithReason(text, n, reason)
         /\ Cardinality(WithReason(text, n + 1, reason)) =
              IF Reason(text, text.rows[n + 1]) = reason
                THEN Cardinality(WithReason(text, n, reason)) + 1
                ELSE Cardinality(WithReason(text, n, reason))
<1>1. IsFiniteSet(1..n)
  BY FS_Interval
<1>2. /\ IsFiniteSet(WithReason(text, n, reason))
      /\ Cardinality(WithReason(text, n, reason)) \in Nat
  <2>1. WithReason(text, n, reason) \in SUBSET (1..n)
    BY DEF WithReason
  <2> QED
    BY <1>1, <2>1, FS_Subset, FS_CardinalityType
<1>3. WithReason(text, n + 1, reason) =
        IF Reason(text, text.rows[n + 1]) = reason
          THEN WithReason(text, n, reason) \cup {n + 1} ELSE WithReason(text, n, reason)
  BY DEF WithReason
<1>4. n + 1 \notin WithReason(text, n, reason)
  BY DEF WithReason
<1> QED
  BY <1>2, <1>3, <1>4, FS_AddElement

(* No rows have been read at first. *)
LEMMA NoRows ==
  ASSUME NEW text, NEW reason
  PROVE  WithReason(text, 0, reason) = {} /\ RowsUpTo(text, 0) = {}
BY DEF WithReason, RowsUpTo

(* A row has one of the three headings. *)
LEMMA HasReason ==
  ASSUME NEW text, NEW r PROVE Reason(text, r) \in Reasons
BY DEF Reason, Reasons

(* The counts after a row: one heading is counted, and perhaps an unmapped label. *)
LEMMA HeadingCounted ==
  ASSUME NEW c \in Counts, NEW reason \in Reasons
  PROVE  LET d == [c EXCEPT ![reason] = c[reason] + 1]
         IN /\ d \in Counts /\ d.unmapped = c.unmapped
            /\ d.accepted = IF reason = "accepted" THEN c.accepted + 1 ELSE c.accepted
            /\ d.outside = IF reason = "outside" THEN c.outside + 1 ELSE c.outside
            /\ d.rejected = IF reason = "rejected" THEN c.rejected + 1 ELSE c.rejected
<1>1. CASE reason = "accepted"
  BY <1>1 DEF Counts
<1>2. CASE reason = "outside"
  BY <1>2 DEF Counts
<1>3. CASE reason = "rejected"
  BY <1>3 DEF Counts
<1> QED
  BY <1>1, <1>2, <1>3 DEF Reasons

(* A label without a reviewed category adds one to the unmapped. *)
LEMMA LabelCounted ==
  ASSUME NEW c \in Counts, NEW more \in {0, 1} PROVE c.unmapped + more \in Nat
BY DEF Counts

(* One row changes the count of its heading only, and that of unmapped labels. *)
LEMMA RowCounted ==
  ASSUME counts \in Counts, NEW reason \in Reasons, NEW more \in {0, 1},
         counts' = [counts EXCEPT ![reason] = @ + 1, !.unmapped = @ + more]
  PROVE  /\ counts' \in Counts
         /\ counts'.accepted = IF reason = "accepted" THEN counts.accepted + 1 ELSE counts.accepted
         /\ counts'.outside = IF reason = "outside" THEN counts.outside + 1 ELSE counts.outside
         /\ counts'.rejected =
              IF reason = "rejected" THEN counts.rejected + 1 ELSE counts.rejected
         /\ counts'.unmapped = counts.unmapped + more
<1> DEFINE one == [counts EXCEPT ![reason] = counts[reason] + 1]
           n == counts.unmapped + more
<1>1. counts' = [counts EXCEPT ![reason] = counts[reason] + 1, !.unmapped = counts.unmapped + more]
  BY Zenon
<1>2. counts' = [one EXCEPT !.unmapped = n]
  BY <1>1
<1>3. /\ one \in Counts
      /\ one.accepted = IF reason = "accepted" THEN counts.accepted + 1 ELSE counts.accepted
      /\ one.outside = IF reason = "outside" THEN counts.outside + 1 ELSE counts.outside
      /\ one.rejected = IF reason = "rejected" THEN counts.rejected + 1 ELSE counts.rejected
  BY HeadingCounted
<1>4. n \in Nat
  BY LabelCounted
<1> HIDE DEF one, n
<1>5. /\ counts' \in Counts /\ counts'.unmapped = n
      /\ counts'.accepted = one.accepted /\ counts'.outside = one.outside
      /\ counts'.rejected = one.rejected
  BY <1>2, <1>3, <1>4 DEF Counts
<1> QED
  BY <1>3, <1>5 DEF n

--------------------------------------------------------------------------------
(* One step of the reader, or one replacement of the file. *)

(* The next row goes into the batch, a full batch into the transaction. *)
LEMMA ReadsRow ==
  ASSUME IngestInv, ReadRow PROVE IngestInv'
<1> DEFINE text == file.text
           r == text.rows[place + 1]
           reason == Reason(text, r)
           row == Row(text, place + 1)
           filled == IF reason = "accepted" THEN batch \cup {row} ELSE batch
           more == IF reason = "accepted" /\ Unmapped(text, r) THEN 1 ELSE 0
<1>1. /\ phase = "reading" /\ place < Len(text.rows) /\ place' = place + 1
      /\ counts' = [counts EXCEPT ![reason] = @ + 1, !.unmapped = @ + more]
      /\ IF Cardinality(filled) >= BatchSize
           THEN pending' = pending \cup filled /\ batch' = {}
           ELSE batch' = filled /\ pending' = pending
      /\ UNCHANGED <<file, phase, before, bronze, plan>>
  BY DEF ReadRow
<1>2. place < Len(text.rows) /\ place' = place + 1
  BY <1>1
<1>3. phase' = "reading"
  BY <1>1
<1>4. text \in Texts /\ place \in Nat /\ counts \in Counts
  BY DEF IngestInv, BatchInv, ReadingInv
<1>5. reason \in Reasons
  BY HasReason
<1>6. row.row = place + 1
  BY DEF Row
<1>7. more \in {0, 1} /\ (reason # "accepted" => more = 0)
  OBVIOUS
<1> HIDE DEF r, reason, row, more
<1>8. /\ counts' \in Counts /\ counts'.unmapped = counts.unmapped + more
      /\ counts'.accepted = IF reason = "accepted" THEN counts.accepted + 1 ELSE counts.accepted
      /\ counts'.outside = IF reason = "outside" THEN counts.outside + 1 ELSE counts.outside
      /\ counts'.rejected =
           IF reason = "rejected" THEN counts.rejected + 1 ELSE counts.rejected
  BY <1>1, <1>4, <1>5, <1>7, RowCounted
<1>9. BatchInv'
  <2>1. filled = batch \/ filled = batch \cup {row}
    OBVIOUS
  <2> HIDE DEF filled
  <2>2. /\ IsFiniteSet(batch) /\ batch \cap pending = {}
        /\ \A x \in batch \cup pending : x.row \in 1..place
    BY DEF IngestInv, BatchInv
  <2>3. IsFiniteSet(filled) /\ Cardinality(filled) \in Nat
    BY <2>1, <2>2, FS_AddElement, FS_CardinalityType
  <2>4. row.row \notin 1..place /\ row.row \in 1..place' /\ 1..place \subseteq 1..place'
    BY <1>4, <1>6, <1>2
  <2>5. \A x \in filled \cup pending : x.row \in 1..place'
    BY <2>1, <2>2, <2>4
  <2>6. pending \cap filled = {}
    BY <2>1, <2>2, <2>4
  <2>7. /\ IsFiniteSet(batch') /\ Cardinality(batch') < BatchSize /\ batch' \cap pending' = {}
        /\ \A x \in batch' \cup pending' : x.row \in 1..place'
    <3>1. CASE Cardinality(filled) >= BatchSize
      <4>1. pending' = pending \cup filled /\ batch' = {}
        BY <1>1, <3>1
      <4>2. 0 < BatchSize
        BY EventIngestAssumption
      <4> QED
        BY <2>5, <4>1, <4>2, FS_EmptySet
    <3>2. CASE ~(Cardinality(filled) >= BatchSize)
      <4>1. batch' = filled /\ pending' = pending
        BY <1>1, <3>2
      <4>2. Cardinality(filled) < BatchSize
        <5>1. BatchSize \in Nat
          BY EventIngestAssumption
        <5> QED
          BY <2>3, <3>2, <5>1
      <4>3. IsFiniteSet(batch') /\ Cardinality(batch') < BatchSize
        BY <2>3, <4>1, <4>2
      <4> QED
        BY <2>5, <2>6, <4>1, <4>3
    <3> QED
      BY <3>1, <3>2
  <2>8. counts'.unmapped <= counts'.accepted
    <3>1. counts.unmapped \in Nat /\ counts.accepted \in Nat /\ counts.unmapped <= counts.accepted
      BY DEF IngestInv, BatchInv, Counts
    <3> QED
      BY <1>7, <1>8, <3>1
  <2>9. phase' \in {"statted", "hashed", "reading", "committed", "done", "failed"} /\ place' \in Nat
    BY <1>4, <1>2, <1>3
  <2> QED
    BY <1>8, <2>7, <2>8, <2>9 DEF BatchInv
<1>10. ASSUME MetadataMatches
      PROVE  /\ place' <= Len(text.rows) /\ Counted(text, place)'
             /\ pending' \cup batch' = RowsUpTo(text, place')
  <2>1. /\ Counted(text, place) /\ pending \cup batch = RowsUpTo(text, place)
    BY <1>1, <1>10 DEF IngestInv, ReadingInv
  <2>2. Len(text.rows) \in Nat
    BY <1>4, Numbered
  <2>3. \A why \in Reasons :
          Cardinality(WithReason(text, place + 1, why)) =
            IF reason = why THEN Cardinality(WithReason(text, place, why)) + 1
                            ELSE Cardinality(WithReason(text, place, why))
    BY <1>4, OneMore DEF reason, r
  <2>4. Counted(text, place)'
    <3>1. /\ counts'.accepted = Cardinality(WithReason(text, place + 1, "accepted"))
          /\ counts'.outside = Cardinality(WithReason(text, place + 1, "outside"))
          /\ counts'.rejected = Cardinality(WithReason(text, place + 1, "rejected"))
      BY <1>8, <2>1, <2>3 DEF Counted, Reasons
    <3> QED
      BY <1>1, <3>1 DEF Counted
  <2>5. WithReason(text, place + 1, "accepted") =
          IF reason = "accepted" THEN WithReason(text, place, "accepted") \cup {place + 1}
                                 ELSE WithReason(text, place, "accepted")
    BY <1>4, OneMore DEF reason, r
  <2>6. RowsUpTo(text, place + 1) =
          IF reason = "accepted" THEN RowsUpTo(text, place) \cup {row} ELSE RowsUpTo(text, place)
    BY <2>5 DEF RowsUpTo, row
  <2>7. pending' \cup batch' = pending \cup filled
    BY <1>1
  <2>8. place' <= Len(text.rows)
    BY <1>4, <1>2, <2>2
  <2>9. pending' \cup batch' = RowsUpTo(text, place')
    BY <1>1, <2>1, <2>6, <2>7
  <2> QED
    BY <2>4, <2>8, <2>9
<1>11. ReadingInv'
  BY <1>1, <1>10 DEF IngestInv, ReadingInv, MetadataMatches
<1>12. SeenInv'
  BY <1>1 DEF IngestInv, SeenInv
<1> QED
  BY <1>9, <1>11, <1>12 DEF IngestInv

(* The bytes are hashed; the file is opened if it has not moved. *)
LEMMA Starts ==
  ASSUME IngestInv, Hash \/ Begin PROVE IngestInv'
<1>1. BatchInv' /\ SeenInv'
  BY DEF Hash, Begin, IngestInv, BatchInv, SeenInv
<1>2. CASE Hash
  <2>1. /\ phase = "statted" /\ phase' = "hashed"
        /\ before' = [before EXCEPT !.text = file.text]
        /\ UNCHANGED <<file, place, batch, pending, counts>>
    BY <1>2 DEF Hash
  <2>2. /\ file.text \in Texts /\ file.stat \in Nat /\ before.stat \in Nat
        /\ before.stat <= file.stat
        /\ place = 0 /\ batch = {} /\ pending = {} /\ counts = NoCounts
        /\ before = [stat |-> before.stat, text |-> before.text]
    BY <2>1 DEF IngestInv, ReadingInv
  <2> DEFINE s == before.stat
             t == before.text
  <2>3. before = [stat |-> s, text |-> t]
    BY <2>2
  <2> HIDE DEF s, t
  <2>4. before' = [stat |-> s, text |-> file.text]
    BY <2>1, <2>3
  <2>5. before'.stat = s /\ before'.text = file.text
    BY <2>4
  <2>6. ReadingInv'
    BY <2>1, <2>2, <2>4, <2>5 DEF ReadingInv, s
  <2> QED
    BY <1>1, <2>6 DEF IngestInv
<1>3. CASE Begin
  <2>1. /\ phase = "hashed" /\ MetadataMatches /\ phase' = "reading"
        /\ UNCHANGED <<file, before, place, batch, pending, counts>>
    BY <1>3 DEF Begin
  <2>2. /\ file.text \in Texts /\ place = 0 /\ batch = {} /\ pending = {} /\ counts = NoCounts
    BY <2>1 DEF IngestInv, ReadingInv
  <2>3. Counted(file.text, 0) /\ pending \cup batch = RowsUpTo(file.text, 0)
    BY <2>2, NoRows, FS_EmptySet DEF Counted, NoCounts
  <2>4. Counted(file.text, place)'
    BY <2>1, <2>2, <2>3 DEF Counted
  <2>5. 0 <= Len(file.text.rows)
    BY <2>2, Numbered
  <2>6. ReadingInv'
    BY <2>1, <2>2, <2>3, <2>4, <2>5 DEF IngestInv, ReadingInv, MetadataMatches
  <2> QED
    BY <1>1, <2>6 DEF IngestInv
<1> QED
  BY <1>1, <1>2, <1>3 DEF IngestInv

(* What is committed is the text that was hashed. *)
LEMMA Commits ==
  ASSUME IngestInv, Commit
  PROVE  /\ IngestInv' /\ file.text \in Texts /\ bronze = {} /\ plan' = plan
         /\ bronze' = AcceptedRows(file.text)
<1>1. /\ phase = "reading" /\ place >= Len(file.text.rows) /\ MetadataMatches
      /\ bronze' = pending \cup batch /\ pending' = {} /\ batch' = {} /\ phase' = "committed"
      /\ UNCHANGED <<file, before, place, counts, plan>>
  BY DEF Commit
<1>2. /\ file.text \in Texts /\ before.text = file.text /\ place \in Nat
      /\ place <= Len(file.text.rows) /\ Counted(file.text, place)
      /\ pending \cup batch = RowsUpTo(file.text, place)
  BY <1>1 DEF IngestInv, ReadingInv, BatchInv
<1>3. place = Len(file.text.rows) /\ DOMAIN file.text.rows = 1..place
  BY <1>1, <1>2, Numbered
<1>4. RowsUpTo(file.text, place) = AcceptedRows(file.text)
  BY <1>3 DEF RowsUpTo, AcceptedRows, WithReason
<1>5. BatchInv'
  BY <1>1, FS_EmptySet, EventIngestAssumption DEF IngestInv, BatchInv
<1>6. ReadingInv'
  BY <1>1 DEF IngestInv, ReadingInv, MetadataMatches
<1>7. Counted(before.text, Len(before.text.rows))'
  BY <1>1, <1>2, <1>3 DEF Counted
<1>8. bronze = {} /\ plan = NoPlan
  BY <1>1 DEF IngestInv, SeenInv
<1>9. SeenInv'
  BY <1>1, <1>2, <1>4, <1>7, <1>8 DEF SeenInv
<1> QED
  BY <1>1, <1>2, <1>4, <1>5, <1>6, <1>8, <1>9 DEF IngestInv

(* The plan describes what was committed. *)
LEMMA Describes ==
  ASSUME IngestInv, Describe
  PROVE  /\ IngestInv' /\ before.text \in Texts /\ bronze = AcceptedRows(before.text)
         /\ plan = NoPlan /\ bronze' = bronze
         /\ plan' = [text |-> before.text, accepted |-> Count(before.text, "accepted"),
                     outside |-> Count(before.text, "outside"),
                     rejected |-> Count(before.text, "rejected")]
<1>1. /\ phase = "committed" /\ phase' = "done"
      /\ plan' = [text |-> before.text, accepted |-> counts.accepted,
                  outside |-> counts.outside, rejected |-> counts.rejected]
      /\ UNCHANGED <<file, before, place, batch, pending, counts, bronze>>
  BY DEF Describe
<1>2. /\ before.text \in Texts /\ bronze = AcceptedRows(before.text) /\ plan = NoPlan
      /\ Counted(before.text, Len(before.text.rows))
  BY <1>1 DEF IngestInv, SeenInv
<1>3. \A reason : WithReason(before.text, Len(before.text.rows), reason) =
        {i \in DOMAIN before.text.rows : Reason(before.text, before.text.rows[i]) = reason}
  BY <1>2, Numbered DEF WithReason
<1>4. /\ counts.accepted = Count(before.text, "accepted")
      /\ counts.outside = Count(before.text, "outside")
      /\ counts.rejected = Count(before.text, "rejected")
  BY <1>2, <1>3 DEF Counted, Count
<1>5. BatchInv' /\ ReadingInv' /\ SeenInv'
  BY <1>1 DEF IngestInv, BatchInv, ReadingInv, SeenInv, MetadataMatches
<1> QED
  BY <1>1, <1>2, <1>4, <1>5 DEF IngestInv

(* A failure rolls back what nobody has seen. *)
LEMMA Raises ==
  ASSUME IngestInv, Raise PROVE IngestInv'
<1>1. /\ phase \in {"statted", "hashed", "reading"} /\ phase' = "failed"
      /\ pending' = {} /\ batch' = {}
      /\ UNCHANGED <<file, before, place, counts, bronze, plan>>
  BY DEF Raise
<1>2. BatchInv'
  BY <1>1, FS_EmptySet, EventIngestAssumption DEF IngestInv, BatchInv
<1>3. ReadingInv' /\ SeenInv'
  BY <1>1 DEF IngestInv, ReadingInv, SeenInv, MetadataMatches
<1> QED
  BY <1>2, <1>3 DEF IngestInv

(* A replaced file has metadata it never had before. *)
LEMMA WritesFile ==
  ASSUME IngestInv, WriteFile PROVE IngestInv'
<1>1. PICK text \in Texts :
        /\ file' = [stat |-> file.stat + 1, text |-> text]
        /\ UNCHANGED <<phase, before, place, batch, pending, counts, bronze, plan>>
  BY DEF WriteFile
<1>2. file'.stat = file.stat + 1 /\ file'.text = text
  BY <1>1
<1>3. file.stat \in Nat /\ before.stat \in Nat /\ before.stat <= file.stat
  BY DEF IngestInv, ReadingInv
<1>4. ~MetadataMatches'
  BY <1>1, <1>2, <1>3 DEF MetadataMatches
<1>5. ReadingInv'
  BY <1>1, <1>2, <1>3, <1>4 DEF IngestInv, ReadingInv
<1>6. BatchInv' /\ SeenInv'
  BY <1>1 DEF IngestInv, BatchInv, SeenInv, Counted
<1> QED
  BY <1>5, <1>6 DEF IngestInv

(* At the start nothing is read of a file whose metadata have just been taken. *)
LEMMA IngestBegins == Init => IngestInv
<1> SUFFICES ASSUME Init PROVE IngestInv
  OBVIOUS
<1>1. file.stat = 0 /\ file.text \in Texts
  BY DEF Init
<1>2. NoCounts \in Counts /\ NoCounts.unmapped = 0 /\ NoCounts.accepted = 0
  BY DEF NoCounts, Counts
<1>3. BatchInv
  BY <1>2, FS_EmptySet, EventIngestAssumption DEF Init, BatchInv
<1>4. before.stat = 0 /\ before = [stat |-> before.stat, text |-> before.text]
  BY <1>1 DEF Init
<1>5. ReadingInv
  BY <1>1, <1>4 DEF Init, ReadingInv
<1>6. SeenInv
  BY DEF Init, SeenInv
<1> QED
  BY <1>3, <1>5, <1>6 DEF IngestInv

(* Reader and exporting program keep IngestInv between them. *)
LEMMA SpecIngest == Spec => []IngestInv
<1>1. IngestInv /\ UNCHANGED vars => IngestInv'
  BY DEF vars, IngestInv, BatchInv, ReadingInv, SeenInv, Counted, MetadataMatches
<1>2. IngestInv /\ Next => IngestInv'
  BY Starts, ReadsRow, Commits, Describes, Raises, WritesFile DEF Next, Read
<1> QED
  BY <1>1, <1>2, IngestBegins, PTL DEF Spec

(* Type correctness: a full batch never waits, no row is both waiting and inserted, and
   a row is counted under one heading only (actual_contracts.py:481-490). *)
THEOREM IngestTypeCorrect == Spec => []TypeOK
<1>1. IngestInv => TypeOK
  BY DEF IngestInv, BatchInv, TypeOK
<1> QED
  BY <1>1, SpecIngest, PTL

(* However the file moves while it is read in batches, others see nothing of it or all
   the rows of one version of it, and the plan describes that version: each step of the
   reader is a step of SourceIngest or changes nothing of it. *)
THEOREM IngestImplementsSource == Spec => ImplementsIngest
<1>1. Init => Promised!Init
  BY DEF Init, Promised!Init
<1>2. IngestInv /\ [Next]_vars => [Promised!Next]_Promised!vars
  <2> SUFFICES ASSUME IngestInv, [Next]_vars
               PROVE  Promised!Next \/ UNCHANGED Promised!vars
    OBVIOUS
  <2>1. CASE Commit
    BY <2>1, Commits DEF Promised!Next, Promised!Ingest
  <2>2. CASE Describe
    BY <2>2, Describes DEF Promised!Next, Promised!Describe
  <2>3. CASE UNCHANGED <<bronze, plan>>
    BY <2>3 DEF Promised!vars
  <2> QED
    BY <2>1, <2>2, <2>3 DEF Next, Read, Hash, Begin, ReadRow, Raise, WriteFile, vars
<1> QED
  BY <1>1, <1>2, SpecIngest, PTL DEF Spec, ImplementsIngest, Promised!Spec
================================================================================
