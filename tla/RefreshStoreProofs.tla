--------------------------- MODULE RefreshStoreProofs ---------------------------
(***************************************************************************)
(* Proofs about the generation store, for every set of keys and contents   *)
(* and any number of generations.                                          *)
(***************************************************************************)
EXTENDS RefreshStore, TLAPS

(* The state invariants, together: each is inductive only beside the others. *)
StoreInv ==
  /\ TypeOK
  /\ LineageSound
  /\ BronzeOneHop
  /\ NoErrorPublished

--------------------------------------------------------------------------------
(* The row a refresh inserts is a row of the table. *)
LEMMA PresentRowType ==
  ASSUME NEW v \in Version, NEW owner \in Gen
  PROVE  /\ PresentRow(v, owner) \in Row
         /\ PresentRow(v, owner).state = "present"
         /\ PresentRow(v, owner).content = v.content
         /\ PresentRow(v, owner).bronze = owner
         /\ PresentRow(v, owner) # NoRow
  BY DEF PresentRow, Row, Version, NoRow

(* The tables of refresh_store.py hold what their column constraints allow. *)
THEOREM TypeCorrect == Spec => []TypeOK
<1>1. Init => TypeOK
  BY DEF Init, TypeOK, Status, Row
<1>2. TypeOK /\ [Next]_vars => TypeOK'
  <2> SUFFICES ASSUME TypeOK, [Next]_vars PROVE TypeOK'
    OBVIOUS
  <2> USE DEF TypeOK
  <2>1. ASSUME NEW g \in Gen, StartGeneration(g) PROVE TypeOK'
    BY <2>1 DEF StartGeneration, Status
  <2>2. ASSUME NEW g \in Gen, NEW k \in Key, NEW v \in Version, NEW owner \in Gen,
               StageSource(g, k, v, owner)
        PROVE  TypeOK'
    BY <2>2, PresentRowType DEF StageSource
  <2>3. ASSUME NEW g \in Gen, NEW k \in Key, StageRemovedSource(g, k) PROVE TypeOK'
    BY <2>3 DEF StageRemovedSource, Row
  <2>4. ASSUME NEW g \in Gen, NEW batch \in SUBSET Severity,
               RecordQualityIssues(g, batch)
        PROVE  TypeOK'
    BY <2>4 DEF RecordQualityIssues
  <2>5. ASSUME NEW g \in Gen, ActivateGeneration(g) PROVE TypeOK'
    BY <2>5 DEF ActivateGeneration, Status
  <2>6. ASSUME NEW g \in Gen, FailGeneration(g) PROVE TypeOK'
    BY <2>6 DEF FailGeneration, Status
  <2>7. ASSUME NEW g \in Gen, RestorePreviousGeneration(g) PROVE TypeOK'
    BY <2>7 DEF RestorePreviousGeneration
  <2>8. CASE UNCHANGED vars
    BY <2>8 DEF vars
  <2> QED
    BY <2>1, <2>2, <2>3, <2>4, <2>5, <2>6, <2>7, <2>8 DEF Next
<1> QED
  BY <1>1, <1>2, PTL DEF Spec

--------------------------------------------------------------------------------
(* A step keeps the verdict of the ownership check: what it reads is a row of a
   generation that has succeeded, and no action writes such a row. *)
LEMMA OwnershipStable ==
  ASSUME TypeOK, [Next]_vars,
         NEW owner \in Gen, NEW k \in Key, NEW v, OwnsMatchingBronze(owner, k, v)
  PROVE  OwnsMatchingBronze(owner, k, v)'
<1> USE DEF OwnsMatchingBronze, Succeeded, Running, TypeOK
<1>1. ASSUME NEW g \in Gen, StartGeneration(g) PROVE OwnsMatchingBronze(owner, k, v)'
  BY <1>1 DEF StartGeneration, IsNextId, Gen
<1>2. ASSUME NEW g \in Gen, NEW j \in Key, NEW w \in Version, NEW o \in Gen,
             StageSource(g, j, w, o)
      PROVE  OwnsMatchingBronze(owner, k, v)'
  BY <1>2 DEF StageSource
<1>3. ASSUME NEW g \in Gen, NEW j \in Key, StageRemovedSource(g, j)
      PROVE  OwnsMatchingBronze(owner, k, v)'
  BY <1>3 DEF StageRemovedSource
<1>4. ASSUME NEW g \in Gen, NEW batch \in SUBSET Severity,
             RecordQualityIssues(g, batch)
      PROVE  OwnsMatchingBronze(owner, k, v)'
  BY <1>4 DEF RecordQualityIssues
<1>5. ASSUME NEW g \in Gen, ActivateGeneration(g)
      PROVE  OwnsMatchingBronze(owner, k, v)'
  BY <1>5 DEF ActivateGeneration
<1>6. ASSUME NEW g \in Gen, FailGeneration(g) PROVE OwnsMatchingBronze(owner, k, v)'
  BY <1>6 DEF FailGeneration
<1>7. ASSUME NEW g \in Gen, RestorePreviousGeneration(g)
      PROVE  OwnsMatchingBronze(owner, k, v)'
  BY <1>7 DEF RestorePreviousGeneration
<1>8. CASE UNCHANGED vars
  BY <1>8 DEF vars
<1> QED
  BY <1>1, <1>2, <1>3, <1>4, <1>5, <1>6, <1>7, <1>8 DEF Next

(* Every present row keeps an owner that vouches for it: only stage_source
   writes present rows, and it asks the owner first. *)
LEMMA BronzeOneHopStep ==
  ASSUME TypeOK, BronzeOneHop, [Next]_vars PROVE BronzeOneHop'
<1> SUFFICES ASSUME NEW h \in Gen, NEW j \in Key,
                    manifest'[h][j].state = "present", manifest'[h][j].bronze # h
             PROVE  OwnsMatchingBronze(manifest[h][j].bronze, j, manifest[h][j])'
  BY DEF BronzeOneHop, OwnsMatchingBronze, Succeeded
<1>1. ASSUME manifest'[h][j] = manifest[h][j]
      PROVE  OwnsMatchingBronze(manifest[h][j].bronze, j, manifest[h][j])'
  <2>1. PICK o \in Gen, r \in Row : r = manifest[h][j] /\ o = r.bronze
    BY <1>1 DEF TypeOK, Row, NoRow, RemovedRow
  <2>2. OwnsMatchingBronze(o, j, r)
    BY <1>1, <2>1 DEF BronzeOneHop, OwnsMatchingBronze
  <2>3. OwnsMatchingBronze(o, j, r)'
    BY <2>2, OwnershipStable
  <2> QED
    BY <1>1, <2>1, <2>3 DEF OwnsMatchingBronze, Succeeded
<1>2. ASSUME NEW g \in Gen, NEW k \in Key, NEW v \in Version, NEW owner \in Gen,
             StageSource(g, k, v, owner)
      PROVE  OwnsMatchingBronze(manifest[h][j].bronze, j, manifest[h][j])'
  <2>1. CASE h = g /\ j = k
    <3>1. manifest'[h][j] = PresentRow(v, owner)
      BY <1>2, <2>1 DEF StageSource, TypeOK
    <3>2. OwnsMatchingBronze(owner, j, v)
      BY <1>2, <2>1, <3>1, PresentRowType DEF StageSource
    <3>3. owner # g
      BY <2>1, <3>1, PresentRowType
    <3>4. /\ Succeeded(owner)'
          /\ manifest'[owner][j] = manifest[owner][j]
      BY <1>2, <3>2, <3>3 DEF StageSource, OwnsMatchingBronze, Succeeded, TypeOK
    <3> QED
      BY <3>1, <3>2, <3>4, PresentRowType DEF OwnsMatchingBronze, Succeeded
  <2>2. CASE ~(h = g /\ j = k)
    BY <1>1, <1>2, <2>2 DEF StageSource, TypeOK
  <2> QED
    BY <2>1, <2>2
<1>3. ASSUME NEW g \in Gen, NEW k \in Key, StageRemovedSource(g, k)
      PROVE  OwnsMatchingBronze(manifest[h][j].bronze, j, manifest[h][j])'
  <2>1. ~(h = g /\ j = k)
    BY <1>3 DEF StageRemovedSource, TypeOK, RemovedRow
  <2> QED
    BY <1>1, <1>3, <2>1 DEF StageRemovedSource, TypeOK
<1>4. CASE UNCHANGED manifest
  BY <1>1, <1>4
<1> QED
  BY <1>2, <1>3, <1>4
     DEF Next, vars, StartGeneration, RecordQualityIssues, ActivateGeneration,
         FailGeneration, RestorePreviousGeneration

(* A base is the pointer's value when a generation begins, so it succeeded and
   has a smaller id; nothing rewrites it, and nothing that succeeded changes. *)
LEMMA LineageSoundStep ==
  ASSUME TypeOK, LineageSound, [Next]_vars PROVE LineageSound'
<1> USE DEF TypeOK, LineageSound, Succeeded, Running, Gen, Null
<1>1. ASSUME NEW g \in Gen, StartGeneration(g) PROVE LineageSound'
  BY <1>1 DEF StartGeneration, IsNextId
<1>2. ASSUME NEW g \in Gen, NEW k \in Key, NEW v \in Version, NEW owner \in Gen,
             StageSource(g, k, v, owner)
      PROVE  LineageSound'
  BY <1>2 DEF StageSource
<1>3. ASSUME NEW g \in Gen, NEW k \in Key, StageRemovedSource(g, k)
      PROVE  LineageSound'
  BY <1>3 DEF StageRemovedSource
<1>4. ASSUME NEW g \in Gen, NEW batch \in SUBSET Severity,
             RecordQualityIssues(g, batch)
      PROVE  LineageSound'
  BY <1>4 DEF RecordQualityIssues
<1>5. ASSUME NEW g \in Gen, ActivateGeneration(g) PROVE LineageSound'
  BY <1>5 DEF ActivateGeneration
<1>6. ASSUME NEW g \in Gen, FailGeneration(g) PROVE LineageSound'
  BY <1>6 DEF FailGeneration
<1>7. ASSUME NEW g \in Gen, RestorePreviousGeneration(g) PROVE LineageSound'
  BY <1>7 DEF RestorePreviousGeneration
<1>8. CASE UNCHANGED vars
  BY <1>8 DEF vars
<1> QED
  BY <1>1, <1>2, <1>3, <1>4, <1>5, <1>6, <1>7, <1>8 DEF Next

(* A generation succeeds without a blocking issue, and issues are recorded only
   while it runs. *)
LEMMA NoErrorPublishedStep ==
  ASSUME TypeOK, NoErrorPublished, [Next]_vars PROVE NoErrorPublished'
<1> USE DEF TypeOK, NoErrorPublished, Succeeded, Running
<1>1. ASSUME NEW g \in Gen, StartGeneration(g) PROVE NoErrorPublished'
  BY <1>1 DEF StartGeneration
<1>2. ASSUME NEW g \in Gen, NEW batch \in SUBSET Severity,
             RecordQualityIssues(g, batch)
      PROVE  NoErrorPublished'
  BY <1>2 DEF RecordQualityIssues
<1>3. ASSUME NEW g \in Gen, ActivateGeneration(g) PROVE NoErrorPublished'
  BY <1>3 DEF ActivateGeneration
<1>4. ASSUME NEW g \in Gen, FailGeneration(g) PROVE NoErrorPublished'
  BY <1>4 DEF FailGeneration
<1>5. CASE UNCHANGED <<status, issues>>
  BY <1>5
<1> QED
  BY <1>1, <1>2, <1>3, <1>4, <1>5
     DEF Next, vars, StageSource, StageRemovedSource, RestorePreviousGeneration

(* The evidence tables and the pointer stay consistent under every sequence of
   calls of every process: lineage, Bronze ownership and blocking issues. *)
THEOREM StoreInvariant == Spec => []StoreInv
<1>1. Init => StoreInv
  <2>1. Init => TypeOK
    BY DEF Init, TypeOK, Status, Row
  <2>2. Init => LineageSound /\ NoErrorPublished
    BY DEF Init, LineageSound, NoErrorPublished, Succeeded
  <2>3. Init => BronzeOneHop
    BY DEF Init, BronzeOneHop, NoRow
  <2> QED
    BY <2>1, <2>2, <2>3 DEF StoreInv
<1>2. StoreInv /\ [Next]_vars /\ TypeOK' => StoreInv'
  BY BronzeOneHopStep, LineageSoundStep, NoErrorPublishedStep DEF StoreInv
<1> QED
  BY <1>1, <1>2, TypeCorrect, PTL DEF Spec

--------------------------------------------------------------------------------
(* Ancestry: the least closed set, unfolded one step, and its frame. *)
Up == [Gen -> Gen \cup {Null}]

LEMMA AncestryMember ==
  ASSUME NEW up \in Up, NEW g \in Gen
  PROVE  /\ g \in Ancestry(up, g)
         /\ Ancestry(up, g) \subseteq Gen
         /\ Closed(up, Ancestry(up, g))
<1>1. g # Null
  BY DEF Gen, Null
<1>2. g \in Ancestry(up, g) /\ Ancestry(up, g) \subseteq Gen
  BY <1>1 DEF Ancestry
<1>3. ASSUME NEW x \in Ancestry(up, g), up[x] # Null PROVE up[x] \in Ancestry(up, g)
  <2>1. up[x] \in Gen
    BY <1>2, <1>3 DEF Up
  <2>2. ASSUME NEW S \in SUBSET Gen, g \in S, Closed(up, S) PROVE up[x] \in S
    <3>1. x \in S
      BY <1>1, <1>3, <2>2 DEF Ancestry
    <3> QED
      BY <3>1, <1>3, <2>2 DEF Closed
  <2> QED
    BY <2>1, <2>2, <1>1 DEF Ancestry
<1> QED
  BY <1>2, <1>3 DEF Closed

LEMMA AncestryLeast ==
  ASSUME NEW up, NEW g \in Gen,
         NEW S \in SUBSET Gen, g \in S, Closed(up, S)
  PROVE  Ancestry(up, g) \subseteq S
  BY DEF Ancestry, Gen, Null

LEMMA AncestryInside ==
  ASSUME NEW up \in Up, NEW g \in Gen, NEW a \in Ancestry(up, g)
  PROVE  a \in Gen /\ Ancestry(up, a) \subseteq Ancestry(up, g)
  BY AncestryMember, AncestryLeast

LEMMA AncestryUnfold ==
  ASSUME NEW up \in Up, NEW g \in Gen
  PROVE  Ancestry(up, g) = {g} \cup Ancestry(up, up[g])
<1>1. CASE up[g] = Null
  <2>1. Closed(up, {g})
    BY <1>1 DEF Closed
  <2>2. Ancestry(up, g) \subseteq {g}
    BY <2>1, AncestryLeast
  <2>3. Ancestry(up, up[g]) = {}
    BY <1>1 DEF Ancestry
  <2> QED
    BY <2>2, <2>3, AncestryMember
<1>2. CASE up[g] # Null
  <2>1. up[g] \in Gen
    BY <1>2 DEF Up
  <2> DEFINE S == {g} \cup Ancestry(up, up[g])
  <2>2. S \subseteq Gen /\ Closed(up, S)
    BY <2>1, AncestryMember DEF Closed
  <2>3. Ancestry(up, g) \subseteq S
    BY <2>2, AncestryLeast
  <2>4. up[g] \in Ancestry(up, g)
    BY <1>2, AncestryMember DEF Closed
  <2>5. S \subseteq Ancestry(up, g)
    BY <2>4, AncestryInside, AncestryMember
  <2> QED
    BY <2>3, <2>5
<1> QED
  BY <1>1, <1>2

LEMMA AncestryFrame ==
  ASSUME NEW up \in Up, NEW new \in Up, NEW g \in Gen \cup {Null},
         \A a \in Ancestry(up, g) : new[a] = up[a]
  PROVE  Ancestry(new, g) = Ancestry(up, g)
<1>1. CASE g = Null
  BY <1>1 DEF Ancestry
<1>2. CASE g \in Gen
  <2>1. Closed(new, Ancestry(up, g))
    BY <1>2, AncestryMember DEF Closed
  <2>2. Ancestry(new, g) \subseteq Ancestry(up, g)
    BY <1>2, <2>1, AncestryMember, AncestryLeast
  <2>3. Closed(up, Ancestry(new, g))
    BY <1>2, <2>2, AncestryMember DEF Closed
  <2>4. Ancestry(up, g) \subseteq Ancestry(new, g)
    BY <1>2, <2>3, AncestryMember, AncestryLeast
  <2> QED
    BY <2>2, <2>4
<1> QED
  BY <1>1, <1>2

(* Everything in the lineage of a generation that succeeded has succeeded. *)
LEMMA LineageSucceeded ==
  ASSUME TypeOK, LineageSound, NEW g \in Gen \cup {Null},
         g # Null => Succeeded(g)
  PROVE  \A a \in Lineage(g) : a \in Gen /\ Succeeded(a)
<1>1. CASE g = Null
  BY <1>1 DEF Lineage, Ancestry
<1>2. CASE g \in Gen
  <2> DEFINE S == {a \in Gen : Succeeded(a)}
  <2>1. Closed(base, S)
    BY DEF Closed, LineageSound, TypeOK
  <2>2. g \in S
    BY <1>2 DEF Gen, Null
  <2> QED
    BY <1>2, <2>1, <2>2, AncestryLeast DEF Lineage
<1> QED
  BY <1>1, <1>2

--------------------------------------------------------------------------------
(* What a step may do to finished generations: nothing. *)
LEMMA FrozenStep ==
  ASSUME TypeOK, [Next]_vars, NEW h \in Gen, Finished(h)
  PROVE  /\ status'[h] = status[h]
         /\ base'[h] = base[h]
         /\ manifest'[h] = manifest[h]
         /\ issues'[h] = issues[h]
<1> USE DEF TypeOK, Finished, Running
<1>1. ASSUME NEW g \in Gen, StartGeneration(g)
      PROVE  status'[h] = status[h] /\ base'[h] = base[h] /\ UNCHANGED <<manifest, issues>>
  BY <1>1 DEF StartGeneration, IsNextId, Gen
<1>2. ASSUME NEW g \in Gen, NEW k \in Key, NEW v \in Version, NEW owner \in Gen,
             StageSource(g, k, v, owner)
      PROVE  manifest'[h] = manifest[h] /\ UNCHANGED <<status, base, issues>>
  BY <1>2 DEF StageSource
<1>3. ASSUME NEW g \in Gen, NEW k \in Key, StageRemovedSource(g, k)
      PROVE  manifest'[h] = manifest[h] /\ UNCHANGED <<status, base, issues>>
  BY <1>3 DEF StageRemovedSource
<1>4. ASSUME NEW g \in Gen, NEW batch \in SUBSET Severity,
             RecordQualityIssues(g, batch)
      PROVE  issues'[h] = issues[h] /\ UNCHANGED <<status, base, manifest>>
  BY <1>4 DEF RecordQualityIssues
<1>5. ASSUME NEW g \in Gen, ActivateGeneration(g)
      PROVE  status'[h] = status[h] /\ UNCHANGED <<base, manifest, issues>>
  BY <1>5 DEF ActivateGeneration
<1>6. ASSUME NEW g \in Gen, FailGeneration(g)
      PROVE  status'[h] = status[h] /\ UNCHANGED <<base, manifest, issues>>
  BY <1>6 DEF FailGeneration
<1>7. ASSUME NEW g \in Gen, RestorePreviousGeneration(g)
      PROVE  UNCHANGED <<status, base, manifest, issues>>
  BY <1>7 DEF RestorePreviousGeneration
<1>8. CASE UNCHANGED vars
  BY <1>8 DEF vars
<1> QED
  BY <1>1, <1>2, <1>3, <1>4, <1>5, <1>6, <1>7, <1>8 DEF Next

(* The parts of the invariant the runs check, each for its own sake: the lineages
   active_source walks, the one hop to Bronze rows that canonical facts take, and
   the promise that blocking findings are never published. *)
THEOREM LineagesAreSound == Spec => []LineageSound
BY StoreInvariant, PTL DEF StoreInv

(* Borrowed Bronze rows belong to a succeeded generation that owns them. *)
THEOREM BronzeIsOneHopAway == Spec => []BronzeOneHop
BY StoreInvariant, PTL DEF StoreInv

(* No generation with an error finding was ever made current. *)
THEOREM ErrorsAreNeverPublished == Spec => []NoErrorPublished
BY StoreInvariant, PTL DEF StoreInv

(* Evidence of a finished generation is never rewritten (the _running check of
   every method of refresh_store.py). *)
THEOREM FinishedStaysFrozen == Spec => FinishedFrozen
<1> DEFINE Frozen == \A g \in Gen : Finished(g) =>
                       /\ status'[g] = status[g]
                       /\ base'[g] = base[g]
                       /\ manifest'[g] = manifest[g]
                       /\ issues'[g] = issues[g]
<1>1. TypeOK /\ [Next]_vars => Frozen
  BY FrozenStep
<1>2. TypeOK /\ [Next]_vars => [Frozen]_vars
  BY <1>1
<1> QED
  BY <1>2, TypeCorrect, PTL DEF Spec, FinishedFrozen

(* The pointer moves by an activation or by an undo; nothing else makes a
   generation succeed. *)
LEMMA PointerStep ==
  ASSUME TypeOK, [Next]_vars
  PROVE  \/ \E g \in Gen : ActivateGeneration(g)
         \/ \E g \in Gen : RestorePreviousGeneration(g)
         \/ /\ active' = active
            /\ \A g \in Gen : Succeeded(g)' <=> Succeeded(g)
<1> USE DEF Succeeded
<1>1. ASSUME NEW g \in Gen, StartGeneration(g)
      PROVE  active' = active /\ \A h \in Gen : Succeeded(h)' <=> Succeeded(h)
  <2>1. status[g] = "unused"
    BY <1>1 DEF StartGeneration, IsNextId, Gen
  <2> QED
    BY <1>1, <2>1 DEF StartGeneration, TypeOK
<1>2. ASSUME NEW g \in Gen, FailGeneration(g)
      PROVE  active' = active /\ \A h \in Gen : Succeeded(h)' <=> Succeeded(h)
  BY <1>2 DEF FailGeneration, Running, TypeOK
<1>3. CASE UNCHANGED <<active, status>>
  BY <1>3
<1> QED
  BY <1>1, <1>2, <1>3
     DEF Next, vars, StageSource, StageRemovedSource, RecordQualityIssues

(* The base of a generation, and with it its lineage, outlives the step. *)
LEMMA LineageFrame ==
  ASSUME TypeOK, TypeOK', LineageSound, [Next]_vars, NEW g \in Gen \cup {Null},
         g # Null => Succeeded(g)
  PROVE  Ancestry(base', g) = Ancestry(base, g)
<1>1. base \in Up /\ base' \in Up
  BY DEF TypeOK, Up
<1>2. \A a \in Ancestry(base, g) : base'[a] = base[a]
  BY LineageSucceeded, FrozenStep DEF Lineage, Finished, Succeeded
<1> QED
  BY <1>1, <1>2, AncestryFrame

(* An activation puts its generation on top of the current lineage. *)
LEMMA ActivationLineage ==
  ASSUME TypeOK, NEW g \in Gen, ActivateGeneration(g)
  PROVE  /\ base' = base
         /\ Lineage(active)' = {g} \cup Lineage(active)
<1>1. base' = base /\ active' = g /\ active = base[g]
  BY DEF ActivateGeneration
<1>2. base \in Up
  BY DEF TypeOK, Up
<1> QED
  BY <1>1, <1>2, AncestryUnfold DEF Lineage

(* One step of the next theorem. *)
LEMMA UndoneStaysStep ==
  ASSUME TypeOK, TypeOK', LineageSound, [Next]_vars,
         NEW h \in Gen, Succeeded(h), h \notin Lineage(active)
  PROVE  h \notin Lineage(active)'
<1>1. ASSUME NEW g \in Gen, ActivateGeneration(g) PROVE h \notin Lineage(active)'
  <2>1. h # g
    BY <1>1 DEF ActivateGeneration, Running, Succeeded
  <2> QED
    BY <1>1, <2>1, ActivationLineage
<1>2. ASSUME NEW g \in Gen, RestorePreviousGeneration(g)
      PROVE  h \notin Lineage(active)'
  <2>1. active = g /\ active' = base[g] /\ base' = base
    BY <1>2 DEF RestorePreviousGeneration
  <2>2. base \in Up
    BY DEF TypeOK, Up
  <2>3. Lineage(active) = {g} \cup Ancestry(base, base[g])
    BY <2>1, <2>2, AncestryUnfold DEF Lineage
  <2> QED
    BY <2>1, <2>3 DEF Lineage
<1>3. CASE active' = active
  <2>1. active \in Gen \cup {Null} /\ (active # Null => Succeeded(active))
    BY DEF TypeOK, LineageSound
  <2>2. Ancestry(base', active) = Ancestry(base, active)
    BY <2>1, LineageFrame
  <2> QED
    BY <1>3, <2>2 DEF Lineage
<1> QED
  BY <1>1, <1>2, <1>3, PointerStep

(* A generation that was undone never comes back into the current lineage:
   activate_generation compares the pointer with the base it read. *)
THEOREM UndoneNeverReturns == Spec => UndoneStaysUndone
<1> DEFINE Stays == \A g \in Gen : Succeeded(g) /\ g \notin Lineage(active) =>
                      g \notin Lineage(active)'
<1>1. TypeOK /\ TypeOK' /\ LineageSound /\ [Next]_vars => [Stays]_vars
  BY UndoneStaysStep
<1>2. StoreInv => TypeOK /\ LineageSound
  BY DEF StoreInv
<1> QED
  BY <1>1, <1>2, StoreInvariant, PTL DEF Spec, UndoneStaysUndone

--------------------------------------------------------------------------------
(* Resolving a source through a lineage. *)

(* A generation that holds rows for the key in its lineage has a nearest one:
   were no holder nearest, the generations from which all holders can still be
   reached would be closed under base, and a holder among them is nearest. *)
LEMMA NearestExists ==
  ASSUME NEW up \in Up, NEW g \in Gen,
         NEW H \in SUBSET Ancestry(up, g), H # {}
  PROVE  \E a \in H : H \subseteq Ancestry(up, a)
<1> SUFFICES ASSUME \A a \in H : ~(H \subseteq Ancestry(up, a)) PROVE FALSE
  OBVIOUS
<1> DEFINE S == {x \in Gen : H \subseteq Ancestry(up, x)}
<1>1. g \in S
  OBVIOUS
<1>2. ASSUME NEW x \in S, up[x] # Null PROVE up[x] \in S
  <2>1. x \notin H
    OBVIOUS
  <2>2. Ancestry(up, x) = {x} \cup Ancestry(up, up[x])
    BY AncestryUnfold
  <2>3. up[x] \in Gen
    BY <1>2 DEF Up
  <2> QED
    BY <2>1, <2>2, <2>3
<1>3. Ancestry(up, g) \subseteq S
  BY <1>1, <1>2, AncestryLeast DEF Closed
<1> QED
  BY <1>3

(* What active_source returns is a version or nothing. *)
LEMMA ResolveType ==
  ASSUME TypeOK, NEW g \in Gen, NEW k \in Key
  PROVE  Resolve(g, k) \in Version \cup {NoVersion}
<1> DEFINE holders == {a \in Lineage(g) : manifest[a][k] # NoRow}
           row == NearestRow(Lineage(g), k)
<1>1. base \in Up
  BY DEF TypeOK, Up
<1>2. Lineage(g) \subseteq Gen
  BY <1>1, AncestryMember DEF Lineage
<1>3. row \in Row
  <2>1. CASE holders = {}
    BY <2>1 DEF NearestRow, Row
  <2>2. CASE holders # {}
    <3>1. \E a \in holders : holders \subseteq Lineage(a)
      <4>1. holders \in SUBSET Ancestry(base, g)
        BY DEF Lineage
      <4> HIDE DEF holders
      <4> QED
        BY <1>1, <2>2, <4>1, NearestExists DEF Lineage
    <3> DEFINE near == CHOOSE a \in holders : holders \subseteq Lineage(a)
    <3>2. near \in holders
      BY <3>1
    <3>3. row = manifest[near][k]
      BY <2>2 DEF NearestRow
    <3> HIDE DEF near, row
    <3> QED
      BY <1>2, <3>2, <3>3 DEF TypeOK
  <2> QED
    BY <2>1, <2>2
<1>4. Resolve(g, k) = IF row.state = "present"
                        THEN [content |-> row.content, stat |-> row.stat]
                        ELSE NoVersion
  BY DEF Resolve
<1> HIDE DEF row
<1> QED
  BY <1>3, <1>4 DEF Row, Version, NoRow, RemovedRow

(* Resolution reads nothing but the lineage and its rows. *)
LEMMA ResolveFrame ==
  ASSUME TypeOK, NEW g \in Gen \cup {Null}, NEW h, NEW k \in Key,
         {a \in Lineage(g) : manifest[a][k] # NoRow}
           = {a \in Lineage(h)' : manifest'[a][k] # NoRow},
         \A a \in Lineage(g) : manifest[a][k] # NoRow =>
           manifest'[a] = manifest[a] /\ Lineage(a)' = Lineage(a)
  PROVE  Resolve(h, k)' = Resolve(g, k)
<1> DEFINE H == {a \in Lineage(g) : manifest[a][k] # NoRow}
<1>1. NearestRow(Lineage(h), k)' = NearestRow(Lineage(g), k)
  <2>1. CASE H = {}
    BY <2>1 DEF NearestRow
  <2>2. CASE H # {}
    <3>1. NearestRow(Lineage(g), k)
            = manifest[CHOOSE a \in H : H \subseteq Lineage(a)][k]
      BY <2>2 DEF NearestRow
    <3>2. NearestRow(Lineage(h), k)'
            = manifest'[CHOOSE a \in H : H \subseteq Lineage(a)'][k]
      BY <2>2 DEF NearestRow
    <3>3. \A a \in H : manifest'[a] = manifest[a] /\ Lineage(a)' = Lineage(a)
      OBVIOUS
    <3>4. (CHOOSE a \in H : H \subseteq Lineage(a)')
            = (CHOOSE a \in H : H \subseteq Lineage(a))
      BY <3>3
    <3>5. \E a \in H : H \subseteq Lineage(a)
      <4>1. base \in Up
        BY DEF TypeOK, Up
      <4>2. g \in Gen /\ H \in SUBSET Ancestry(base, g)
        BY <2>2 DEF Lineage, Ancestry
      <4> HIDE DEF H
      <4> QED
        BY <2>2, <4>1, <4>2, NearestExists DEF Lineage
    <3> DEFINE near == CHOOSE a \in H : H \subseteq Lineage(a)
    <3>6. near \in H
      BY <3>5
    <3>7. manifest'[near] = manifest[near]
      BY <3>3, <3>6
    <3> HIDE DEF near
    <3> QED
      BY <3>1, <3>2, <3>4, <3>7 DEF near
  <2> QED
    BY <2>1, <2>2
<1> QED
  BY <1>1 DEF Resolve

(* A published cut keeps its value: its whole lineage succeeded, so no step
   writes a row or a base that resolving it reads. *)
LEMMA PublishedCutFrame ==
  ASSUME TypeOK, TypeOK', LineageSound, [Next]_vars,
         NEW g \in Gen, Succeeded(g), NEW k \in Key
  PROVE  Resolve(g, k)' = Resolve(g, k)
<1>1. \A a \in Lineage(g) : a \in Gen /\ Succeeded(a)
  BY LineageSucceeded
<1>2. \A a \in Lineage(g) : manifest'[a] = manifest[a]
  BY <1>1, FrozenStep DEF Finished, Succeeded
<1>3. \A a \in Lineage(g) : Lineage(a)' = Lineage(a)
  BY <1>1, LineageFrame DEF Lineage
<1>4. Lineage(g)' = Lineage(g)
  BY LineageFrame DEF Lineage
<1> QED
  BY <1>2, <1>3, <1>4, ResolveFrame

(* An activation leaves every source its generation did not stage as it was. *)
LEMMA UnstagedStep ==
  ASSUME TypeOK, NEW g \in Gen, ActivateGeneration(g),
         NEW k \in Key, manifest[g][k] = NoRow
  PROVE  ActiveSource(k)' = ActiveSource(k)
<1>1. base' = base /\ manifest' = manifest /\ active' = g
  BY DEF ActivateGeneration
<1>2. Lineage(g)' = {g} \cup Lineage(active)
  BY <1>1, ActivationLineage DEF Lineage
<1>3. {a \in Lineage(active) : manifest[a][k] # NoRow}
        = {a \in Lineage(g)' : manifest'[a][k] # NoRow}
  BY <1>1, <1>2
<1>4. \A a \in Lineage(active) : manifest'[a] = manifest[a] /\ Lineage(a)' = Lineage(a)
  BY <1>1 DEF Lineage
<1>5. active \in Gen \cup {Null}
  BY DEF TypeOK
<1>6. Resolve(g, k)' = Resolve(active, k)
  BY <1>3, <1>4, <1>5, ResolveFrame
<1> QED
  BY <1>1, <1>6 DEF ActiveSource

(* What another refresh published is not lost: activate_generation moves only
   the sources its own generation staged. *)
THEOREM UnstagedSourcesKeep == Spec => OnlyStagedKeysMove
<1> DEFINE Keeps == \A g \in Gen : Running(g) /\ Succeeded(g)' =>
                      \A k \in Key :
                        manifest[g][k] = NoRow => ActiveSource(k)' = ActiveSource(k)
<1>1. ASSUME TypeOK, [Next]_vars, NEW g \in Gen, Running(g), Succeeded(g)'
      PROVE  ActivateGeneration(g)
  <2>1. ~Succeeded(g)
    BY <1>1 DEF Running, Succeeded
  <2>2. ASSUME NEW h \in Gen, ActivateGeneration(h) PROVE h = g
    BY <1>1, <2>1, <2>2 DEF ActivateGeneration, Succeeded, TypeOK
  <2>3. ASSUME NEW h \in Gen, RestorePreviousGeneration(h) PROVE FALSE
    BY <1>1, <2>1, <2>3 DEF RestorePreviousGeneration, Succeeded
  <2> QED
    BY <1>1, <2>1, <2>2, <2>3, PointerStep
<1>2. TypeOK /\ [Next]_vars => [Keeps]_vars
  BY <1>1, UnstagedStep
<1> QED
  BY <1>2, TypeCorrect, PTL DEF Spec, OnlyStagedKeysMove

--------------------------------------------------------------------------------
(* The store implements ActiveCut. *)

(* Of a generation whose success does not change, the abstract cell sees no
   change. *)
LEMMA CellFrame ==
  ASSUME TypeOK, TypeOK', LineageSound, [Next]_vars,
         NEW g \in Gen, Succeeded(g)' <=> Succeeded(g)
  PROVE  BaseOf(g)' = BaseOf(g) /\ CutOf(g)' = CutOf(g)
<1>1. CASE Succeeded(g)
  <2>1. \A k \in Key : Resolve(g, k)' = Resolve(g, k)
    BY <1>1, PublishedCutFrame
  <2>2. base'[g] = base[g]
    BY <1>1, FrozenStep DEF Finished, Succeeded
  <2> QED
    BY <1>1, <2>1, <2>2 DEF BaseOf, CutOf
<1>2. CASE ~Succeeded(g)
  BY <1>2 DEF BaseOf, CutOf
<1> QED
  BY <1>1, <1>2

LEMMA ActivationPublishes ==
  ASSUME TypeOK, TypeOK', LineageSound, NEW g \in Gen, ActivateGeneration(g)
  PROVE  Cuts!Next
<1> DEFINE value == [k \in Key |-> Resolve(g, k)']
<1>1. [Next]_vars
  BY DEF Next
<1>2. Running(g) /\ ~Succeeded(g) /\ Succeeded(g)' /\ active' = g /\ base'[g] = active
  BY DEF ActivateGeneration, Running, Succeeded, TypeOK
<1>3. \A h \in Gen : h # g => (Succeeded(h)' <=> Succeeded(h))
  BY DEF ActivateGeneration, Succeeded, TypeOK
<1>4. \A h \in Gen : h # g => BaseOf(h)' = BaseOf(h) /\ CutOf(h)' = CutOf(h)
  BY <1>1, <1>3, CellFrame
<1>5. BaseOf(g)' = active
  BY <1>2 DEF BaseOf
<1>6. CutOf(g) = NoCut /\ CutOf(g)' = value
  BY <1>2 DEF CutOf
<1>7. value \in [Key -> Version \cup {NoVersion}]
  <2>1. \A k \in Key : Resolve(g, k)' = Resolve(g, k)
    BY ResolveFrame DEF ActivateGeneration, Lineage
  <2> QED
    BY <2>1, ResolveType
<1>8. Cuts!Publish(g, value)
  BY <1>2, <1>4, <1>5, <1>6 DEF Cuts!Publish
<1> QED
  BY <1>7, <1>8 DEF Cuts!Next

LEMMA RestoreUndoes ==
  ASSUME TypeOK, TypeOK', LineageSound, NEW g \in Gen, RestorePreviousGeneration(g)
  PROVE  Cuts!Next
<1>1. [Next]_vars
  BY DEF Next
<1>2. active = g /\ active # Null /\ active' = BaseOf(active)
  BY DEF RestorePreviousGeneration, BaseOf, Gen, Null
<1>3. \A h \in Gen : Succeeded(h)' <=> Succeeded(h)
  BY DEF RestorePreviousGeneration, Succeeded
<1>4. \A h \in Gen : BaseOf(h)' = BaseOf(h) /\ CutOf(h)' = CutOf(h)
  BY <1>1, <1>3, CellFrame
<1> QED
  BY <1>2, <1>4 DEF Cuts!Next, Cuts!Undo

(* Every step of the store is a publication on top of the current cut, the
   undoing of one, or invisible to readers; a published cut keeps its value. *)
THEOREM StoreImplementsActiveCut == Spec => ImplementsActiveCut
<1>1. Init => Cuts!Init
  BY DEF Init, Cuts!Init, BaseOf, CutOf, Succeeded
<1>2. TypeOK /\ TypeOK' /\ LineageSound /\ [Next]_vars => [Cuts!Next]_(Cuts!vars)
  <2> SUFFICES ASSUME TypeOK, TypeOK', LineageSound, [Next]_vars
               PROVE  [Cuts!Next]_(Cuts!vars)
    OBVIOUS
  <2>1. CASE \E g \in Gen : ActivateGeneration(g)
    BY <2>1, ActivationPublishes
  <2>2. CASE \E g \in Gen : RestorePreviousGeneration(g)
    BY <2>2, RestoreUndoes
  <2>3. CASE active' = active /\ \A g \in Gen : Succeeded(g)' <=> Succeeded(g)
    <3>1. \A g \in Gen : BaseOf(g)' = BaseOf(g) /\ CutOf(g)' = CutOf(g)
      BY <2>3, CellFrame
    <3> QED
      BY <2>3, <3>1 DEF Cuts!vars
  <2> QED
    BY <2>1, <2>2, <2>3, PointerStep
<1>3. StoreInv => TypeOK /\ LineageSound
  BY DEF StoreInv
<1> QED
  BY <1>1, <1>2, <1>3, StoreInvariant, PTL DEF Spec, ImplementsActiveCut, Cuts!Spec
================================================================================
