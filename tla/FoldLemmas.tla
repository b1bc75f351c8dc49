------------------------------- MODULE FoldLemmas ------------------------------
(***************************************************************************)
(* What the folds of the community modules compute.  Their definitions     *)
(* take the elements of a set in the order of a CHOOSE, by a recursion over *)
(* its subsets; here such a recursion has a solution, a sum does not depend *)
(* on the order, and a fold over a sequence takes its elements one by one.  *)
(***************************************************************************)
EXTENDS Integers, FiniteSets, FiniteSetsExt, FiniteSetTheorems, TLAPS

First(s) == CHOOSE x \in s : TRUE

(* Of any sets of members of a finite set there is one that contains no other. *)
LEMMA SmallestSet ==
  ASSUME NEW S, IsFiniteSet(S), NEW F \in SUBSET (SUBSET S), F # {}
  PROVE  \E T \in F : \A U \in F : U \subseteq T => U = T
<1>1. IsWellFoundedOn(StrictSubsetOrdering(S), FiniteSubsetsOf(S))
  BY FS_StrictSubsetOrderingWellFounded
<1>2. F \subseteq FiniteSubsetsOf(S)
  BY FS_FiniteSubsetsOfFinite
<1>3. PICK T \in F : \A U \in F : ~(<<U, T>> \in StrictSubsetOrdering(S))
  BY <1>1, <1>2, WFMin
<1>4. ASSUME NEW U \in F, U \subseteq T, U # T PROVE FALSE
  BY <1>3, <1>4 DEF StrictSubsetOrdering
<1> QED
  BY <1>4

(* Of any natural numbers there is a least one. *)
LEMMA LeastNumber ==
  ASSUME NEW F \in SUBSET Nat, F # {}
  PROVE  \E n \in F : \A m \in F : n <= m
<1>1. PICK n \in F : \A m \in F : ~(<<m, n>> \in OpToRel(<, Nat))
  BY NatLessThanWellFounded, WFMin
<1>2. ASSUME NEW m \in F, m < n PROVE FALSE
  BY <1>1, <1>2 DEF OpToRel
<1> QED
  BY <1>2

(* A function takes finitely many values on a finite set. *)
LEMMA FiniteImage ==
  ASSUME NEW S, IsFiniteSet(S), NEW f, NEW T, T = {f[x] : x \in S}
  PROVE  IsFiniteSet(T)
<1> DEFINE g == [x \in S |-> f[x]]
<1>1. g \in Surjection(S, T)
  BY DEF Surjection
<1> QED
  BY <1>1, FS_Surjection

(* A function defined by recursion over the subsets of S: pick says which element is
   taken from a set, step what it adds to what the rest of the set comes to. *)
Recursion(it, step, pick, base, S) ==
  it = [s \in SUBSET S |-> IF s = {} THEN base ELSE step[<<it[s \ {pick[s]}], pick[s]>>]]

(* There is one if S is finite: it is built up by the size of the sets. *)
LEMMA RecursionExists ==
  ASSUME NEW step, NEW pick, NEW base, NEW S, IsFiniteSet(S),
         \A s \in SUBSET S : s # {} => pick[s] \in s
  PROVE  \E it : Recursion(it, step, pick, base, S)
<1> DEFINE Sized(n) == {s \in SUBSET S : Cardinality(s) <= n}
           UpTo(h, n) == h = [s \in Sized(n) |->
                                IF s = {} THEN base ELSE step[<<h[s \ {pick[s]}], pick[s]>>]]
           Without == {n \in Nat : ~\E h : UpTo(h, n)}
<1>1. \A s \in SUBSET S : /\ IsFiniteSet(s) /\ Cardinality(s) \in Nat
                          /\ Cardinality(s) <= Cardinality(S)
                          /\ Cardinality(s) = 0 <=> s = {}
  BY FS_Subset, FS_CardinalityType, FS_EmptySet
<1>2. \A s \in SUBSET S : s # {} =>
        /\ pick[s] \in s /\ s \ {pick[s]} \in SUBSET S
        /\ Cardinality(s \ {pick[s]}) = Cardinality(s) - 1
  <2> SUFFICES ASSUME NEW s \in SUBSET S, s # {}
               PROVE  /\ pick[s] \in s /\ s \ {pick[s]} \in SUBSET S
                      /\ Cardinality(s \ {pick[s]}) = Cardinality(s) - 1
    OBVIOUS
  <2> QED
    BY <1>1, FS_RemoveElement
<1>3. UpTo([s \in Sized(0) |-> base], 0)
  <2>1. \A s \in Sized(0) : s = {}
    BY <1>1
  <2> QED
    BY <2>1
<1>4. ASSUME NEW n \in Nat, n # 0, NEW h, UpTo(h, n - 1) PROVE \E k : UpTo(k, n)
  <2> DEFINE k == [s \in Sized(n) |->
                     IF s = {} THEN base ELSE step[<<h[s \ {pick[s]}], pick[s]>>]]
  <2>1. \A s \in Sized(n - 1) : k[s] = h[s]
    <3>1. Sized(n - 1) \subseteq Sized(n)
      BY <1>1, <1>4
    <3> QED
      BY <3>1, <1>4
  <2>2. ASSUME NEW s \in Sized(n), s # {} PROVE s \ {pick[s]} \in Sized(n - 1)
    BY <1>1, <1>2, <2>2, <1>4
  <2>3. \A s \in Sized(n) :
          k[s] = IF s = {} THEN base ELSE step[<<k[s \ {pick[s]}], pick[s]>>]
    BY <2>1, <2>2
  <2> HIDE DEF Sized
  <2>4. UpTo(k, n)
    BY <2>3
  <2> QED
    BY <2>4
<1>5. Without = {}
  <2> SUFFICES ASSUME Without # {} PROVE FALSE
    OBVIOUS
  <2>1. PICK n \in Without : \A m \in Without : n <= m
    BY LeastNumber
  <2> HIDE DEF UpTo
  <2>2. n # 0
    BY <1>3
  <2>3. n - 1 \in Nat /\ n - 1 \notin Without
    BY <2>1, <2>2
  <2> QED
    BY <1>4, <2>2, <2>3
<1>6. PICK h : UpTo(h, Cardinality(S))
  BY <1>5, FS_CardinalityType
<1>7. Sized(Cardinality(S)) = SUBSET S
  BY <1>1
<1> QED
  BY <1>6, <1>7 DEF Recursion

(* The function that MapThenSumSet(LAMBDA x : g[x], S) defines by recursion. *)
Sums(it, g, S) ==
  it = [s \in SUBSET S |-> IF s = {} THEN 0 ELSE g[First(s)] + it[s \ {First(s)}]]

(* Numbers have sums. *)
LEMMA SumExists ==
  ASSUME NEW S, IsFiniteSet(S), NEW g, \A x \in S : g[x] \in Int
  PROVE  \E it : Sums(it, g, S)
<1> DEFINE step == [p \in Int \X S |-> g[p[2]] + p[1]]
           pick == [s \in SUBSET S |-> First(s)]
<1>1. \A s \in SUBSET S : s # {} => pick[s] \in s /\ pick[s] = First(s)
  BY DEF First
<1>2. \A n \in Int, x \in S : step[<<n, x>>] = g[x] + n /\ step[<<n, x>>] \in Int
  OBVIOUS
<1> HIDE DEF step, pick
<1>3. PICK it : Recursion(it, step, pick, 0, S)
  BY <1>1, RecursionExists
<1>4. /\ it[{}] = 0
      /\ \A s \in SUBSET S : s # {} => it[s] = step[<<it[s \ {First(s)}], First(s)>>]
  BY <1>1, <1>3 DEF Recursion
<1> DEFINE Bad == {s \in SUBSET S : it[s] \notin Int}
<1>5. Bad = {}
  <2> SUFFICES ASSUME Bad # {} PROVE FALSE
    OBVIOUS
  <2>1. PICK s \in Bad : \A u \in Bad : u \subseteq s => u = s
    <3>1. Bad \in SUBSET (SUBSET S)
      OBVIOUS
    <3> HIDE DEF Bad
    <3> QED
      BY <3>1, SmallestSet
  <2>2. s # {} /\ s \in SUBSET S
    <3>1. it[{}] \in Int
      BY <1>4
    <3> QED
      BY <2>1, <3>1
  <2>3. First(s) \in s
    BY <1>1, <2>2
  <2>4. it[s \ {First(s)}] \in Int
    BY <2>1, <2>3
  <2>5. it[s] \in Int
    BY <1>2, <1>4, <2>2, <2>3, <2>4
  <2> QED
    BY <2>1, <2>5
<1>6. \A s \in SUBSET S : s # {} => it[s] = g[First(s)] + it[s \ {First(s)}]
  <2> SUFFICES ASSUME NEW s \in SUBSET S, s # {}
               PROVE  it[s] = g[First(s)] + it[s \ {First(s)}]
    OBVIOUS
  <2>1. First(s) \in S /\ it[s \ {First(s)}] \in Int
    BY <1>1, <1>5
  <2> QED
    BY <1>2, <1>4, <2>1
<1>7. it = [s \in SUBSET S |-> it[s]]
  BY <1>3 DEF Recursion
<1>8. Sums(it, g, S)
  BY <1>4, <1>6, <1>7 DEF Sums
<1> QED
  BY <1>8

(* Any member may be taken first. *)
LEMMA SumTakes ==
  ASSUME NEW S, IsFiniteSet(S), NEW g, \A x \in S : g[x] \in Int, NEW it, Sums(it, g, S)
  PROVE  \A s \in SUBSET S : /\ it[s] \in Int
                             /\ s = {} => it[s] = 0
                             /\ \A x \in s : it[s] = g[x] + it[s \ {x}]
<1> DEFINE Taken(s) == /\ it[s] \in Int /\ (s = {} => it[s] = 0)
                       /\ \A x \in s : it[s] = g[x] + it[s \ {x}]
           Bad == {s \in SUBSET S : ~Taken(s)}
<1> SUFFICES ASSUME Bad # {} PROVE FALSE
  OBVIOUS
<1>1. PICK s \in Bad : \A u \in Bad : u \subseteq s => u = s
  <2>1. Bad \in SUBSET (SUBSET S)
    OBVIOUS
  <2> HIDE DEF Bad
  <2> QED
    BY <2>1, SmallestSet
<1>2. it[{}] = 0
  BY DEF Sums
<1>3. s # {}
  BY <1>2
<1> DEFINE y == First(s)
<1>4. y \in s /\ it[s] = g[y] + it[s \ {y}]
  BY <1>3 DEF First, Sums
<1> HIDE DEF y
<1>5. \A u \in SUBSET s : u # s => Taken(u)
  BY <1>1
<1> HIDE DEF Taken
<1>6. Taken(s \ {y})
  BY <1>4, <1>5
<1>7. ASSUME NEW x \in s, x # y PROVE it[s] = g[x] + it[s \ {x}]
  <2>1. Taken(s \ {x})
    BY <1>5
  <2>2. it[s \ {y}] = g[x] + it[(s \ {y}) \ {x}]
    BY <1>6, <1>7 DEF Taken
  <2>3. it[s \ {x}] = g[y] + it[(s \ {x}) \ {y}]
    BY <2>1, <1>4, <1>7 DEF Taken
  <2>4. it[(s \ {y}) \ {x}] = it[(s \ {x}) \ {y}]
    <3>1. (s \ {y}) \ {x} = (s \ {x}) \ {y}
      OBVIOUS
    <3> QED
      BY <3>1
  <2>5. Taken((s \ {x}) \ {y})
    BY <1>4, <1>5
  <2>6. it[(s \ {x}) \ {y}] \in Int /\ g[x] \in Int /\ g[y] \in Int
    BY <2>5, <1>4 DEF Taken
  <2>7. it[s \ {x}] = g[y] + it[(s \ {y}) \ {x}]
    BY <2>3, <2>4
  <2> DEFINE rest == it[(s \ {y}) \ {x}]
  <2>8. rest \in Int
    BY <2>4, <2>6
  <2>9. it[s] = g[y] + (g[x] + rest) /\ it[s \ {x}] = g[y] + rest
    BY <1>4, <2>2, <2>7
  <2> HIDE DEF rest
  <2> QED
    BY <2>6, <2>8, <2>9
<1>8. it[s] \in Int
  <2>1. it[s \ {y}] \in Int
    BY <1>6 DEF Taken
  <2> QED
    BY <1>4, <2>1
<1> QED
  BY <1>3, <1>4, <1>7, <1>8 DEF Taken

(* A sum of naturals is a natural, and none of them is more. *)
LEMMA SumAtLeast ==
  ASSUME NEW S, IsFiniteSet(S), NEW g, \A x \in S : g[x] \in Nat, NEW it, Sums(it, g, S)
  PROVE  it[S] \in Nat /\ \A x \in S : g[x] <= it[S]
<1>1. \A s \in SUBSET S : /\ it[s] \in Int /\ (s = {} => it[s] = 0)
                          /\ \A x \in s : it[s] = g[x] + it[s \ {x}]
  BY SumTakes
<1> DEFINE Bad == {s \in SUBSET S : it[s] \notin Nat}
<1>2. Bad = {}
  <2> SUFFICES ASSUME Bad # {} PROVE FALSE
    OBVIOUS
  <2>1. PICK s \in Bad : \A u \in Bad : u \subseteq s => u = s
    <3>1. Bad \in SUBSET (SUBSET S)
      OBVIOUS
    <3> HIDE DEF Bad
    <3> QED
      BY <3>1, SmallestSet
  <2>2. PICK x \in s : it[s] = g[x] + it[s \ {x}]
    BY <1>1, <2>1
  <2>3. it[s \ {x}] \in Nat
    BY <2>1, <2>2
  <2> QED
    BY <2>1, <2>2, <2>3
<1>3. ASSUME NEW x \in S PROVE g[x] <= it[S]
  <2>1. it[S] = g[x] + it[S \ {x}] /\ it[S \ {x}] \in Nat
    BY <1>1, <1>2
  <2> QED
    BY <2>1
<1> QED
  BY <1>2, <1>3

(* The recursion says what a sum is: two solutions for summands that agree are equal. *)
LEMMA SumUnique ==
  ASSUME NEW S, IsFiniteSet(S), NEW T \in SUBSET S, NEW g, NEW h,
         \A x \in S : g[x] \in Int, \A x \in T : h[x] = g[x],
         NEW it, Sums(it, g, S), NEW jt, Sums(jt, h, T)
  PROVE  it[T] = jt[T]
<1> DEFINE Bad == {s \in SUBSET T : it[s] # jt[s]}
<1> SUFFICES ASSUME Bad # {} PROVE FALSE
  OBVIOUS
<1>1. IsFiniteSet(T)
  BY FS_Subset
<1>2. PICK s \in Bad : \A u \in Bad : u \subseteq s => u = s
  <2>1. Bad \in SUBSET (SUBSET T)
    OBVIOUS
  <2> HIDE DEF Bad
  <2> QED
    BY <1>1, <2>1, SmallestSet
<1>3. it[{}] = 0 /\ jt[{}] = 0
  BY DEF Sums
<1>4. s # {} /\ s \in SUBSET T /\ s \in SUBSET S
  BY <1>3
<1>5. First(s) \in s
  BY <1>4 DEF First
<1>6. /\ it[s] = g[First(s)] + it[s \ {First(s)}]
      /\ jt[s] = h[First(s)] + jt[s \ {First(s)}]
  BY <1>4 DEF Sums
<1>7. it[s \ {First(s)}] = jt[s \ {First(s)}]
  BY <1>2, <1>5
<1> QED
  BY <1>2, <1>4, <1>5, <1>6, <1>7

(* The sum of g[x] over the members of S. *)
SumOf(g, S) == (CHOOSE it : Sums(it, g, S))[S]

(* Every solution of the recursion gives it. *)
LEMMA SumOfIs ==
  ASSUME NEW S, IsFiniteSet(S), NEW T \in SUBSET S, NEW g, NEW h,
         \A x \in S : g[x] \in Int, \A x \in T : h[x] = g[x], NEW it, Sums(it, g, S)
  PROVE  SumOf(h, T) = it[T]
<1>1. \E jt : Sums(jt, h, T)
  BY FS_Subset, SumExists
<1>2. Sums(CHOOSE jt : Sums(jt, h, T), h, T)
  BY <1>1
<1> QED
  BY <1>2, SumUnique DEF SumOf

(* In particular that for the same set. *)
LEMMA SumOfSolves ==
  ASSUME NEW S, IsFiniteSet(S), NEW g, \A x \in S : g[x] \in Int, NEW it, Sums(it, g, S)
  PROVE  SumOf(g, S) = it[S]
<1>1. S \in SUBSET S /\ \A x \in S : g[x] = g[x]
  OBVIOUS
<1> QED
  BY <1>1, SumOfIs

(* One summand may be taken from it. *)
LEMMA SumOfTakes ==
  ASSUME NEW S, IsFiniteSet(S), NEW g, \A x \in S : g[x] \in Int
  PROVE  \A T \in SUBSET S : /\ SumOf(g, T) \in Int
                             /\ T = {} => SumOf(g, T) = 0
                             /\ \A x \in T : SumOf(g, T) = g[x] + SumOf(g, T \ {x})
<1>1. PICK it : Sums(it, g, S)
  BY SumExists
<1>2. \A T \in SUBSET S : SumOf(g, T) = it[T]
  BY <1>1, SumOfIs
<1>3. \A T \in SUBSET S : /\ it[T] \in Int /\ (T = {} => it[T] = 0)
                          /\ \A x \in T : it[T] = g[x] + it[T \ {x}]
  BY <1>1, SumTakes
<1> QED
  BY <1>2, <1>3

(* A set may be summed in two parts. *)
LEMMA SumOfParts ==
  ASSUME NEW S, IsFiniteSet(S), NEW g, \A x \in S : g[x] \in Int, NEW B \in SUBSET S
  PROVE  \A A \in SUBSET S : A \cap B = {} => SumOf(g, A \cup B) = SumOf(g, A) + SumOf(g, B)
<1> DEFINE Bad == {A \in SUBSET S : A \cap B = {} /\ SumOf(g, A \cup B) # SumOf(g, A) + SumOf(g, B)}
<1> SUFFICES ASSUME Bad # {} PROVE FALSE
  OBVIOUS
<1>1. PICK A \in Bad : \A U \in Bad : U \subseteq A => U = A
  <2>1. Bad \in SUBSET (SUBSET S)
    OBVIOUS
  <2> HIDE DEF Bad
  <2> QED
    BY <2>1, SmallestSet
<1>2. /\ A \in SUBSET S /\ A \cap B = {} /\ SumOf(g, A \cup B) # SumOf(g, A) + SumOf(g, B)
      /\ \A x \in A : A \ {x} \notin Bad
  BY <1>1
<1>3. \A T \in SUBSET S : /\ SumOf(g, T) \in Int
                          /\ T = {} => SumOf(g, T) = 0
                          /\ \A x \in T : SumOf(g, T) = g[x] + SumOf(g, T \ {x})
  BY SumOfTakes
<1>4. A # {}
  <2> SUFFICES ASSUME A = {} PROVE FALSE
    OBVIOUS
  <2>1. A \cup B = B /\ SumOf(g, A) = 0 /\ SumOf(g, B) \in Int
    BY <1>3
  <2> QED
    BY <1>2, <2>1
<1>5. PICK x \in A : TRUE
  BY <1>4
<1>6. SumOf(g, (A \ {x}) \cup B) = SumOf(g, A \ {x}) + SumOf(g, B)
  BY <1>2, <1>5
<1>7. (A \cup B) \ {x} = (A \ {x}) \cup B
  BY <1>2, <1>5
<1>8. /\ SumOf(g, A) = g[x] + SumOf(g, A \ {x})
      /\ SumOf(g, A \cup B) = g[x] + SumOf(g, (A \ {x}) \cup B)
      /\ g[x] \in Int /\ SumOf(g, A \ {x}) \in Int /\ SumOf(g, B) \in Int
  <2>1. A \cup B \in SUBSET S /\ x \in A \cup B /\ A \ {x} \in SUBSET S
    BY <1>2, <1>5
  <2>2. SumOf(g, A \cup B) = g[x] + SumOf(g, (A \cup B) \ {x})
    BY <1>3, <2>1
  <2>3. SumOf(g, A \cup B) = g[x] + SumOf(g, (A \ {x}) \cup B)
    BY <1>7, <2>2
  <2>4. SumOf(g, A) = g[x] + SumOf(g, A \ {x}) /\ SumOf(g, A \ {x}) \in Int
    BY <1>2, <1>3, <1>5, <2>1
  <2> QED
    BY <1>2, <1>3, <1>5, <2>3, <2>4
<1> DEFINE a == SumOf(g, A)
           b == SumOf(g, B)
           c == SumOf(g, A \ {x})
           d == SumOf(g, A \cup B)
<1>9. d # a + b /\ a = g[x] + c /\ d = g[x] + (c + b) /\ g[x] \in Int /\ c \in Int /\ b \in Int
  BY <1>2, <1>6, <1>8
<1> HIDE DEF a, b, c, d
<1> QED
  BY <1>9

(* A sum of ones counts. *)
LEMMA SumOfOnes ==
  ASSUME NEW S, IsFiniteSet(S), NEW g, \A x \in S : g[x] = 1
  PROVE  \A T \in SUBSET S : SumOf(g, T) = Cardinality(T)
<1> DEFINE Bad == {T \in SUBSET S : SumOf(g, T) # Cardinality(T)}
<1> SUFFICES ASSUME Bad # {} PROVE FALSE
  OBVIOUS
<1>1. PICK T \in Bad : \A U \in Bad : U \subseteq T => U = T
  <2>1. Bad \in SUBSET (SUBSET S)
    OBVIOUS
  <2> HIDE DEF Bad
  <2> QED
    BY <2>1, SmallestSet
<1>2. \A U \in SUBSET S : /\ SumOf(g, U) \in Int
                          /\ U = {} => SumOf(g, U) = 0
                          /\ \A x \in U : SumOf(g, U) = g[x] + SumOf(g, U \ {x})
  BY SumOfTakes
<1>3. T # {}
  BY <1>1, <1>2, FS_EmptySet
<1>4. PICK x \in T : TRUE
  BY <1>3
<1>5. SumOf(g, T \ {x}) = Cardinality(T \ {x}) /\ SumOf(g, T) = 1 + SumOf(g, T \ {x})
  BY <1>1, <1>2, <1>4
<1>6. Cardinality(T \ {x}) = Cardinality(T) - 1 /\ Cardinality(T) \in Nat
  BY <1>1, <1>4, FS_Subset, FS_RemoveElement, FS_CardinalityType
<1> QED
  BY <1>1, <1>5, <1>6

(* Each member of S is in the part of its group. *)
Grouped(part, group, S, D) ==
  /\ \A x \in S : group[x] \in D
  /\ \A d \in D : part[d] \in SUBSET S /\ \A x \in S : x \in part[d] <=> group[x] = d

(* The members may be summed group by group. *)
LEMMA SumByGroups ==
  ASSUME NEW S, IsFiniteSet(S), NEW g, \A x \in S : g[x] \in Int,
         NEW D, IsFiniteSet(D), NEW group, NEW part, Grouped(part, group, S, D),
         NEW h, \A d \in D : h[d] = SumOf(g, part[d])
  PROVE  SumOf(h, D) = SumOf(g, S)
<1> USE DEF Grouped
<1> DEFINE In(E) == {x \in S : group[x] \in E}
           Bad == {E \in SUBSET D : SumOf(h, E) # SumOf(g, In(E))}
<1>1. \A T \in SUBSET S : SumOf(g, T) \in Int /\ (T = {} => SumOf(g, T) = 0)
  BY SumOfTakes
<1>2. \A d \in D : h[d] \in Int
  BY <1>1
<1>3. \A E \in SUBSET D : /\ SumOf(h, E) \in Int
                          /\ E = {} => SumOf(h, E) = 0
                          /\ \A d \in E : SumOf(h, E) = h[d] + SumOf(h, E \ {d})
  BY <1>2, SumOfTakes
<1>4. Bad = {}
  <2> SUFFICES ASSUME Bad # {} PROVE FALSE
    OBVIOUS
  <2>1. PICK E \in Bad : \A U \in Bad : U \subseteq E => U = E
    <3>1. Bad \in SUBSET (SUBSET D)
      OBVIOUS
    <3> HIDE DEF Bad
    <3> QED
      BY <3>1, SmallestSet
  <2>2. E # {}
    BY <1>1, <1>3, <2>1
  <2>3. PICK d \in E : TRUE
    BY <2>2
  <2>4. SumOf(h, E \ {d}) = SumOf(g, In(E \ {d})) /\ SumOf(h, E) = h[d] + SumOf(h, E \ {d})
    BY <1>3, <2>1, <2>3
  <2> DEFINE A == part[d]
             B == In(E \ {d})
  <2>5. A \in SUBSET S /\ B \in SUBSET S /\ A \cap B = {} /\ A \cup B = In(E)
    BY <2>3
  <2>6. h[d] = SumOf(g, A)
    BY <2>1, <2>3
  <2>7. SumOf(h, E) = SumOf(g, A) + SumOf(g, B)
    BY <2>4, <2>6
  <2>8. SumOf(h, E) # SumOf(g, In(E))
    BY <2>1
  <2> HIDE DEF A, B, In
  <2> QED
    BY <2>5, <2>7, <2>8, SumOfParts
<1>5. In(D) = S
  OBVIOUS
<1> QED
  BY <1>4, <1>5

--------------------------------------------------------------------------------
(* Folds over sequences *)

(* The function that a fold from the left defines by recursion over the indices
   1..N: step takes what was made of the elements before, and an index. *)
Folding(it, step, base, N) ==
  it = [s \in SUBSET (1..N) |->
          IF s = {} THEN base ELSE step[<<it[s \ {Max(s)}], Max(s)>>]]

(* The last index comes last. *)
LEMMA LastIndex ==
  ASSUME NEW N \in Nat
  PROVE  /\ \A s \in SUBSET (1..N) : s # {} => Max(s) \in s
         /\ \A n \in 1..N : Max(1..n) = n /\ (1..n) \ {n} = 1..(n - 1)
<1>1. ASSUME NEW s \in SUBSET (1..N), s # {} PROVE Max(s) \in s
  <2> DEFINE F == {N - x : x \in s}
  <2>1. F \in SUBSET Nat /\ F # {}
    <3>1. \A x \in s : N - x \in Nat
      BY <1>1
    <3> QED
      BY <1>1, <3>1
  <2>2. PICK n \in F : \A m \in F : n <= m
    <3> HIDE DEF F
    <3> QED
      BY <2>1, LeastNumber
  <2>3. PICK x \in s : n = N - x
    BY <2>2
  <2>4. \A y \in s : x >= y
    BY <2>2, <2>3
  <2> QED
    BY <2>4 DEF Max
<1>2. ASSUME NEW n \in 1..N PROVE Max(1..n) = n /\ (1..n) \ {n} = 1..(n - 1)
  <2>1. n \in 1..n /\ \A y \in 1..n : n >= y
    OBVIOUS
  <2>2. \A x \in 1..n : (\A y \in 1..n : x >= y) => x = n
    BY <2>1
  <2>3. Max(1..n) = n
    BY <2>1, <2>2 DEF Max
  <2>4. (1..n) \ {n} = 1..(n - 1)
    OBVIOUS
  <2> QED
    BY <2>3, <2>4
<1> QED
  BY <1>1, <1>2

(* This recursion has a solution too. *)
LEMMA FoldExists ==
  ASSUME NEW step, NEW base, NEW N \in Nat
  PROVE  \E it : Folding(it, step, base, N)
<1> DEFINE pick == [s \in SUBSET (1..N) |-> Max(s)]
<1>1. \A s \in SUBSET (1..N) : pick[s] = Max(s)
  OBVIOUS
<1>2. \A s \in SUBSET (1..N) : s # {} => pick[s] \in s
  BY <1>1, LastIndex
<1> HIDE DEF pick
<1>3. IsFiniteSet(1..N)
  BY FS_Interval
<1>4. PICK it : Recursion(it, step, pick, base, 1..N)
  BY <1>2, <1>3, RecursionExists
<1>5. Folding(it, step, base, N)
  BY <1>1, <1>4 DEF Recursion, Folding
<1> QED
  BY <1>5

(* What is made of the elements stays in the set that step keeps to. *)
LEMMA FoldStays ==
  ASSUME NEW N \in Nat, NEW D, NEW base \in D, NEW step,
         \A d \in D, i \in 1..N : step[<<d, i>>] \in D,
         NEW it, Folding(it, step, base, N)
  PROVE  \A s \in SUBSET (1..N) : it[s] \in D
<1> DEFINE Bad == {s \in SUBSET (1..N) : it[s] \notin D}
<1> SUFFICES ASSUME Bad # {} PROVE FALSE
  OBVIOUS
<1>1. IsFiniteSet(1..N)
  BY FS_Interval
<1>2. PICK s \in Bad : \A u \in Bad : u \subseteq s => u = s
  <2>1. Bad \in SUBSET (SUBSET (1..N))
    OBVIOUS
  <2> HIDE DEF Bad
  <2> QED
    BY <1>1, <2>1, SmallestSet
<1>3. it[{}] = base
  BY DEF Folding
<1>4. s # {} /\ s \in SUBSET (1..N)
  BY <1>2, <1>3
<1>5. Max(s) \in s
  BY <1>4, LastIndex
<1>6. it[s] = step[<<it[s \ {Max(s)}], Max(s)>>]
  BY <1>4 DEF Folding
<1>7. it[s \ {Max(s)}] \in D
  BY <1>2, <1>5
<1> QED
  BY <1>2, <1>4, <1>5, <1>6, <1>7
================================================================================
