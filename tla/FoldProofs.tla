---------------------------- MODULE FoldProofs ----------------------------
(***************************************************************************)
(* Induction and recursion over the finite subsets of a set, as the folds  *)
(* of the community modules use them, stated without operator parameters:  *)
(* a property is the set of what has it, a step of a fold is a function.   *)
(***************************************************************************)
EXTENDS Integers, Sequences, SequencesExt, FiniteSets, FiniteSetTheorems, TLAPS

\* A set of subsets that has the empty set, and with a subset every one that
\* has one element more, has them all.
LEMMA SubsetInduction ==
    ASSUME NEW S, IsFiniteSet(S), NEW Q,
           {} \in Q,
           \A T \in SUBSET S : T # {} /\ (\A x \in T : T \ {x} \in Q) => T \in Q
    PROVE  SUBSET S \subseteq Q
<1> DEFINE Bad == {T \in SUBSET S : T \notin Q}
           R == StrictSubsetOrdering(S)
           Fin == FiniteSubsetsOf(S)
<1>1. SUFFICES ASSUME Bad # {} PROVE FALSE
  OBVIOUS
<1>2. Bad \subseteq Fin
  BY FS_FiniteSubsetsOfFinite
<1>3. IsWellFoundedOn(R, Fin)
  BY FS_StrictSubsetOrderingWellFounded
<1>4. PICK T \in Bad : \A U \in Bad : <<U, T>> \notin R
  <2> HIDE DEF Bad, R, Fin
  <2> QED BY <1>1, <1>2, <1>3, WFMin
<1>5. ASSUME NEW x \in T PROVE T \ {x} \in Q
  <2>1. T \ {x} \in SUBSET S /\ T \ {x} # T /\ T \ {x} \subseteq T
    BY <1>4
  <2>2. <<T \ {x}, T>> \in R
    BY <1>4, <2>1 DEF StrictSubsetOrdering
  <2> QED BY <1>4, <2>1, <2>2
<1> QED BY <1>4, <1>5

\* A set that has 0, and with a number the next one, has them all.
LEMMA NatSetInduction ==
    ASSUME NEW Q, 0 \in Q, \A n \in Nat : n \in Q => n + 1 \in Q
    PROVE  Nat \subseteq Q
<1> SUFFICES ASSUME NEW n \in Nat PROVE n \in Q
  OBVIOUS
<1> DEFINE S == 1..n
           P == {T \in SUBSET S : Cardinality(T) \in Q}
<1>1. IsFiniteSet(S) /\ Cardinality(S) = n
  BY FS_Interval
<1>2. {} \in P
  BY FS_EmptySet
<1>3. ASSUME NEW T \in SUBSET S, T # {}, \A x \in T : T \ {x} \in P PROVE T \in P
  <2>0. PICK x \in T : T \ {x} \in P
    BY <1>3
  <2>1. IsFiniteSet(T) /\ IsFiniteSet(T \ {x})
    BY <1>1, <2>0, FS_Subset, FS_RemoveElement
  <2>2. Cardinality(T) \in Nat /\ Cardinality(T \ {x}) \in Nat
    BY <2>1, FS_CardinalityType
  <2>3. Cardinality(T \ {x}) = Cardinality(T) - 1
    BY <2>0, <2>1, FS_RemoveElement
  <2>4. Cardinality(T) = Cardinality(T \ {x}) + 1
    BY <2>2, <2>3
  <2> QED BY <1>3, <2>0, <2>2, <2>4
<1>4. S \in P
  <2>1. SUBSET S \subseteq P
    <3> HIDE DEF S, P
    <3> QED BY <1>1, <1>2, <1>3, SubsetInduction
  <2> QED BY <2>1
<1> QED BY <1>1, <1>4

\* Max is what its name says, on the non-empty finite sets of integers.
LEMMA MaxIs ==
    ASSUME NEW S, IsFiniteSet(S), S \subseteq Int, S # {}
    PROVE  Max(S) \in S /\ \A x \in S : Max(S) >= x
<1> DEFINE HasMax(T) == \E m \in T : \A x \in T : m >= x
           Q == {T \in SUBSET S : T # {} => HasMax(T)}
<1>1. {} \in Q
  OBVIOUS
<1>2. ASSUME NEW T \in SUBSET S, T # {}, \A x \in T : T \ {x} \in Q PROVE T \in Q
  <2>1. PICK y \in T : TRUE
    BY <1>2
  <2>2. CASE T \ {y} = {}
    <3>1. \A x \in T : y >= x
      BY <2>1, <2>2
    <3> QED BY <2>1, <3>1
  <2>3. CASE T \ {y} # {}
    <3>1. PICK m \in T \ {y} : \A x \in T \ {y} : m >= x
      BY <1>2, <2>1, <2>3
    <3>2. m \in T /\ m \in Int /\ y \in Int
      BY <2>1, <3>1
    <3>3. CASE m >= y
      BY <3>1, <3>2, <3>3
    <3>4. CASE ~(m >= y)
      <4>1. \A x \in T : y >= x
        BY <3>1, <3>2, <3>4
      <4> QED BY <2>1, <4>1
    <3> QED BY <3>3, <3>4
  <2> QED BY <2>2, <2>3
<1>3. S \in Q
  <2>1. SUBSET S \subseteq Q
    <3> HIDE DEF Q
    <3> QED BY <1>1, <1>2, SubsetInduction
  <2> QED BY <2>1
<1>4. \E m \in S : \A x \in S : m >= x
  BY <1>3
<1> QED BY <1>4 DEF Max

\* The steps of a fold over the subsets of S: pick says which element a
\* subset loses next, step what the fold makes of the rest.
Folds(g, S, base, pick, step) ==
    \A s \in SUBSET S :
        g[s] = IF s = {} THEN base ELSE step[<<s, g[s \ {pick[s]}]>>]

\* Such a function exists, whatever the step is.
LEMMA FoldExists ==
    ASSUME NEW S, IsFiniteSet(S), NEW V, NEW base \in V,
           NEW pick, \A s \in SUBSET S : s # {} => pick[s] \in s,
           NEW step \in [(SUBSET S) \X V -> V]
    PROVE  \E g \in [SUBSET S -> V] : Folds(g, S, base, pick, step)
<1> DEFINE Small(n) == {s \in SUBSET S : Cardinality(s) <= n}
           Good(g, n) == \A s \in Small(n) :
               g[s] = IF s = {} THEN base ELSE step[<<s, g[s \ {pick[s]}]>>]
           Q == {n \in Nat : \E g \in [Small(n) -> V] : Good(g, n)}
<1>1. ASSUME NEW s \in SUBSET S
      PROVE  /\ IsFiniteSet(s) /\ Cardinality(s) \in Nat
             /\ Cardinality(s) <= Cardinality(S)
             /\ Cardinality(s) = 0 <=> s = {}
  BY FS_Subset, FS_CardinalityType, FS_EmptySet
<1>0. ASSUME NEW s \in SUBSET S, s # {}
      PROVE  Cardinality(s \ {pick[s]}) = Cardinality(s) - 1 /\ s \ {pick[s]} \in SUBSET S
  BY <1>1, <1>0, FS_RemoveElement
<1>2. 0 \in Q
  <2> DEFINE g == [s \in Small(0) |-> base]
  <2>1. g \in [Small(0) -> V] /\ Good(g, 0)
    BY <1>1
  <2> QED BY <2>1
<1>3. ASSUME NEW n \in Nat, n \in Q PROVE n + 1 \in Q
  <2>1. PICK g \in [Small(n) -> V] : Good(g, n)
    BY <1>3
  <2> DEFINE h == [s \in Small(n + 1) |->
                     IF s \in Small(n) THEN g[s] ELSE step[<<s, g[s \ {pick[s]}]>>]]
  <2>2. \A s \in Small(n + 1) : s # {} => s \ {pick[s]} \in Small(n)
    BY <1>1, <1>0
  <2>3. Small(n) \subseteq Small(n + 1) /\ {} \in Small(n)
    BY <1>1, FS_EmptySet
  <2>4. h \in [Small(n + 1) -> V]
    <3>1. ASSUME NEW s \in Small(n + 1) PROVE h[s] \in V
      <4>1. CASE s \in Small(n)
        BY <4>1
      <4>2. CASE s \notin Small(n)
        <5>1. g[s \ {pick[s]}] \in V
          BY <2>2, <2>3, <4>2
        <5> QED BY <4>2, <5>1
      <4> QED BY <4>1, <4>2
    <3> QED BY <3>1
  <2>5. ASSUME NEW s \in Small(n + 1)
        PROVE  h[s] = IF s = {} THEN base ELSE step[<<s, h[s \ {pick[s]}]>>]
    <3>1. s # {} => h[s \ {pick[s]}] = g[s \ {pick[s]}]
      BY <2>2, <2>3
    <3>2. CASE s \in Small(n)
      <4>1. h[s] = g[s]
        BY <3>2
      <4>2. g[s] = IF s = {} THEN base ELSE step[<<s, g[s \ {pick[s]}]>>]
        BY <2>1, <3>2
      <4> HIDE DEF h
      <4> QED BY <3>1, <4>1, <4>2
    <3>3. CASE s \notin Small(n)
      BY <2>3, <3>1, <3>3
    <3> HIDE DEF h, Small
    <3> QED BY <3>2, <3>3
  <2>6. Good(h, n + 1)
    BY <2>5
  <2>7. \E f \in [Small(n + 1) -> V] : Good(f, n + 1)
    <3> HIDE DEF h, Good, Small
    <3> QED BY <2>4, <2>6
  <2>8. n + 1 \in Nat
    OBVIOUS
  <2> HIDE DEF Good, Small
  <2> QED BY <2>7, <2>8
<1>4. Cardinality(S) \in Q
  <2>1. Nat \subseteq Q
    <3> HIDE DEF Q
    <3> QED BY <1>2, <1>3, NatSetInduction
  <2> QED BY <1>1, <2>1
<1>5. Small(Cardinality(S)) = SUBSET S
  BY <1>1
<1>6. PICK g \in [SUBSET S -> V] : Good(g, Cardinality(S))
  BY <1>4, <1>5
<1> QED BY <1>5, <1>6 DEF Folds

\* Min likewise.
LEMMA MinIs ==
    ASSUME NEW S, IsFiniteSet(S), S \subseteq Int, S # {}
    PROVE  Min(S) \in S /\ \A x \in S : Min(S) <= x
<1> DEFINE HasMin(T) == \E m \in T : \A x \in T : m <= x
           Q == {T \in SUBSET S : T # {} => HasMin(T)}
<1>1. {} \in Q
  OBVIOUS
<1>2. ASSUME NEW T \in SUBSET S, T # {}, \A x \in T : T \ {x} \in Q PROVE T \in Q
  <2>1. PICK y \in T : TRUE
    BY <1>2
  <2>2. CASE T \ {y} = {}
    <3>1. \A x \in T : y <= x
      BY <2>1, <2>2
    <3> QED BY <2>1, <3>1
  <2>3. CASE T \ {y} # {}
    <3>1. PICK m \in T \ {y} : \A x \in T \ {y} : m <= x
      BY <1>2, <2>1, <2>3
    <3>2. m \in T /\ m \in Int /\ y \in Int
      BY <2>1, <3>1
    <3>3. CASE m <= y
      BY <3>1, <3>2, <3>3
    <3>4. CASE ~(m <= y)
      <4>1. \A x \in T : y <= x
        BY <3>1, <3>2, <3>4
      <4> QED BY <2>1, <4>1
    <3> QED BY <3>3, <3>4
  <2> QED BY <2>2, <2>3
<1>3. S \in Q
  <2>1. SUBSET S \subseteq Q
    <3> HIDE DEF Q
    <3> QED BY <1>1, <1>2, SubsetInduction
  <2> QED BY <2>1
<1>4. \E m \in S : \A x \in S : m <= x
  BY <1>3
<1> QED BY <1>4 DEF Min

\* The steps of a recursion from 0 to n, and what they make of the base.
Steps(step, n, V) == step \in [1..n -> [V -> V]]
Recursion(f, n, V, base, step) ==
    f \in [0..n -> V] /\ f[0] = base /\ \A k \in 1..n : f[k] = step[k][f[k - 1]]

\* A function that is defined by recursion exists.
LEMMA RecursionExists ==
    ASSUME NEW n \in Nat, NEW V, NEW base \in V,
           NEW step, Steps(step, n, V)
    PROVE  \E f : Recursion(f, n, V, base, step)
<1>0. \A k \in 1..n, v \in V : step[k][v] \in V
  BY DEF Steps
<1> DEFINE Good(f, m) == f[0] = base /\ \A k \in 1..m : f[k] = step[k][f[k - 1]]
           Q == {m \in Nat : m <= n => \E f \in [0..m -> V] : Good(f, m)}
<1>1. 0 \in Q
  <2> DEFINE f == [k \in 0..0 |-> base]
  <2>1. f \in [0..0 -> V] /\ Good(f, 0)
    OBVIOUS
  <2> QED BY <2>1
<1>2. ASSUME NEW m \in Nat, m \in Q PROVE m + 1 \in Q
  <2>1. SUFFICES ASSUME m + 1 <= n PROVE \E f \in [0..(m + 1) -> V] : Good(f, m + 1)
    OBVIOUS
  <2>2. PICK f \in [0..m -> V] : Good(f, m)
    BY <1>2, <2>1
  <2> DEFINE g == [k \in 0..(m + 1) |-> IF k <= m THEN f[k] ELSE step[k][f[k - 1]]]
  <2>3. ASSUME NEW k \in 0..(m + 1) PROVE g[k] \in V
    <3>1. CASE k <= m
      BY <3>1
    <3>2. CASE k = m + 1
      <4>1. k \in 1..n /\ k - 1 \in 0..m /\ ~(k <= m)
        BY <2>1, <3>2
      <4> QED BY <1>0, <4>1
    <3> QED BY <3>1, <3>2
  <2>4. ASSUME NEW k \in 1..(m + 1) PROVE g[k] = step[k][g[k - 1]]
    <3>1. k - 1 \in 0..m /\ g[k - 1] = f[k - 1] /\ k \in 0..(m + 1)
      OBVIOUS
    <3>2. CASE k <= m
      <4>1. k \in 1..m /\ g[k] = f[k]
        BY <3>1, <3>2
      <4>2. f[k] = step[k][f[k - 1]]
        BY <2>2, <4>1
      <4> HIDE DEF g
      <4> QED BY <3>1, <4>1, <4>2
    <3>3. CASE ~(k <= m)
      <4>1. g[k] = step[k][f[k - 1]]
        BY <3>1, <3>3
      <4> HIDE DEF g
      <4> QED BY <3>1, <4>1
    <3> QED BY <3>2, <3>3
  <2>5. g[0] = base
    BY <2>2
  <2>6. g \in [0..(m + 1) -> V]
    BY <2>3
  <2> HIDE DEF g
  <2> QED BY <2>4, <2>5, <2>6
<1>3. n \in Q
  <2>1. Nat \subseteq Q
    <3> HIDE DEF Q
    <3> QED BY <1>1, <1>2, NatSetInduction
  <2> QED BY <2>1
<1> QED BY <1>3 DEF Recursion

\* A set of numbers that are at most n has them all if it has 0 and the next of
\* each.
LEMMA UpTo ==
    ASSUME NEW n \in Nat, NEW Q, 0 \in Q, \A k \in 1..n : k - 1 \in Q => k \in Q
    PROVE  0..n \subseteq Q
<1> DEFINE P == {k \in Nat : k <= n => k \in Q}
<1>1. 0 \in P
  OBVIOUS
<1>2. ASSUME NEW k \in Nat, k \in P PROVE k + 1 \in P
  <2>1. ASSUME k + 1 <= n PROVE k + 1 \in Q
    <3>1. k + 1 \in 1..n /\ (k + 1) - 1 = k /\ k <= n
      BY <2>1
    <3> QED BY <1>2, <3>1
  <2> QED BY <2>1
<1>3. Nat \subseteq P
  <2> HIDE DEF P
  <2> QED BY <1>1, <1>2, NatSetInduction
<1> QED BY <1>3

----------------------------------------------------------------------------
(* FoldLeft, which is a fold over the sets of indices of a list.           *)

LEMMA LastIndex ==
    ASSUME NEW E, NEW list \in Seq(E), NEW s \in SUBSET (1..Len(list)), s # {}
    PROVE  Max(s) \in s /\ list[Max(s)] \in E
<1>1. IsFiniteSet(1..Len(list)) /\ \A i \in 1..Len(list) : list[i] \in E
  BY FS_Interval
<1>2. IsFiniteSet(s) /\ s \subseteq Int
  <2>1. s \subseteq Int
    OBVIOUS
  <2> QED BY <1>1, <2>1, FS_Subset
<1>3. Max(s) \in s
  BY <1>2, MaxIs
<1> QED BY <1>1, <1>3

\* What one element makes of the value so far, as a function of the two.
ListStep(step, E, V) == step \in [V -> [E -> V]]

\* The equation of FoldLeft; and as far as it has values in V.
ListFold(g, list, V, base, step) ==
    /\ g \in [SUBSET (1..Len(list)) -> V]
    /\ \A s \in SUBSET (1..Len(list)) :
         g[s] = IF s = {} THEN base ELSE step[g[s \ {Max(s)}]][list[Max(s)]]

ListFoldIn(g, list, V, base, step) ==
    /\ g[{}] = base
    /\ \A s \in SUBSET (1..Len(list)) :
         s # {} /\ g[s \ {Max(s)}] \in V => g[s] = step[g[s \ {Max(s)}]][list[Max(s)]]

\* From the base, element by element, to the value at the end.
ListWalk(f, list, V, base, step, end) ==
    /\ f \in [0..Len(list) -> V] /\ f[0] = base /\ f[Len(list)] = end
    /\ \A k \in 1..Len(list) : f[k] = step[f[k - 1]][list[k]]

LEMMA ListFoldExists ==
    ASSUME NEW E, NEW V, NEW list \in Seq(E), NEW base \in V, NEW step, ListStep(step, E, V)
    PROVE  \E g : ListFold(g, list, V, base, step)
<1> DEFINE D == 1..Len(list)
           pick == [s \in SUBSET D |-> Max(s)]
           turn == [p \in (SUBSET D) \X V |->
                       IF p[1] = {} THEN base ELSE step[p[2]][list[Max(p[1])]]]
<1>1. IsFiniteSet(D)
  BY FS_Interval
<1>2. \A s \in SUBSET D : s # {} => pick[s] = Max(s) /\ Max(s) \in s /\ list[Max(s)] \in E
  BY LastIndex
<1>3. turn \in [(SUBSET D) \X V -> V]
  <2>1. ASSUME NEW p \in (SUBSET D) \X V, p[1] # {} PROVE step[p[2]][list[Max(p[1])]] \in V
    <3>1. p[1] \in SUBSET D /\ p[2] \in V
      OBVIOUS
    <3>2. list[Max(p[1])] \in E
      BY <1>2, <2>1, <3>1
    <3> QED BY <3>1, <3>2 DEF ListStep
  <2> QED BY <2>1
<1>4. PICK g \in [SUBSET D -> V] : Folds(g, D, base, pick, turn)
  <2>1. \A s \in SUBSET D : s # {} => pick[s] \in s
    BY <1>2
  <2> HIDE DEF pick, turn, D
  <2> QED BY <1>1, <1>3, <2>1, FoldExists
<1>5. ASSUME NEW s \in SUBSET D
      PROVE  g[s] = IF s = {} THEN base ELSE step[g[s \ {Max(s)}]][list[Max(s)]]
  <2>1. s \ {Max(s)} \in SUBSET D
    OBVIOUS
  <2>2. g[s \ {Max(s)}] \in V
    BY <2>1
  <2>3. s # {} => pick[s] = Max(s)
    BY <1>2
  <2>4. g[s] = IF s = {} THEN base ELSE turn[<<s, g[s \ {pick[s]}]>>]
    <3> HIDE DEF pick, turn, D
    <3> QED BY <1>4 DEF Folds
  <2>5. s # {} => turn[<<s, g[s \ {Max(s)}]>>] = step[g[s \ {Max(s)}]][list[Max(s)]]
    BY <2>2
  <2> HIDE DEF pick, turn, D
  <2> QED BY <2>3, <2>4, <2>5
<1> HIDE DEF pick, turn
<1> QED BY <1>5 DEF ListFold

\* Any function with the steps of such a fold: what it makes of the list is
\* what is reached from its first element to its last.
LEMMA ListFoldSteps ==
    ASSUME NEW E, NEW V, NEW list \in Seq(E), NEW base \in V, NEW step, ListStep(step, E, V),
           NEW g, ListFoldIn(g, list, V, base, step)
    PROVE  \E f : ListWalk(f, list, V, base, step, g[1..Len(list)])
<1> DEFINE n == Len(list)
           D == 1..n
           Q == {k \in 0..n : g[1..k] \in V}
           f == [k \in 0..n |-> g[1..k]]
<1>0. /\ n \in Nat /\ \A k \in 1..n : list[k] \in E
      /\ \A v \in V, x \in E : step[v][x] \in V
  BY DEF ListStep
<1> HIDE DEF n
<1>1. ASSUME NEW k \in 1..n, g[1..(k - 1)] \in V
      PROVE  g[1..k] = step[g[1..(k - 1)]][list[k]] /\ g[1..k] \in V
  <2>1. k \in Nat /\ 1..k \in SUBSET D /\ 1..k # {} /\ (1..k) \ {k} = 1..(k - 1)
    <3>1. k \in Nat /\ k >= 1 /\ k <= n
      BY <1>0
    <3>2. 1..k \subseteq D
      BY <1>0, <3>1
    <3>3. k \in 1..k
      BY <3>1
    <3>4. (1..k) \ {k} = 1..(k - 1)
      BY <3>1
    <3> QED BY <3>1, <3>2, <3>3, <3>4
  <2>2. Max(1..k) = k
    <3>1. IsFiniteSet(1..k) /\ 1..k \subseteq Int /\ k \in 1..k
      BY <2>1, FS_Interval
    <3>2. Max(1..k) \in 1..k /\ Max(1..k) >= k
      BY <2>1, <3>1, MaxIs
    <3> QED BY <2>1, <3>2
  <2>3. g[1..k] = step[g[(1..k) \ {k}]][list[k]]
    BY <1>1, <2>1, <2>2 DEF n, ListFoldIn
  <2> QED BY <1>0, <1>1, <2>1, <2>3
<1>2. 0..n \subseteq Q
  <2>1. 1..0 = {} /\ 0 \in 0..n
    BY <1>0
  <2>2. 0 \in Q
    BY <2>1 DEF ListFoldIn
  <2>3. ASSUME NEW k \in 1..n, k - 1 \in Q PROVE k \in Q
    <3>1. k \in 0..n /\ g[1..(k - 1)] \in V
      BY <1>0, <2>3
    <3>2. g[1..k] \in V
      BY <1>1, <3>1
    <3> QED BY <3>1, <3>2
  <2> HIDE DEF Q
  <2> QED BY <1>0, <2>2, <2>3, UpTo
<1>3. f \in [0..n -> V] /\ f[0] = base /\ f[n] = g[D]
  <2>1. 1..0 = {} /\ 0 \in 0..n /\ n \in 0..n
    BY <1>0
  <2> QED BY <1>2, <2>1 DEF ListFoldIn
<1>4. ASSUME NEW k \in 1..n PROVE f[k] = step[f[k - 1]][list[k]]
  <2>1. k \in 0..n /\ k - 1 \in 0..n
    BY <1>0
  <2>2. g[1..(k - 1)] \in V
    BY <1>2, <2>1
  <2> QED BY <1>1, <2>1, <2>2
<1> HIDE DEF f
<1> QED BY <1>3, <1>4 DEF n, ListWalk

----------------------------------------------------------------------------
(* FlattenSeq, which joins the lists of a list.                            *)

\* The parts of seqs up to each of its elements, put together.
Joined(f, seqs, E) ==
    /\ f \in [0..Len(seqs) -> Seq(E)] /\ f[0] = <<>>
    /\ \A k \in 1..Len(seqs) : f[k] = f[k - 1] \o seqs[k]

LEMMA FlattenIs ==
    ASSUME NEW E, NEW seqs \in Seq(Seq(E))
    PROVE  \E f : Joined(f, seqs, E) /\ FlattenSeq(seqs) = f[Len(seqs)]
<1> DEFINE n == Len(seqs)
           V == Seq(E)
           step == [k \in 1..n |-> [s \in V |-> s \o seqs[k]]]
<1>1. n \in Nat /\ \A k \in 1..n : seqs[k] \in V
  OBVIOUS
<1>2. Steps(step, n, V) /\ \A k \in 1..n, s \in V : step[k][s] = s \o seqs[k]
  <2>1. \A k \in 1..n, s \in V : s \o seqs[k] \in V
    BY <1>1
  <2> HIDE DEF n, V
  <2> QED BY <2>1 DEF Steps
<1>3. PICK f : Recursion(f, n, V, <<>>, step)
  <2>1. <<>> \in V
    OBVIOUS
  <2> HIDE DEF n, V, step
  <2> QED BY <1>1, <1>2, <2>1, RecursionExists
<1>4. f \in [0..n -> V] /\ f[0] = <<>> /\ \A k \in 1..n : f[k] = f[k - 1] \o seqs[k]
  <2>1. \A k \in 1..n : k - 1 \in 0..n
    BY <1>1
  <2> HIDE DEF n, V, step
  <2> QED BY <1>2, <1>3, <2>1 DEF Recursion
<1>5. Joined(f, seqs, E)
  BY <1>4 DEF Joined
<1>6. CASE n = 0
  <2>1. seqs = <<>> /\ FlattenSeq(seqs) = seqs
    BY <1>6 DEF FlattenSeq
  <2> QED BY <1>4, <1>5, <1>6, <2>1
<1>7. CASE n # 0
  <2> DEFINE Eq(g) == g = [i \in 1..n |-> IF i = 1 THEN seqs[i] ELSE g[i - 1] \o seqs[i]]
             part == [i \in 1..n |-> f[i]]
             flat == CHOOSE g : Eq(g)
  <2>1. f[1] = seqs[1]
    <3>1. 1 \in 1..n /\ seqs[1] \in V
      BY <1>1, <1>7
    <3>2. ASSUME NEW k \in 1..n, k = 1 PROVE f[k] = f[0] \o seqs[k]
      <4>1. f[k] = f[k - 1] \o seqs[k]
        BY <1>4
      <4>2. k - 1 = 0
        BY <3>2
      <4> QED BY <4>1, <4>2
    <3>3. f[1] = <<>> \o seqs[1]
      BY <1>4, <3>1, <3>2
    <3> QED BY <3>1, <3>3
  <2>2. ASSUME NEW i \in 1..n
        PROVE  part[i] = IF i = 1 THEN seqs[i] ELSE part[i - 1] \o seqs[i]
    <3>1. CASE i = 1
      BY <2>1, <3>1
    <3>2. CASE i # 1
      <4>1. i - 1 \in 1..n
        BY <1>1, <3>2
      <4> QED BY <1>4, <3>2, <4>1
    <3> QED BY <3>1, <3>2
  <2>3. Eq(part)
    BY <2>2
  <2>4. Eq(flat)
    <3> HIDE DEF Eq, part
    <3> QED BY <2>3
  <2>5. ASSUME NEW i \in 1..n
        PROVE  flat[i] = IF i = 1 THEN seqs[i] ELSE flat[i - 1] \o seqs[i]
    <3> HIDE DEF flat, n
    <3> QED BY <2>4
  <2>6. FlattenSeq(seqs) = flat[n]
    BY <1>7 DEF FlattenSeq
  <2> DEFINE Q == {k \in 0..n : k > 0 => flat[k] = f[k]}
  <2>7. 0 \in Q
    BY <1>1
  <2> HIDE DEF flat
  <2>8. ASSUME NEW k \in 1..n, k - 1 \in Q PROVE k \in Q
    <3>1. CASE k = 1
      BY <1>1, <2>1, <2>5, <3>1
    <3>2. CASE k # 1
      <4>1. k - 1 \in 1..n /\ flat[k - 1] = f[k - 1]
        BY <1>1, <2>8, <3>2
      <4>2. flat[k] = flat[k - 1] \o seqs[k]
        BY <2>5, <3>2
      <4>3. f[k] = f[k - 1] \o seqs[k]
        BY <1>4
      <4> HIDE DEF n
      <4>4. flat[k] = f[k] /\ k \in 0..n
        BY <1>1, <4>1, <4>2, <4>3
      <4> QED BY <4>4
    <3> QED BY <3>1, <3>2
  <2>9. n \in Q
    <3> HIDE DEF Q, n
    <3>1. 0..n \subseteq Q
      BY <1>1, <2>7, <2>8, UpTo
    <3> QED BY <1>1, <3>1
  <2> QED BY <1>1, <1>5, <1>7, <2>6, <2>9
<1> QED BY <1>6, <1>7
=============================================================================
