-------------------------- MODULE AccountingProofs --------------------------
(***************************************************************************)
(* For any number of processes, programs and samples: the circle of        *)
(* samples holds the last refreshes of every process that is shown and the *)
(* rate is their mean; and as long as the log was kept within its memory   *)
(* and the list within its end, what is logged of a program is what its    *)
(* listed processes were charged with.                                     *)
(*                                                                         *)
(* Both are about sums, so the laws of Total, the sum rate.c and log.c are *)
(* modelled with, come first; FoldProofs has the induction they need.      *)
(***************************************************************************)
EXTENDS Accounting, FoldProofs, SequenceTheorems

First(s) == CHOOSE x \in s : TRUE

\* The equation of the fold Total is made of, for the subsets of S.
Sums(g, f, S) ==
    g = [s \in SUBSET S |-> IF s = {} THEN 0 ELSE f[First(s)] + g[s \ {First(s)}]]

LEMMA SumsExist ==
    ASSUME NEW S, IsFiniteSet(S), NEW f, \A x \in S : f[x] \in Nat
    PROVE  \E g \in [SUBSET S -> Nat] : Sums(g, f, S)
<1> DEFINE pick == [s \in SUBSET S |-> First(s)]
           step == [p \in (SUBSET S) \X Nat |->
                       IF p[1] = {} THEN 0 ELSE f[First(p[1])] + p[2]]
<1>1. \A s \in SUBSET S : s # {} => pick[s] \in s /\ f[First(s)] \in Nat
  BY DEF First
<1>2. step \in [(SUBSET S) \X Nat -> Nat]
  <2>1. \A p \in (SUBSET S) \X Nat : p[1] \in SUBSET S /\ p[2] \in Nat
    OBVIOUS
  <2>2. ASSUME NEW p \in (SUBSET S) \X Nat, p[1] # {} PROVE f[First(p[1])] + p[2] \in Nat
    <3>1. f[First(p[1])] \in Nat
      BY <1>1, <2>1, <2>2
    <3> QED BY <2>1, <3>1
  <2> QED BY <2>2
<1>3. PICK g \in [SUBSET S -> Nat] : Folds(g, S, 0, pick, step)
  <2> HIDE DEF pick, step
  <2> QED BY <1>1, <1>2, FoldExists
<1>4. \A s \in SUBSET S : g[s] = IF s = {} THEN 0 ELSE f[First(s)] + g[s \ {First(s)}]
  BY <1>3 DEF Folds
<1> QED BY <1>4 DEF Sums

LEMMA SumsUnique ==
    ASSUME NEW S, IsFiniteSet(S), NEW f, NEW g, NEW h, NEW T \in SUBSET S,
           Sums(g, f, S), Sums(h, f, T)
    PROVE  \A s \in SUBSET T : g[s] = h[s]
<1> DEFINE Q == {s \in SUBSET T : g[s] = h[s]}
<1>1. {} \in Q
  BY DEF Sums
<1>2. ASSUME NEW s \in SUBSET T, s # {}, s \ {First(s)} \in Q PROVE s \in Q
  BY <1>2 DEF Sums
<1>3. SUBSET T \subseteq Q
  <2>1. IsFiniteSet(T)
    BY FS_Subset
  <2>2. \A s \in SUBSET T : s # {} /\ (\A x \in s : s \ {x} \in Q) => s \in Q
    BY <1>2 DEF First
  <2> HIDE DEF Q
  <2> QED BY <1>1, <2>1, <2>2, SubsetInduction
<1> QED BY <1>3

LEMMA TotalIs ==
    ASSUME NEW S, NEW f
    PROVE  Total(f, S) = (CHOOSE g : Sums(g, f, S))[S]
  BY DEF Total, FoldFunctionOnSet, MapThenFoldSet, Sums, First

\* A sum loses an element and its value.
LEMMA TotalFirst ==
    ASSUME NEW S, IsFiniteSet(S), NEW f, \A x \in S : f[x] \in Nat
    PROVE  /\ Total(f, S) \in Nat
           /\ S = {} => Total(f, S) = 0
           /\ S # {} => Total(f, S) = f[First(S)] + Total(f, S \ {First(S)})
<1> DEFINE g == CHOOSE g : Sums(g, f, S)
           T == S \ {First(S)}
           h == CHOOSE h : Sums(h, f, T)
<1>1. Sums(g, f, S)
  BY SumsExist
<1>2. Sums(h, f, T)
  <2>1. IsFiniteSet(T)
    BY FS_RemoveElement
  <2> QED BY <2>1, SumsExist
<1>3. Total(f, S) = g[S] /\ Total(f, T) = h[T]
  BY TotalIs
<1>4. g[T] = h[T]
  <2> HIDE DEF g, h
  <2> QED BY <1>1, <1>2, SumsUnique
<1>5. PICK e \in [SUBSET S -> Nat] : Sums(e, f, S)
  BY SumsExist
<1>6. g[S] = e[S]
  <2> HIDE DEF g
  <2> QED BY <1>1, <1>5, SumsUnique
<1>7. g[S] = IF S = {} THEN 0 ELSE f[First(S)] + g[T]
  <2> HIDE DEF g
  <2> QED BY <1>1 DEF Sums
<1> HIDE DEF g, h
<1> QED BY <1>3, <1>4, <1>5, <1>6, <1>7

\* Every element of a sum may be taken out.
LEMMA TotalAny ==
    ASSUME NEW S, IsFiniteSet(S), NEW f, \A x \in S : f[x] \in Nat, NEW x \in S
    PROVE  Total(f, S) = f[x] + Total(f, S \ {x})
<1> DEFINE Law(T) == \A y \in T : Total(f, T) = f[y] + Total(f, T \ {y})
           Q == {T \in SUBSET S : Law(T)}
<1>1. {} \in Q
  OBVIOUS
<1>2. ASSUME NEW T \in SUBSET S, T # {}, \A y \in T : T \ {y} \in Q PROVE T \in Q
  <2> DEFINE z == First(T)
  <2>1. IsFiniteSet(T) /\ \A y \in T : f[y] \in Nat
    BY FS_Subset
  <2>2. z \in T /\ Total(f, T) = f[z] + Total(f, T \ {z})
    BY <1>2, <2>1, TotalFirst DEF First
  <2> HIDE DEF z
  <2>3. ASSUME NEW y \in T PROVE Total(f, T) = f[y] + Total(f, T \ {y})
    <3>1. CASE y = z
      BY <2>2, <3>1
    <3>2. CASE y # z
      <4>1. Law(T \ {z}) /\ Law(T \ {y})
        BY <1>2, <2>2, <2>3
      <4>2. y \in T \ {z} /\ z \in T \ {y}
        BY <2>2, <2>3, <3>2
      <4>3. /\ Total(f, T \ {z}) = f[y] + Total(f, (T \ {z}) \ {y})
            /\ Total(f, T \ {y}) = f[z] + Total(f, (T \ {y}) \ {z})
        BY <4>1, <4>2
      <4>4. (T \ {z}) \ {y} = (T \ {y}) \ {z}
        OBVIOUS
      <4>5. IsFiniteSet((T \ {y}) \ {z})
        BY <2>1, FS_RemoveElement
      <4>6. Total(f, (T \ {y}) \ {z}) \in Nat /\ f[y] \in Nat /\ f[z] \in Nat
        BY <2>1, <2>2, <2>3, <4>5, TotalFirst
      <4> QED BY <2>2, <4>3, <4>4, <4>6
    <3> QED BY <3>1, <3>2
  <2> QED BY <2>3
<1>3. S \in Q
  <2>1. SUBSET S \subseteq Q
    <3> HIDE DEF Q
    <3> QED BY <1>1, <1>2, SubsetInduction
  <2> QED BY <2>1
<1> QED BY <1>3

\* A sum depends on nothing but the values summed, under whatever names.
LEMMA TotalImage ==
    ASSUME NEW S, IsFiniteSet(S), NEW f, \A x \in S : f[x] \in Nat,
           NEW T, NEW g, NEW b \in [S -> T],
           \A x \in S : f[x] = g[b[x]],
           \A x, y \in S : x # y => b[x] # b[y],
           \A y \in T : \E x \in S : b[x] = y
    PROVE  Total(f, S) = Total(g, T)
<1> DEFINE Image(R) == {b[x] : x \in R}
           Q == {R \in SUBSET S : IsFiniteSet(Image(R)) /\ Total(f, R) = Total(g, Image(R))}
<1>1. {} \in Q
  <2>1. Image({}) = {}
    OBVIOUS
  <2>2. Total(f, {}) = 0 /\ Total(g, {}) = 0
    BY TotalFirst, FS_EmptySet
  <2> QED BY <2>1, <2>2, FS_EmptySet
<1>2. ASSUME NEW R \in SUBSET S, R # {}, \A x \in R : R \ {x} \in Q PROVE R \in Q
  <2>1. PICK x \in R : TRUE
    BY <1>2
  <2>2. IsFiniteSet(Image(R \ {x})) /\ Total(f, R \ {x}) = Total(g, Image(R \ {x}))
    BY <1>2, <2>1
  <2>3. Image(R) = Image(R \ {x}) \cup {b[x]} /\ Image(R) \ {b[x]} = Image(R \ {x})
    BY <2>1
  <2>4. IsFiniteSet(Image(R)) /\ IsFiniteSet(R)
    <3>1. IsFiniteSet(R)
      BY FS_Subset
    <3>2. IsFiniteSet(Image(R \ {x}) \cup {b[x]})
      <4> HIDE DEF Image
      <4> QED BY <2>2, FS_AddElement
    <3> QED BY <2>3, <3>1, <3>2
  <2>5. \A y \in Image(R) : g[y] \in Nat
    OBVIOUS
  <2>6. Total(f, R) = f[x] + Total(f, R \ {x})
    BY <2>1, <2>4, TotalAny
  <2>7. Total(g, Image(R)) = g[b[x]] + Total(g, Image(R) \ {b[x]})
    <3>1. b[x] \in Image(R)
      BY <2>1
    <3> HIDE DEF Image
    <3> QED BY <2>4, <2>5, <3>1, TotalAny
  <2> QED BY <2>1, <2>2, <2>3, <2>4, <2>6, <2>7
<1>3. S \in Q
  <2>1. SUBSET S \subseteq Q
    <3> HIDE DEF Q
    <3> QED BY <1>1, <1>2, SubsetInduction
  <2> QED BY <2>1
<1>4. Image(S) = T
  OBVIOUS
<1> QED BY <1>3, <1>4

LEMMA TotalSame ==
    ASSUME NEW S, IsFiniteSet(S), NEW f, NEW g, \A x \in S : f[x] \in Nat /\ f[x] = g[x]
    PROVE  Total(f, S) = Total(g, S)
<1> DEFINE b == [x \in S |-> x]
<1>1. b \in [S -> S] /\ \A x \in S : b[x] = x
  OBVIOUS
<1> HIDE DEF b
<1> QED BY <1>1, TotalImage

\* One value more, one value less.
LEMMA TotalChange ==
    ASSUME NEW S, IsFiniteSet(S), NEW f, NEW g, \A x \in S : f[x] \in Nat /\ g[x] \in Nat,
           NEW x \in S, \A y \in S : y # x => g[y] = f[y]
    PROVE  Total(g, S) + f[x] = Total(f, S) + g[x]
<1>1. IsFiniteSet(S \ {x})
  BY FS_RemoveElement
<1>2. /\ Total(f, S) = f[x] + Total(f, S \ {x})
      /\ Total(g, S) = g[x] + Total(g, S \ {x})
  BY TotalAny
<1>3. Total(f, S \ {x}) = Total(g, S \ {x})
  BY <1>1, TotalSame
<1>4. Total(f, S \ {x}) \in Nat
  BY <1>1, TotalFirst
<1> QED BY <1>2, <1>3, <1>4

LEMMA TotalZero ==
    ASSUME NEW S, IsFiniteSet(S), NEW f, \A x \in S : f[x] = 0
    PROVE  Total(f, S) = 0
<1> DEFINE Q == {T \in SUBSET S : Total(f, T) = 0}
<1>1. {} \in Q
  BY TotalFirst, FS_EmptySet
<1>2. ASSUME NEW T \in SUBSET S, T # {}, \A x \in T : T \ {x} \in Q PROVE T \in Q
  <2>1. PICK x \in T : TRUE
    BY <1>2
  <2>2. Total(f, T) = f[x] + Total(f, T \ {x})
    <3>1. IsFiniteSet(T) /\ \A y \in T : f[y] \in Nat
      BY FS_Subset
    <3> QED BY <2>1, <3>1, TotalAny
  <2> QED BY <1>2, <2>1, <2>2
<1>3. SUBSET S \subseteq Q
  <2> HIDE DEF Q
  <2> QED BY <1>1, <1>2, SubsetInduction
<1> QED BY <1>3

----------------------------------------------------------------------------
(* The circle of samples.                                                  *)

N == SAMPLE_SPACE_SIZE

\* Where the refresh k turns ago is: what % does on one turn of the circle.
Slot(i, k) == (i + N - k) % N

LEMMA SlotIs ==
    /\ \A i, k \in Sample : Slot(i, k) = IF k <= i THEN i - k ELSE i + N - k
    /\ \A i \in Sample : NextSample(i) = IF i + 1 < N THEN i + 1 ELSE 0
<1>1. N \in Nat /\ N > 0
  BY AccountingAssumption DEF AccountingAssumption, N
<1>2. ASSUME NEW x \in 0..2 * N - 1
      PROVE  x % N = IF x < N THEN x ELSE x - N
  <2> DEFINE q == x \div N
             r == x % N
  <2>1. q \in Int /\ r \in 0..N - 1 /\ x = N * q + r
    BY <1>1, SMTT(30)
  <2>2. q = 0 \/ q = 1
    <3>1. q < 2
      <4>1. SUFFICES ASSUME q >= 2 PROVE FALSE
        BY <2>1
      <4>2. N * q >= N * 2
        BY <1>1, <2>1, <4>1
      <4> QED BY <1>1, <2>1, <4>2
    <3>2. q > -1
      <4>1. SUFFICES ASSUME q <= -1 PROVE FALSE
        BY <2>1
      <4>2. N * q <= N * (-1)
        BY <1>1, <2>1, <4>1
      <4> QED BY <1>1, <2>1, <4>2
    <3> QED BY <2>1, <3>1, <3>2
  <2> QED BY <1>1, <2>1, <2>2
<1>3. ASSUME NEW i \in Sample, NEW k \in Sample
      PROVE  Slot(i, k) = IF k <= i THEN i - k ELSE i + N - k
  <2>1. i \in 0..N - 1 /\ k \in 0..N - 1
    BY DEF Sample, N
  <2>2. i + N - k \in 0..2 * N - 1
    BY <1>1, <2>1
  <2> QED BY <1>1, <1>2, <2>1, <2>2 DEF Slot
<1>4. ASSUME NEW i \in Sample PROVE NextSample(i) = IF i + 1 < N THEN i + 1 ELSE 0
  <2>1. i \in 0..N - 1
    BY DEF Sample, N
  <2>2. i + 1 \in 0..2 * N - 1
    BY <1>1, <2>1
  <2> QED BY <1>1, <1>2, <2>1, <2>2 DEF NextSample, N
<1> QED BY <1>3, <1>4

\* The slots of all the refreshes remembered are all the samples, once each;
\* a refresh moves every slot but one a turn back, and that one is the next.
LEMMA SlotTurns ==
    /\ N \in Nat /\ N > 0 /\ Sample = 0..N - 1
    /\ \A i \in Sample : NextSample(i) \in Sample
    /\ \A i, k \in Sample : Slot(i, k) \in Sample
    /\ \A i, j, k \in Sample : j # k => Slot(i, j) # Slot(i, k)
    /\ \A i, s \in Sample : \E k \in Sample : Slot(i, k) = s
    /\ \A i \in Sample : Slot(i, 0) = i
    /\ \A i, k \in Sample :
         Slot(NextSample(i), k) = IF k = 0 THEN NextSample(i) ELSE Slot(i, k - 1)
<1>1. N \in Nat /\ N > 0 /\ Sample = 0..N - 1
  BY AccountingAssumption DEF AccountingAssumption, N, Sample
<1>2. ASSUME NEW i \in Sample, NEW k \in Sample
      PROVE  /\ i \in Int /\ 0 <= i /\ i < N
             /\ k <= i => Slot(i, k) = i - k
             /\ k > i => Slot(i, k) = i + N - k
             /\ i + 1 < N => NextSample(i) = i + 1
             /\ i + 1 = N => NextSample(i) = 0
  BY <1>1, SlotIs
<1>3. ASSUME NEW i \in Sample, NEW k \in Sample
      PROVE  NextSample(i) \in Sample /\ Slot(i, 0) = i /\ Slot(i, k) \in Sample
  <2>1. 0 \in Sample
    BY <1>1
  <2>2. NextSample(i) \in Sample
    BY <1>1, <1>2
  <2>3. Slot(i, 0) = i
    BY <1>1, <1>2, <2>1
  <2>4. Slot(i, k) \in Sample
    <3>1. i \in 0..N - 1 /\ k \in 0..N - 1
      BY <1>1
    <3>2. CASE k <= i
      BY <1>1, <1>2, <3>1, <3>2
    <3>3. CASE k > i
      <4>1. Slot(i, k) = i + N - k
        BY <1>2, <3>3
      <4>2. i + N - k \in 0..N - 1
        BY <1>1, <3>1, <3>3
      <4> QED BY <1>1, <4>1, <4>2
    <3> QED BY <3>1, <3>2, <3>3
  <2> QED BY <2>2, <2>3, <2>4
<1>4. ASSUME NEW i \in Sample, NEW j \in Sample, NEW k \in Sample, j # k
      PROVE  Slot(i, j) # Slot(i, k)
  <2>1. i \in 0..N - 1 /\ j \in 0..N - 1 /\ k \in 0..N - 1
    BY <1>1
  <2>2. \/ j <= i /\ Slot(i, j) = i - j
        \/ j > i /\ Slot(i, j) = i + N - j
    BY <1>2, <2>1
  <2>3. \/ k <= i /\ Slot(i, k) = i - k
        \/ k > i /\ Slot(i, k) = i + N - k
    BY <1>2, <2>1
  <2> QED BY <1>1, <1>4, <2>1, <2>2, <2>3
<1>5. ASSUME NEW i \in Sample, NEW s \in Sample PROVE \E k \in Sample : Slot(i, k) = s
  <2>1. CASE s <= i
    <3>1. i - s \in Sample /\ Slot(i, i - s) = s
      BY <1>1, <2>1, SlotIs
    <3> QED BY <3>1
  <2>2. CASE s > i
    <3>1. i + N - s \in Sample /\ Slot(i, i + N - s) = s
      BY <1>1, <2>2, SlotIs
    <3> QED BY <3>1
  <2> QED BY <1>1, <2>1, <2>2
<1>6. ASSUME NEW i \in Sample, NEW k \in Sample
      PROVE  Slot(NextSample(i), k) = IF k = 0 THEN NextSample(i) ELSE Slot(i, k - 1)
  <2>0. i \in 0..N - 1 /\ k \in 0..N - 1 /\ NextSample(i) \in Sample
    BY <1>1, <1>3
  <2>1. CASE k = 0
    BY <1>3, <2>0, <2>1
  <2>2. CASE k # 0
    <3>1. k - 1 \in Sample
      BY <1>1, <2>0, <2>2
    <3>2. \/ k - 1 <= i /\ Slot(i, k - 1) = i - (k - 1)
          \/ k - 1 > i /\ Slot(i, k - 1) = i + N - (k - 1)
      BY <1>2, <2>0, <3>1
    <3>3. CASE i + 1 < N
      <4>1. NextSample(i) = i + 1
        BY <1>2, <3>3
      <4>2. \/ k <= i + 1 /\ Slot(i + 1, k) = i + 1 - k
            \/ k > i + 1 /\ Slot(i + 1, k) = (i + 1) + N - k
        BY <1>2, <2>0, <4>1
      <4> QED BY <1>1, <2>0, <2>2, <3>2, <4>1, <4>2
    <3>4. CASE i + 1 = N
      <4>1. NextSample(i) = 0
        BY <1>2, <3>4
      <4>2. Slot(0, k) = N - k
        BY <1>1, <1>2, <2>0, <2>2, <4>1
      <4> QED BY <1>1, <2>0, <2>2, <3>2, <3>4, <4>1, <4>2
    <3> QED BY <1>1, <2>0, <3>3, <3>4
  <2> QED BY <2>1, <2>2
<1> QED BY <1>1, <1>2, <1>3, <1>4, <1>5, <1>6

\* What the types of the counters rest on: nothing exceeds the packets, a
\* circle of samples not even in sum.
Bounded ==
    /\ \A p \in Proc : /\ bytes_last_sec[p] <= packets
                       /\ tot_Bps[p] <= packets
                       /\ Total(Bps[p], Sample) <= packets
                       /\ \A k \in 0..N : periods[p][k] <= packets
    /\ \A n \in Program : charged[n] <= packets

WInv == WindowExact /\ Bounded

\* The log as long as nothing but the list and the log's own memory was used:
\* no line of it is garbage, and a program that is not in the log yet will
\* enter it with what its process has received since it was found.
LogRight ==
    /\ \A n \in Program : log_processes[n] # Garbage
    /\ \A p \in Listed : log_processes[NameOf[p]] = Absent => tot_Bps[p] = bytes_last_sec[p]
    /\ fresh => \A p \in Listed : bytes_last_sec[p] = 0
    /\ LogExact

InBounds == ~overrun /\ Cardinality(Logged(log_processes)) <= LEN_INIT_VECTOR

AInv == WInv /\ (InBounds => LogRight)

----------------------------------------------------------------------------
(* The walk of update_log_process() over the list.                         *)

LogType == [Program -> 0..MaxLogged \cup {Absent, Garbage}]

\* The equation of the fold LogAll is made of, for the elements of a list.
Logs(g, list) ==
    g = [s \in SUBSET DOMAIN list |->
            IF s = {} THEN log_processes ELSE LogProcess(g[s \ {Max(s)}], list[Max(s)])]

LEMMA LogProcessType ==
    ASSUME TypeOK, NEW log \in LogType, NEW p \in Proc PROVE LogProcess(log, p) \in LogType
<1>1. /\ MaxPackets \in Nat /\ MaxLogged \in Nat /\ MaxLogged > MaxPackets
      /\ NameOf[p] \in Program
  BY AccountingAssumption DEF AccountingAssumption
<1>2. tot_Bps[p] \in 0..MaxPackets /\ bytes_last_sec[p] \in 0..MaxPackets
  BY DEF TypeOK, Count
<1>3. tot_Bps[p] \in 0..MaxLogged
  BY <1>1, <1>2
<1>4. ASSUME NEW a \in 0..MaxLogged \cup {Garbage}
      PROVE  Plus(a, bytes_last_sec[p]) \in 0..MaxLogged \cup {Garbage}
  BY <1>1, <1>2 DEF Plus, Garbage
<1>5. log[NameOf[p]] \in 0..MaxLogged \cup {Absent, Garbage}
  BY <1>1 DEF LogType
<1>6. CASE log[NameOf[p]] # Absent
  <2>1. Plus(log[NameOf[p]], bytes_last_sec[p]) \in 0..MaxLogged \cup {Absent, Garbage}
    BY <1>4, <1>5, <1>6
  <2> QED BY <1>6, <2>1 DEF LogProcess, LogType
<1>7. CASE log[NameOf[p]] = Absent
  BY <1>3, <1>7 DEF LogProcess, AllGarbage, LogType
<1> QED BY <1>6, <1>7

\* Seen from its first element: what each element makes of the log so far.
LEMMA LogFold ==
    ASSUME TypeOK, NEW list \in Seq(Proc)
    PROVE  \E F \in [0..Len(list) -> LogType] :
              /\ F[0] = log_processes
              /\ \A k \in 1..Len(list) : F[k] = LogProcess(F[k - 1], list[k])
              /\ FoldLeft(LogProcess, log_processes, list) = F[Len(list)]
<1> DEFINE D == 1..Len(list)
           pick == [s \in SUBSET D |-> Max(s)]
           step == [p \in (SUBSET D) \X LogType |->
                       IF p[1] = {} THEN log_processes ELSE LogProcess(p[2], list[Max(p[1])])]
<1>1. Len(list) \in Nat /\ DOMAIN list = D /\ IsFiniteSet(D) /\ \A i \in D : list[i] \in Proc
  BY FS_Interval
<1>2. log_processes \in LogType
  BY DEF TypeOK, LogType
<1>3. ASSUME NEW s \in SUBSET D, s # {} PROVE Max(s) \in s /\ list[Max(s)] \in Proc
  <2>1. IsFiniteSet(s) /\ s \subseteq Int
    <3>1. s \subseteq Int
      OBVIOUS
    <3> HIDE DEF D
    <3> QED BY <1>1, <3>1, FS_Subset
  <2>2. Max(s) \in s
    BY <1>3, <2>1, MaxIs
  <2> QED BY <1>1, <2>2
<1>4. step \in [(SUBSET D) \X LogType -> LogType]
  <2>1. ASSUME NEW p \in (SUBSET D) \X LogType, p[1] # {}
        PROVE  LogProcess(p[2], list[Max(p[1])]) \in LogType
    <3>1. p[1] \in SUBSET D /\ p[2] \in LogType
      OBVIOUS
    <3> QED BY <1>3, <2>1, <3>1, LogProcessType
  <2> QED BY <1>2, <2>1
<1>5. PICK e \in [SUBSET D -> LogType] : Folds(e, D, log_processes, pick, step)
  <2>1. \A s \in SUBSET D : s # {} => pick[s] \in s
    BY <1>3
  <2> HIDE DEF pick, step, D
  <2> QED BY <1>1, <1>2, <1>4, <2>1, FoldExists
<1>6. Logs(e, list)
  <2>1. ASSUME NEW s \in SUBSET D
        PROVE e[s] = IF s = {} THEN log_processes ELSE LogProcess(e[s \ {Max(s)}], list[Max(s)])
    <3>1. s \ {Max(s)} \in SUBSET D
      OBVIOUS
    <3>2. e[s \ {Max(s)}] \in LogType
      BY <3>1
    <3>3. e[s] = IF s = {} THEN log_processes ELSE step[<<s, e[s \ {pick[s]}]>>]
      <4> HIDE DEF pick, step
      <4> QED BY <1>5 DEF Folds
    <3> QED BY <3>2, <3>3
  <2> QED BY <1>1, <2>1 DEF Logs
<1> DEFINE g == CHOOSE g : Logs(g, list)
<1>7. Logs(g, list) /\ FoldLeft(LogProcess, log_processes, list) = g[D]
  <2>1. Logs(g, list)
    BY <1>6
  <2>2. FoldLeft(LogProcess, log_processes, list) = g[DOMAIN list]
    BY DEF FoldLeft, MapThenFoldSet, Logs
  <2> QED BY <1>1, <2>1, <2>2
<1> HIDE DEF g
<1>8. ASSUME NEW s \in SUBSET D
      PROVE  g[s] = IF s = {} THEN log_processes ELSE LogProcess(g[s \ {Max(s)}], list[Max(s)])
  BY <1>1, <1>7 DEF Logs
<1>9. \A s \in SUBSET D : g[s] \in LogType
  <2> DEFINE Q == {s \in SUBSET D : g[s] \in LogType}
  <2>1. {} \in Q
    BY <1>2, <1>8
  <2>2. ASSUME NEW s \in SUBSET D, s # {}, \A x \in s : s \ {x} \in Q PROVE s \in Q
    <3>1. Max(s) \in s /\ list[Max(s)] \in Proc
      BY <1>3, <2>2
    <3>2. g[s \ {Max(s)}] \in LogType
      BY <2>2, <3>1
    <3>3. g[s] = LogProcess(g[s \ {Max(s)}], list[Max(s)])
      BY <1>8, <2>2
    <3> QED BY <3>1, <3>2, <3>3, LogProcessType
  <2>3. SUBSET D \subseteq Q
    <3> HIDE DEF Q, D
    <3> QED BY <1>1, <2>1, <2>2, SubsetInduction
  <2> QED BY <2>3
<1> DEFINE F == [k \in 0..Len(list) |-> g[1..k]]
<1>10. F \in [0..Len(list) -> LogType]
  <2>1. \A k \in 0..Len(list) : 1..k \in SUBSET D
    BY <1>1
  <2> QED BY <1>9, <2>1
<1>11. F[0] = log_processes
  <2>1. 1..0 = {} /\ 0 \in 0..Len(list)
    BY <1>1
  <2> QED BY <1>8, <2>1
<1>12. ASSUME NEW k \in 1..Len(list) PROVE F[k] = LogProcess(F[k - 1], list[k])
  <2>1. /\ k \in Nat /\ 1..k \in SUBSET D /\ 1..k # {} /\ k \in 1..k
        /\ k - 1 \in 0..Len(list) /\ k \in 0..Len(list)
    <3>1. k \in Nat /\ 1 <= k /\ k <= Len(list)
      BY <1>1
    <3>2. k \in 1..k /\ k - 1 \in 0..Len(list) /\ k \in 0..Len(list)
      BY <1>1, <3>1
    <3>3. 1..k \subseteq D
      BY <1>1, <3>1
    <3> QED BY <3>1, <3>2, <3>3
  <2>2. Max(1..k) = k
    <3>1. IsFiniteSet(1..k) /\ 1..k \subseteq Int
      BY <2>1, FS_Interval
    <3>2. Max(1..k) \in 1..k /\ Max(1..k) >= k
      BY <2>1, <3>1, MaxIs
    <3> QED BY <2>1, <3>2
  <2>3. (1..k) \ {k} = 1..(k - 1)
    BY <2>1
  <2> QED BY <1>8, <2>1, <2>2, <2>3
<1>13. F[Len(list)] = g[D]
  BY <1>1
<1> HIDE DEF F, D
<1> QED BY <1>7, <1>10, <1>11, <1>12, <1>13

----------------------------------------------------------------------------
(* The steps, for the circle and the rates.                                *)

LEMMA Times ==
    ASSUME NEW d \in Nat, NEW a \in Int, NEW b \in Int, a >= b
    PROVE  d * a >= d * b /\ a * d >= b * d
  OBVIOUS

LEMMA DivBound ==
    ASSUME NEW a \in Nat, NEW d \in Nat, d > 0, NEW b \in Nat, a < d * b
    PROVE  a \div d \in Nat /\ a \div d < b
<1> DEFINE q == a \div d
           r == a % d
<1>1. q \in Int /\ r \in 0..d - 1 /\ a = d * q + r
  BY SMTT(30)
<1>2. q >= 0
  <2>1. SUFFICES ASSUME q <= -1 PROVE FALSE
    BY <1>1
  <2> HIDE DEF q, r
  <2>2. d * (-1) >= d * q
    BY <1>1, <2>1, Times
  <2> QED BY <1>1, <2>2
<1>3. q < b
  <2>1. SUFFICES ASSUME q >= b PROVE FALSE
    BY <1>1
  <2> HIDE DEF q, r
  <2>2. d * q >= d * b /\ d * b \in Nat /\ d * q \in Int
    BY <1>1, <2>1, Times
  <2> QED BY <1>1, <2>2
<1> QED BY <1>1, <1>2, <1>3

\* rate_net_stat() rounds a sum to at most itself.
LEMMA MeanIs ==
    \A sum \in Nat : Mean(sum) \in Nat /\ Mean(sum) <= sum /\ Mean(0) = 0
<1>1. N \in Nat /\ N > 0
  BY AccountingAssumption DEF AccountingAssumption, N
<1>2. ASSUME NEW sum \in Nat PROVE Mean(sum) \in Nat /\ Mean(sum) <= sum
  <2> DEFINE a == 2 * sum + N
             d == 2 * N
  <2>1. a \in Nat /\ d \in Nat /\ d > 0
    BY <1>1
  <2>2. a < d * (sum + 1)
    <3>1. N * sum >= 1 * sum
      BY <1>1, Times
    <3>2. d * (sum + 1) = 2 * (N * sum) + 2 * N /\ N * sum \in Nat
      BY <1>1
    <3> QED BY <1>1, <3>1, <3>2
  <2> HIDE DEF a, d
  <2>3. a \div d \in Nat /\ a \div d < sum + 1
    BY <2>1, <2>2, DivBound
  <2> QED BY <2>3 DEF Mean, N, a, d
<1>3. Mean(0) = 0
  BY <1>2
<1> QED BY <1>2, <1>3

\* Replacing the first elements of the list by another list.
LEMMA ListedAfter ==
    ASSUME TypeOK, NEW list \in Seq(Proc),
           proc' = list \o SubSeq(proc, Len(list) + 1, Len(proc)), total' = Len(list)
    PROVE  /\ proc' \in Seq(Proc) /\ total' \in 0..Len(proc')
           /\ Listed' = ToSet(list)
           /\ Len(list) >= Len(proc) => proc' = list
<1> DEFINE rest == SubSeq(proc, Len(list) + 1, Len(proc))
<1>1. /\ proc \in Seq(Proc) /\ Len(proc) \in Nat /\ Len(list) \in Nat
  BY DEF TypeOK
<1>2. rest \in Seq(Proc)
  <2>1. \A i \in Len(list) + 1..Len(proc) : i \in 1..Len(proc)
    BY <1>1
  <2> QED BY <1>1, <2>1
<1>3. proc' \in Seq(Proc) /\ Len(proc') = Len(list) + Len(rest) /\ Len(rest) \in Nat
  BY <1>2
<1>4. SubSeq(proc', 1, total') = list
  BY <1>1, <1>2
<1>5. Len(list) >= Len(proc) => rest = <<>>
  BY <1>1
<1>6. rest = <<>> => proc' = list
  BY <1>1, ConcatEmptySeq
<1>7. Listed' = ToSet(list)
  BY <1>4 DEF Listed
<1> HIDE DEF rest
<1> QED BY <1>1, <1>3, <1>5, <1>6, <1>7

LEMMA SeqOfSet ==
    ASSUME NEW S \in SUBSET Proc, NEW list \in SetToSeqs(S)
    PROVE  /\ list \in Seq(Proc)
           /\ ToSet(list) \subseteq S
           /\ \A i, j \in 1..Len(list) : i # j => list[i] # list[j]
<1> DEFINE n == Cardinality(S)
<1>1. n \in Nat
  BY FS_Subset, FS_CardinalityType, AccountingAssumption DEF AccountingAssumption
<1>2. list \in [1..n -> S] /\ \A i, j \in 1..n : i # j => list[i] # list[j]
  BY DEF SetToSeqs
<1> HIDE DEF n
<1>3. list \in Seq(S) /\ Len(list) = n
  BY <1>1, <1>2
<1> QED BY <1>2, <1>3 DEF ToSet

LEMMA SampleFinite == IsFiniteSet(Sample) /\ IsFiniteSet(1..N) /\ 1..N \subseteq 0..N
<1>1. N \in Nat /\ Sample = 0..N - 1
  BY SlotTurns
<1> QED BY <1>1, FS_Interval

\* A value is at most the sum it is part of.
LEMMA PartOfTotal ==
    ASSUME NEW S, IsFiniteSet(S), NEW f, \A x \in S : f[x] \in Nat
    PROVE  Total(f, S) \in Nat /\ \A x \in S : f[x] <= Total(f, S)
<1>1. ASSUME NEW x \in S PROVE f[x] <= Total(f, S)
  <2>1. IsFiniteSet(S \ {x})
    BY FS_RemoveElement
  <2>2. Total(f, S \ {x}) \in Nat
    BY <2>1, TotalFirst
  <2> QED BY <2>2, TotalAny
<1> QED BY <1>1, TotalFirst

\* What WInv says, with Slot for the place in the circle.
LEMMA WInvIs ==
    /\ TypeOK => /\ \A p \in Proc, s \in Sample : Bps[p][s] \in Nat
                 /\ \A p \in Proc, k \in 0..N : periods[p][k] \in Nat
                 /\ packets \in Nat /\ packets <= MaxPackets /\ MaxPackets \in Nat
                 /\ Listed \subseteq Proc
    /\ WindowExact <=>
        /\ TypeOK
        /\ \A p \in Listed, k \in Sample : Bps[p][Slot(idx_cir, k)] = periods[p][k]
        /\ \A p \in Listed : avg_Bps[p] = Mean(Total(periods[p], 1..N))
<1>1. MaxPackets \in Nat
  BY AccountingAssumption DEF AccountingAssumption
<1>2. ASSUME TypeOK
      PROVE  /\ \A p \in Proc, s \in Sample : Bps[p][s] \in Nat
             /\ \A p \in Proc, k \in 0..N : periods[p][k] \in Nat
             /\ packets \in Nat /\ packets <= MaxPackets
             /\ Listed \subseteq Proc
  <2>1. Count \subseteq Nat /\ \A n \in Count : n <= MaxPackets
    BY <1>1 DEF Count
  <2>2. \A p \in Proc, s \in Sample : Bps[p][s] \in Count
    BY <1>2 DEF TypeOK
  <2>3. \A p \in Proc, k \in 0..N : periods[p][k] \in Count
    BY <1>2 DEF TypeOK, N
  <2>4. packets \in Count /\ Listed \subseteq Proc
    BY <1>2 DEF TypeOK
  <2> QED BY <2>1, <2>2, <2>3, <2>4
<1>3. WindowExact <=>
        /\ TypeOK
        /\ \A p \in Listed, k \in Sample : Bps[p][Slot(idx_cir, k)] = periods[p][k]
        /\ \A p \in Listed : avg_Bps[p] = Mean(Total(periods[p], 1..N))
  BY DEF WindowExact, Slot, N
<1> QED BY <1>1, <1>2, <1>3

LEMMA InitWInv == Init => WInv
<1> SUFFICES ASSUME Init PROVE WInv
  OBVIOUS
<1>1. /\ N \in Nat /\ N > 0 /\ 0 \in Sample /\ MaxPackets \in Nat /\ MaxLogged \in Nat
      /\ NameOf \in [Proc -> Program]
  BY SlotTurns, AccountingAssumption DEF AccountingAssumption
<1>2. Listed = {}
  BY DEF Init, Listed, ToSet
<1>3. TypeOK
  <2>1. 0 \in Count /\ Absent \in 0..MaxLogged \cup {Absent, Garbage}
    BY <1>1 DEF Count
  <2>2. proc \in Seq(Proc) /\ total \in 0..Len(proc)
    BY DEF Init
  <2> QED BY <1>1, <1>2, <2>1, <2>2 DEF Init, TypeOK
<1>4. WindowExact
  BY <1>2, <1>3 DEF WindowExact
<1>5. ASSUME NEW p \in Proc PROVE Total(Bps[p], Sample) = 0
  <2>1. \A s \in Sample : Bps[p][s] = 0
    BY DEF Init
  <2> QED BY <2>1, SampleFinite, TotalZero
<1>6. Bounded
  BY <1>1, <1>5 DEF Init, Bounded, N
<1> QED BY <1>4, <1>6 DEF WInv

\* A packet goes to the slot of the current refresh, of which the rate does
\* not speak yet.
LEMMA AddWInv == ASSUME WInv, NEW p \in Proc, Add(p) PROVE WInv'
<1>1. /\ TypeOK /\ Bounded
      /\ \A q \in Listed, k \in Sample : Bps[q][Slot(idx_cir, k)] = periods[q][k]
      /\ \A q \in Listed : avg_Bps[q] = Mean(Total(periods[q], 1..N))
  BY WInvIs DEF WInv
<1>2. /\ packets' = packets + 1 /\ packets' <= MaxPackets
      /\ idx_cir \in Sample /\ p \in known
      /\ UNCHANGED <<known, proc, total, idx_cir, avg_Bps, log_processes, overrun>>
      /\ fresh' = FALSE
  BY <1>1, WInvIs DEF Add, TypeOK
<1>3. /\ Bps' \in [Proc -> [Sample -> Nat]]
      /\ Bps'[p][idx_cir] = Bps[p][idx_cir] + 1
      /\ \A s \in Sample : s # idx_cir => Bps'[p][s] = Bps[p][s]
      /\ \A q \in Proc : q # p => Bps'[q] = Bps[q]
  BY <1>1, <1>2 DEF Add, TypeOK, Count
<1>4. Total(Bps'[p], Sample) = Total(Bps[p], Sample) + 1
  <2>1. \A s \in Sample : Bps[p][s] \in Nat /\ Bps'[p][s] \in Nat
    BY <1>1, <1>3, WInvIs
  <2>2. Total(Bps'[p], Sample) + Bps[p][idx_cir] = Total(Bps[p], Sample) + Bps'[p][idx_cir]
    <3> DEFINE f == Bps[p]
               g == Bps'[p]
    <3>1. /\ idx_cir \in Sample /\ \A s \in Sample : f[s] \in Nat /\ g[s] \in Nat
          /\ \A s \in Sample : s # idx_cir => g[s] = f[s]
      BY <1>2, <1>3, <2>1
    <3> HIDE DEF f, g
    <3>2. Total(g, Sample) + f[idx_cir] = Total(f, Sample) + g[idx_cir]
      BY <3>1, SampleFinite, TotalChange
    <3> QED BY <3>2 DEF f, g
  <2>3. Total(Bps'[p], Sample) \in Nat /\ Total(Bps[p], Sample) \in Nat
    BY <2>1, SampleFinite, TotalFirst
  <2> QED BY <1>2, <1>3, <2>1, <2>2, <2>3
<1>5. ASSUME NEW q \in Proc
      PROVE  /\ Total(Bps'[q], Sample) <= packets'
             /\ \A s \in Sample : Bps'[q][s] \in 0..MaxPackets
  <2>1. Total(Bps[q], Sample) <= packets /\ Total(Bps[q], Sample) \in Nat /\ packets \in Nat
    BY <1>1, WInvIs, SampleFinite, TotalFirst DEF Bounded
  <2>2. Total(Bps'[q], Sample) <= packets'
    BY <1>2, <1>3, <1>4, <2>1
  <2>3. \A s \in Sample : Bps'[q][s] \in Nat
    BY <1>3
  <2>4. \A s \in Sample : Bps'[q][s] <= Total(Bps'[q], Sample)
    BY <2>3, SampleFinite, PartOfTotal
  <2>5. Total(Bps'[q], Sample) \in Nat
    BY <2>3, SampleFinite, PartOfTotal
  <2> QED BY <1>1, <1>2, <2>1, <2>2, <2>3, <2>4, <2>5, WInvIs
<1>6. /\ periods' \in [Proc -> [0..N -> 0..MaxPackets]]
      /\ \A q \in Proc, k \in 0..N : periods'[q][k] <= packets'
      /\ \A k \in 0..N : k # 0 => periods'[p][k] = periods[p][k]
      /\ periods'[p][0] = periods[p][0] + 1
      /\ \A q \in Proc : q # p => periods'[q] = periods[q]
  <2>1. N \in Nat /\ 0 \in 0..N
    BY SlotTurns
  <2>2. periods \in [Proc -> [0..N -> Nat]] /\ periods' = [periods EXCEPT ![p][0] = @ + 1]
    BY <1>1 DEF Add, TypeOK, Count, N
  <2>3. /\ periods' \in [Proc -> [0..N -> Nat]]
        /\ \A k \in 0..N : k # 0 => periods'[p][k] = periods[p][k]
        /\ periods'[p][0] = periods[p][0] + 1
        /\ \A q \in Proc : q # p => periods'[q] = periods[q]
    BY <2>1, <2>2
  <2>4. ASSUME NEW q \in Proc, NEW k \in 0..N
        PROVE  periods'[q][k] <= packets' /\ periods'[q][k] \in 0..MaxPackets
    <3>1. periods[q][k] <= packets /\ periods[q][k] \in Nat /\ packets \in Nat
      BY <1>1, WInvIs DEF Bounded
    <3>2. periods'[q][k] \in {periods[q][k], periods[q][k] + 1}
      BY <2>3
    <3> QED BY <1>1, <1>2, <3>1, <3>2, WInvIs
  <2> QED BY <2>3, <2>4
<1>7. /\ bytes_last_sec' \in [Proc -> 0..MaxPackets] /\ tot_Bps' \in [Proc -> 0..MaxPackets]
      /\ \A q \in Proc : bytes_last_sec'[q] <= packets' /\ tot_Bps'[q] <= packets'
  <2>1. /\ bytes_last_sec \in [Proc -> Nat] /\ tot_Bps \in [Proc -> Nat]
        /\ \A q \in Proc : bytes_last_sec[q] <= packets /\ tot_Bps[q] <= packets
        /\ packets \in Nat
    BY <1>1, WInvIs DEF TypeOK, Count, Bounded
  <2> QED BY <1>1, <1>2, <2>1, WInvIs DEF Add
<1>8. charged' \in [Program -> 0..MaxPackets] /\ \A n \in Program : charged'[n] <= packets'
  <2>1. /\ charged \in [Program -> Nat] /\ \A n \in Program : charged[n] <= packets
        /\ packets \in Nat
    BY <1>1, WInvIs DEF TypeOK, Count, Bounded
  <2>2. CASE p \in Listed
    <3>1. charged' = [charged EXCEPT ![NameOf[p]] = @ + 1]
      BY <2>2 DEF Add
    <3>2. \A n \in Program : charged'[n] \in {charged[n], charged[n] + 1}
      BY <2>1, <3>1
    <3>3. \A n \in Program : charged'[n] \in 0..MaxPackets /\ charged'[n] <= packets'
      BY <1>1, <1>2, <2>1, <3>2, WInvIs
    <3> QED BY <2>1, <3>1, <3>3
  <2>3. CASE p \notin Listed
    <3>1. charged' = charged
      BY <2>3 DEF Add
    <3> QED BY <1>1, <1>2, <2>1, <3>1, WInvIs
  <2> QED BY <2>2, <2>3
<1>9. Listed' = Listed /\ Listed \subseteq Proc
  BY <1>1, <1>2, WInvIs DEF Listed
<1>10. TypeOK'
  <2>1. Bps' \in [Proc -> [Sample -> 0..MaxPackets]]
    BY <1>3, <1>5
  <2>2. packets' \in 0..MaxPackets
    BY <1>1, <1>2, WInvIs
  <2> QED BY <1>1, <1>2, <1>6, <1>7, <1>8, <1>9, <2>1, <2>2 DEF TypeOK, Count, N
<1>11. Bounded'
  BY <1>5, <1>6, <1>7, <1>8 DEF Bounded
<1>12. ASSUME NEW q \in Listed, NEW k \in Sample
       PROVE  Bps'[q][Slot(idx_cir, k)] = periods'[q][k]
  <2>1. /\ Slot(idx_cir, k) \in Sample /\ k \in 0..N /\ q \in Proc
        /\ k # 0 => Slot(idx_cir, k) # idx_cir
        /\ Slot(idx_cir, 0) = idx_cir
    <3>1. N \in Nat /\ N > 0 /\ Sample = 0..N - 1
      BY SlotTurns
    <3>2. k \in 0..N /\ 0 \in Sample /\ q \in Proc
      BY <1>9, <3>1
    <3>3. Slot(idx_cir, k) \in Sample /\ Slot(idx_cir, 0) = idx_cir
      BY <1>2, SlotTurns
    <3>4. k # 0 => Slot(idx_cir, k) # Slot(idx_cir, 0)
      BY <1>2, <3>2, SlotTurns
    <3> QED BY <3>2, <3>3, <3>4
  <2>2. Bps[q][Slot(idx_cir, k)] = periods[q][k]
    BY <1>1
  <2>3. CASE q # p
    BY <1>3, <1>6, <2>1, <2>2, <2>3
  <2>4. CASE q = p /\ k = 0
    BY <1>3, <1>6, <2>1, <2>2, <2>4
  <2>5. CASE q = p /\ k # 0
    BY <1>3, <1>6, <2>1, <2>2, <2>5
  <2> QED BY <2>3, <2>4, <2>5
<1>13. ASSUME NEW q \in Listed PROVE avg_Bps'[q] = Mean(Total(periods'[q], 1..N))
  <2>1. \A k \in 1..N : periods[q][k] \in Nat /\ periods[q][k] = periods'[q][k]
    BY <1>1, <1>6, <1>9, SampleFinite, WInvIs
  <2>2. Total(periods[q], 1..N) = Total(periods'[q], 1..N)
    BY <2>1, SampleFinite, TotalSame
  <2> QED BY <1>1, <1>2, <2>2
<1>14. WindowExact'
  BY <1>2, <1>9, <1>10, <1>12, <1>13 DEF WindowExact, Slot, N
<1> QED BY <1>11, <1>14 DEF WInv

LEMMA LogAllType ==
    ASSUME TypeOK, NEW list \in Seq(Proc) PROVE LogAll(list) \in LogType
<1>1. CASE ToSet(list) \subseteq known
  <2>1. PICK F \in [0..Len(list) -> LogType] :
            FoldLeft(LogProcess, log_processes, list) = F[Len(list)]
    BY LogFold
  <2>2. Len(list) \in 0..Len(list)
    OBVIOUS
  <2> QED BY <1>1, <2>1, <2>2 DEF LogAll
<1>2. CASE ~(ToSet(list) \subseteq known)
  BY <1>2 DEF LogAll, AllGarbage, LogType
<1> QED BY <1>1, <1>2

\* The slot of the refresh that begins is cleared, and a turn later every slot
\* holds the refresh one further back: what the mean was taken of is by then
\* what lies before the refresh that begins.
LEMMA RefreshWInv ==
    ASSUME WInv, NEW order \in SetToSeqs(Listed), Refresh(order) PROVE WInv'
<1> DEFINE next == NextSample(idx_cir)
<1>1. /\ TypeOK /\ Bounded
      /\ \A q \in Listed, k \in Sample : Bps[q][Slot(idx_cir, k)] = periods[q][k]
      /\ \A q \in Listed : avg_Bps[q] = Mean(Total(periods[q], 1..N))
      /\ Listed \subseteq Proc /\ idx_cir \in Sample
  BY WInvIs DEF WInv, TypeOK
<1>0. /\ idx_cir \in Sample /\ MaxPackets \in Nat /\ packets \in Nat /\ 0 \in 0..MaxPackets
      /\ Count = 0..MaxPackets
  <2>1. idx_cir \in Sample /\ MaxPackets \in Nat /\ packets \in Nat
    BY <1>1, WInvIs
  <2> QED BY <2>1 DEF Count
<1>2. /\ N \in Nat /\ N > 0 /\ Sample = 0..N - 1 /\ next \in Sample
  BY <1>1, SlotTurns
<1>3. /\ proc' \in Seq(Proc) /\ total' \in 0..Len(proc') /\ Listed' = Listed
  <2>1. order \in Seq(Proc)
    BY <1>1, SeqOfSet
  <2>2. ToSet(order) = Listed /\ Len(order) = total /\ total' = total
    BY DEF Refresh
  <2>3. proc' = order \o SubSeq(proc, Len(order) + 1, Len(proc)) /\ total' = Len(order)
    BY <2>2 DEF Refresh
  <2> QED BY <1>1, <2>1, <2>2, <2>3, ListedAfter
<1>3a. \A j, k \in Sample : j # k => Slot(idx_cir, j) # Slot(idx_cir, k)
  BY <1>0, SlotTurns
<1>4. log_processes' \in LogType
  <2>1. log_processes' = LogAll(proc') \/ log_processes' = AllGarbage
    BY DEF Refresh, LogWalk
  <2>2. LogAll(proc') \in LogType
    BY <1>1, <1>3, LogAllType
  <2> QED BY <2>1, <2>2 DEF AllGarbage, LogType
<1>5. /\ UNCHANGED <<known, tot_Bps, packets, charged>>
      /\ idx_cir' = next /\ fresh' = TRUE /\ overrun' \in BOOLEAN
  BY <1>1 DEF Refresh, LogWalk, TypeOK
<1>6. /\ Bps' \in [Proc -> [Sample -> 0..MaxPackets]]
      /\ \A q \in Proc, s \in Sample :
           Bps'[q][s] = IF q \in Listed /\ s = next THEN 0 ELSE Bps[q][s]
      /\ \A q \in Proc : q \notin Listed => Bps'[q] = Bps[q]
  <2>1. Bps \in [Proc -> [Sample -> 0..MaxPackets]] /\ 0 \in 0..MaxPackets
    BY <1>0, <1>1 DEF TypeOK
  <2>2. Bps' = [q \in Proc |-> IF q \in Listed THEN [Bps[q] EXCEPT ![next] = 0] ELSE Bps[q]]
    BY DEF Refresh, Cleared
  <2> HIDE DEF next
  <2> QED BY <2>1, <2>2
<1>7. ASSUME NEW q \in Proc PROVE Total(Bps'[q], Sample) <= packets'
  <2>1. Total(Bps[q], Sample) <= packets
    BY <1>1 DEF Bounded
  <2>2. CASE q \notin Listed
    BY <1>5, <1>6, <2>1, <2>2
  <2>3. CASE q \in Listed
    <3> DEFINE f == Bps[q]
               g == Bps'[q]
    <3>1. next \in Sample /\ \A s \in Sample : f[s] \in Nat /\ g[s] \in Nat
      <4>1. next \in Sample
        BY <1>2
      <4>2. \A s \in Sample : f[s] \in Nat
        BY <1>1, WInvIs
      <4>3. \A s \in Sample : g[s] \in 0..MaxPackets
        BY <1>6
      <4> QED BY <4>1, <4>2, <4>3
    <3>2. g[next] = 0 /\ \A s \in Sample : s # next => g[s] = f[s]
      BY <1>2, <1>6, <2>3
    <3> HIDE DEF f, g, next
    <3>3. Total(g, Sample) + f[next] = Total(f, Sample) + g[next]
      BY <3>1, <3>2, SampleFinite, TotalChange
    <3>4. Total(g, Sample) \in Nat /\ Total(f, Sample) \in Nat
      BY <3>1, SampleFinite, TotalFirst
    <3>5. Total(g, Sample) <= Total(f, Sample)
      BY <1>2, <3>1, <3>2, <3>3, <3>4
    <3>6. Total(f, Sample) <= packets' /\ packets' \in Nat
      BY <1>1, <1>5, <2>1, WInvIs DEF f
    <3> QED BY <3>4, <3>5, <3>6 DEF g
  <2> QED BY <2>2, <2>3
<1>8. /\ periods' \in [Proc -> [0..N -> 0..MaxPackets]]
      /\ \A q \in Proc : periods'[q][0] = 0
      /\ \A q \in Proc, k \in 1..N : k - 1 \in 0..N /\ periods'[q][k] = periods[q][k - 1]
      /\ \A q \in Proc, k \in 0..N : periods'[q][k] <= packets'
  <2>1. periods \in [Proc -> [0..N -> 0..MaxPackets]] /\ 0 \in 0..MaxPackets
    BY <1>0, <1>1 DEF TypeOK, N
  <2>2. periods' = [q \in Proc |-> [k \in 0..N |-> IF k = 0 THEN 0 ELSE periods[q][k - 1]]]
    BY DEF Refresh, N
  <2>3. \A k \in 0..N : k # 0 => k - 1 \in 0..N
    BY <1>2
  <2>4. \A k \in 1..N : k \in 0..N /\ k # 0
    BY <1>2
  <2>5. periods' \in [Proc -> [0..N -> 0..MaxPackets]]
    BY <2>1, <2>2, <2>3
  <2>6. \A q \in Proc, k \in 0..N : periods'[q][k] <= packets'
    BY <1>1, <1>5, <2>2, <2>3, WInvIs DEF Bounded
  <2>7. \A q \in Proc : periods'[q][0] = 0
    BY <1>2, <2>2
  <2> QED BY <2>2, <2>3, <2>4, <2>5, <2>6, <2>7
<1>9. bytes_last_sec' \in [Proc -> 0..MaxPackets] /\ \A q \in Proc : bytes_last_sec'[q] <= packets'
  <2>1. bytes_last_sec \in [Proc -> 0..MaxPackets] /\ 0 \in 0..MaxPackets /\ packets \in Nat
    BY <1>0, <1>1 DEF TypeOK
  <2>2. bytes_last_sec' = [q \in Proc |-> IF q \in Listed THEN 0 ELSE bytes_last_sec[q]]
    BY DEF Refresh
  <2> QED BY <1>1, <1>5, <2>1, <2>2 DEF Bounded
\* What the mean is taken of: the samples, under the names of the refreshes.
<1>10. ASSUME NEW q \in Listed
       PROVE  Total(periods'[q], 1..N) = Total(Bps[q], Sample)
  <2> DEFINE f == periods'[q]
             g == Bps[q]
             b == [k \in 1..N |-> Slot(idx_cir, k - 1)]
  <2>1. \A k \in 1..N : k - 1 \in Sample
    BY <1>2
  <2>2. b \in [1..N -> Sample] /\ \A k \in 1..N : b[k] = Slot(idx_cir, k - 1)
    BY <1>1, <2>1, SlotTurns
  <2>3. ASSUME NEW k \in 1..N PROVE f[k] \in Nat /\ f[k] = g[b[k]]
    <3>1. /\ f[k] = periods[q][k - 1] /\ k - 1 \in 0..N /\ k - 1 \in Sample
      BY <1>1, <1>8, <2>1
    <3>2. periods[q][k - 1] \in Nat
      BY <1>1, <3>1, WInvIs
    <3>3. Bps[q][Slot(idx_cir, k - 1)] = periods[q][k - 1]
      BY <1>1, <3>1
    <3> QED BY <2>2, <3>1, <3>2, <3>3
  <2>4. ASSUME NEW j \in 1..N, NEW k \in 1..N, j # k PROVE b[j] # b[k]
    <3>1. j - 1 \in Sample /\ k - 1 \in Sample /\ j - 1 # k - 1
      BY <1>2, <2>1, <2>4
    <3>2. Slot(idx_cir, j - 1) # Slot(idx_cir, k - 1)
      BY <1>3a, <3>1
    <3> HIDE DEF b
    <3> QED BY <2>2, <2>4, <3>2
  <2>5. ASSUME NEW s \in Sample PROVE \E k \in 1..N : b[k] = s
    <3>1. PICK j \in Sample : Slot(idx_cir, j) = s
      BY <1>1, SlotTurns
    <3>2. j + 1 \in 1..N /\ (j + 1) - 1 = j
      BY <1>2, <3>1
    <3>3. b[j + 1] = s
      BY <2>2, <3>1, <3>2
    <3> QED BY <3>2, <3>3
  <2> HIDE DEF f, g, b
  <2>6. Total(f, 1..N) = Total(g, Sample)
    <3> DEFINE S == 1..N
    <3>1. /\ IsFiniteSet(S) /\ b \in [S -> Sample]
          /\ \A k \in S : f[k] \in Nat
          /\ \A k \in S : f[k] = g[b[k]]
          /\ \A j, k \in S : j # k => b[j] # b[k]
          /\ \A s \in Sample : \E k \in S : b[k] = s
      BY <2>2, <2>3, <2>4, <2>5, SampleFinite
    <3> HIDE DEF S
    <3>2. Total(f, S) = Total(g, Sample)
      BY <3>1, TotalImage
    <3> QED BY <3>2 DEF S
  <2> QED BY <2>6 DEF f, g
<1>11. ASSUME NEW q \in Listed PROVE avg_Bps'[q] = Mean(Total(periods'[q], 1..N))
  <2>1. avg_Bps'[q] = Rate(q)
    BY <1>1 DEF Refresh
  <2> QED BY <1>10, <2>1 DEF Rate
<1>12. avg_Bps' \in [Proc -> 0..MaxPackets]
  <2>1. ASSUME NEW q \in Proc PROVE Rate(q) \in 0..MaxPackets
    <3> DEFINE sum == Total(Bps[q], Sample)
    <3>1. \A s \in Sample : Bps[q][s] \in Nat
      BY <1>1, WInvIs
    <3>2. sum \in Nat
      BY <3>1, SampleFinite, TotalFirst
    <3>3. sum <= packets /\ packets \in Nat /\ packets <= MaxPackets /\ MaxPackets \in Nat
      BY <1>1, WInvIs DEF Bounded
    <3>4. Rate(q) = Mean(sum)
      BY DEF Rate
    <3> HIDE DEF sum
    <3>5. Mean(sum) \in Nat /\ Mean(sum) <= sum
      BY <3>2, MeanIs
    <3> QED BY <3>2, <3>3, <3>4, <3>5
  <2>2. avg_Bps \in [Proc -> 0..MaxPackets]
    BY <1>1 DEF TypeOK, Count
  <2>3. avg_Bps' = [q \in Proc |-> IF q \in Listed THEN Rate(q) ELSE avg_Bps[q]]
    BY DEF Refresh
  <2> QED BY <2>1, <2>2, <2>3
<1>13. ASSUME NEW q \in Listed, NEW k \in Sample
       PROVE  Bps'[q][Slot(next, k)] = periods'[q][k]
  <2>1. /\ k = 0 => Slot(next, k) = next
        /\ k # 0 => Slot(next, k) = Slot(idx_cir, k - 1)
    BY <1>0, SlotTurns
  <2>2. CASE k = 0
    BY <1>1, <1>2, <1>6, <1>8, <2>1, <2>2
  <2>3. CASE k # 0
    <3>1. k \in 1..N /\ k - 1 \in Sample /\ 0 \in Sample
      BY <1>2, <2>3
    <3>2. Slot(next, k) \in Sample /\ Slot(next, 0) = next /\ Slot(next, k) # Slot(next, 0)
      BY <1>2, <2>3, <3>1, SlotTurns
    <3>3. Bps'[q][Slot(next, k)] = Bps[q][Slot(next, k)]
      BY <1>1, <1>6, <3>2
    <3>4. Bps[q][Slot(idx_cir, k - 1)] = periods[q][k - 1]
      BY <1>1, <3>1
    <3>5. periods'[q][k] = periods[q][k - 1]
      BY <1>1, <1>8, <3>1
    <3> QED BY <2>1, <2>3, <3>3, <3>4, <3>5
  <2> QED BY <2>2, <2>3
<1>14. TypeOK'
  <2>1. /\ known \subseteq Proc /\ Listed \subseteq known /\ tot_Bps \in [Proc -> Count]
        /\ packets \in Count /\ charged \in [Program -> Count]
    BY <1>1 DEF TypeOK
  <2>2. log_processes' \in [Program -> 0..MaxLogged \cup {Absent, Garbage}]
    BY <1>4 DEF LogType
  <2>3. periods' \in [Proc -> [0..SAMPLE_SPACE_SIZE -> 0..MaxPackets]]
    BY <1>8 DEF N
  <2> QED BY <1>2, <1>3, <1>5, <1>6, <1>9, <1>12, <2>1, <2>2, <2>3 DEF TypeOK, Count
<1>15. Bounded'
  <2>1. \A q \in Proc : tot_Bps'[q] <= packets'
    BY <1>1, <1>5 DEF Bounded
  <2>2. \A n \in Program : charged'[n] <= packets'
    BY <1>1, <1>5 DEF Bounded
  <2> QED BY <1>7, <1>8, <1>9, <2>1, <2>2 DEF Bounded
<1>16. WindowExact'
  <2>1. \A q \in Listed', k \in Sample : Bps'[q][Slot(idx_cir', k)] = periods'[q][k]
    BY <1>3, <1>5, <1>13
  <2>2. \A q \in Listed' : avg_Bps'[q] = Mean(Total(periods'[q], 1..N))
    BY <1>3, <1>11
  <2> QED BY <1>14, <2>1, <2>2 DEF WindowExact, Slot, N
<1> QED BY <1>15, <1>16 DEF WInv

\* A process that is found starts with an empty circle and no past; the others
\* that are listed were listed before, and keep both.
LEMMA UpdateWInv ==
    ASSUME WInv, NEW found \in SUBSET Proc, NEW list \in SetToSeqs(found), Update(list)
    PROVE  WInv'
<1> DEFINE Born == ToSet(list) \ Listed
           zeros == [s \in Sample |-> 0]
           past == [k \in 0..N |-> 0]
<1>1. /\ TypeOK /\ Bounded
      /\ \A q \in Listed, k \in Sample : Bps[q][Slot(idx_cir, k)] = periods[q][k]
      /\ \A q \in Listed : avg_Bps[q] = Mean(Total(periods[q], 1..N))
      /\ Listed \subseteq Proc
  BY WInvIs DEF WInv
<1>2. /\ idx_cir \in Sample /\ MaxPackets \in Nat /\ packets \in Nat /\ 0 \in 0..MaxPackets
      /\ Count = 0..MaxPackets
  <2>1. idx_cir \in Sample /\ MaxPackets \in Nat /\ packets \in Nat
    BY <1>1, WInvIs DEF TypeOK
  <2> QED BY <2>1 DEF Count
<1>3. list \in Seq(Proc) /\ ToSet(list) \subseteq Proc
  <2>1. list \in Seq(Proc) /\ ToSet(list) \subseteq found
    BY SeqOfSet
  <2> QED BY <2>1
<1>4. /\ Bps' = [q \in Proc |-> IF q \in Born THEN zeros ELSE Bps[q]]
      /\ bytes_last_sec' = [q \in Proc |-> IF q \in Born THEN 0 ELSE bytes_last_sec[q]]
      /\ tot_Bps' = [q \in Proc |-> IF q \in Born THEN 0 ELSE tot_Bps[q]]
      /\ avg_Bps' = [q \in Proc |-> IF q \in Born THEN 0 ELSE avg_Bps[q]]
      /\ periods' = [q \in Proc |-> IF q \in Born THEN past ELSE periods[q]]
      /\ UNCHANGED <<idx_cir, log_processes, packets, charged, overrun>>
      /\ known' = Listed \cup ToSet(list) /\ fresh' = FALSE
  BY DEF Update, Survivors, N
<1>5. /\ proc' \in Seq(Proc) /\ total' \in 0..Len(proc') /\ Listed' = ToSet(list)
  <2>1. proc' = list \o SubSeq(proc, Len(list) + 1, Len(proc)) /\ total' = Len(list)
    BY DEF Update
  <2> QED BY <1>1, <1>3, <2>1, ListedAfter
<1>6. zeros \in [Sample -> 0..MaxPackets] /\ past \in [0..N -> 0..MaxPackets]
  BY <1>2
<1>7. /\ \A s \in Sample : zeros[s] = 0
      /\ \A k \in 0..N : past[k] = 0
  OBVIOUS
<1>8. Total(zeros, Sample) = 0 /\ Total(past, 1..N) = 0
  <2> HIDE DEF zeros, past
  <2>1. \A k \in 1..N : past[k] = 0
    BY <1>7, SampleFinite
  <2> QED BY <1>7, <2>1, SampleFinite, TotalZero
<1> HIDE DEF Born, zeros, past
<1>9. TypeOK'
  <2>1. /\ Bps' \in [Proc -> [Sample -> 0..MaxPackets]]
        /\ periods' \in [Proc -> [0..N -> 0..MaxPackets]]
    <3>1. /\ Bps \in [Proc -> [Sample -> 0..MaxPackets]]
          /\ periods \in [Proc -> [0..N -> 0..MaxPackets]]
      BY <1>1, <1>2 DEF TypeOK, N
    <3> QED BY <1>4, <1>6, <3>1
  <2>2. /\ bytes_last_sec' \in [Proc -> 0..MaxPackets]
        /\ tot_Bps' \in [Proc -> 0..MaxPackets]
        /\ avg_Bps' \in [Proc -> 0..MaxPackets]
    <3>1. /\ bytes_last_sec \in [Proc -> 0..MaxPackets]
          /\ tot_Bps \in [Proc -> 0..MaxPackets]
          /\ avg_Bps \in [Proc -> 0..MaxPackets]
      BY <1>1, <1>2 DEF TypeOK
    <3> QED BY <1>2, <1>4, <3>1
  <2>3. /\ packets' \in Count /\ charged' \in [Program -> Count] /\ overrun' \in BOOLEAN
        /\ log_processes' \in [Program -> 0..MaxLogged \cup {Absent, Garbage}]
        /\ idx_cir' \in Sample /\ fresh' \in BOOLEAN
    BY <1>1, <1>4 DEF TypeOK
  <2>4. known' \subseteq Proc /\ Listed' \subseteq known'
    BY <1>1, <1>3, <1>4, <1>5
  <2> QED BY <1>2, <1>5, <2>1, <2>2, <2>3, <2>4 DEF TypeOK, N
<1>10. Bounded'
  <2>1. ASSUME NEW q \in Proc
        PROVE  /\ bytes_last_sec'[q] <= packets'
               /\ tot_Bps'[q] <= packets'
               /\ Total(Bps'[q], Sample) <= packets'
               /\ \A k \in 0..N : periods'[q][k] <= packets'
    <3>1. CASE q \in Born
      <4>1. /\ Bps'[q] = zeros /\ periods'[q] = past
            /\ bytes_last_sec'[q] = 0 /\ tot_Bps'[q] = 0 /\ packets' = packets
        BY <1>4, <3>1
      <4> QED BY <1>2, <1>7, <1>8, <4>1
    <3>2. CASE q \notin Born
      <4>1. /\ Bps'[q] = Bps[q] /\ periods'[q] = periods[q] /\ packets' = packets
            /\ bytes_last_sec'[q] = bytes_last_sec[q] /\ tot_Bps'[q] = tot_Bps[q]
        BY <1>4, <3>2
      <4> QED BY <1>1, <4>1 DEF Bounded
    <3> QED BY <3>1, <3>2
  <2>2. \A n \in Program : charged'[n] <= packets'
    BY <1>1, <1>4 DEF Bounded
  <2> QED BY <2>1, <2>2 DEF Bounded
<1>11. ASSUME NEW q \in Listed'
       PROVE  /\ \A k \in Sample : Bps'[q][Slot(idx_cir', k)] = periods'[q][k]
              /\ avg_Bps'[q] = Mean(Total(periods'[q], 1..N))
  <2>0. q \in Proc /\ idx_cir' = idx_cir
    BY <1>3, <1>4, <1>5
  <2>1. CASE q \in Born
    <3>1. Bps'[q] = zeros /\ periods'[q] = past /\ avg_Bps'[q] = 0
      BY <1>4, <2>0, <2>1
    <3>2. \A k \in Sample : Slot(idx_cir, k) \in Sample
      BY <1>2, SlotTurns
    <3>3. \A k \in Sample : k \in 0..N
      <4>1. N \in Nat /\ Sample = 0..N - 1
        BY SlotTurns
      <4> QED BY <4>1
    <3>4. Mean(0) = 0
      BY MeanIs
    <3> QED BY <1>7, <1>8, <2>0, <3>1, <3>2, <3>3, <3>4
  <2>2. CASE q \notin Born
    <3>1. q \in Listed
      BY <1>5, <2>2 DEF Born
    <3>2. Bps'[q] = Bps[q] /\ periods'[q] = periods[q] /\ avg_Bps'[q] = avg_Bps[q]
      BY <1>4, <2>0, <2>2
    <3> QED BY <1>1, <2>0, <3>1, <3>2
  <2> QED BY <2>1, <2>2
<1>12. WindowExact'
  BY <1>9, <1>11 DEF WindowExact, Slot, N
<1> QED BY <1>10, <1>12 DEF WInv

LEMMA WInvStep == WInv /\ [Next]_vars => WInv'
<1> SUFFICES ASSUME WInv, [Next]_vars PROVE WInv'
  OBVIOUS
<1>1. CASE \E p \in Proc : Add(p)
  BY <1>1, AddWInv
<1>2. CASE \E order \in SetToSeqs(Listed) : Refresh(order)
  BY <1>2, RefreshWInv
<1>3. CASE \E found \in SUBSET Proc : \E list \in SetToSeqs(found) : Update(list)
  BY <1>3, UpdateWInv
<1>4. CASE UNCHANGED vars
  <2>1. UNCHANGED <<known, proc, total, fresh, idx_cir, Bps, bytes_last_sec, tot_Bps, avg_Bps,
                    log_processes, packets, periods, charged, overrun>>
    BY <1>4 DEF vars, stats
  <2>2. Listed' = Listed
    BY <2>1 DEF Listed
  <2>3. TypeOK' /\ Bounded' /\ WindowExact
    BY <2>1, <2>2 DEF WInv, WindowExact, TypeOK, Bounded
  <2>4. WindowExact'
    BY <2>1, <2>2, <2>3 DEF WindowExact
  <2> QED BY <2>3, <2>4 DEF WInv
<1> QED BY <1>1, <1>2, <1>3, <1>4 DEF Next

\* The rate shown of a process is the mean of the refreshes that had ended by
\* then, for any number of samples, through every update of the list
\* (rate.c: rate_add_rx(), rate_calc(), rate_update()).
THEOREM RatesExact == Spec => []WindowExact
<1>1. Init => WInv
  BY InitWInv
<1>2. WInv /\ [Next]_vars => WInv'
  BY WInvStep
<1>3. WInv => WindowExact
  BY DEF WInv
<1> QED BY <1>1, <1>2, <1>3, PTL DEF Spec

----------------------------------------------------------------------------
(* The steps, for the log of a list that grows.                            *)

\* The listed processes of a program.
Members(n) == {p \in Listed : NameOf[p] = n}

\* A sum is not less than the sum of a part.
LEMMA TotalPart ==
    ASSUME NEW S, IsFiniteSet(S), NEW f, \A x \in S : f[x] \in Nat, NEW T \in SUBSET S
    PROVE  Total(f, T) \in Nat /\ Total(f, S) \in Nat /\ Total(f, T) <= Total(f, S)
<1> DEFINE Q == {R \in SUBSET S : \A U \in SUBSET R : Total(f, U) <= Total(f, R)}
<1>1. ASSUME NEW R \in SUBSET S
      PROVE  Total(f, R) \in Nat /\ IsFiniteSet(R) /\ \A x \in R : f[x] \in Nat
  <2>1. IsFiniteSet(R) /\ \A x \in R : f[x] \in Nat
    BY FS_Subset
  <2> QED BY <2>1, TotalFirst
<1>2. {} \in Q
  BY <1>1
<1>3. ASSUME NEW R \in SUBSET S, R # {}, \A x \in R : R \ {x} \in Q PROVE R \in Q
  <2>1. ASSUME NEW U \in SUBSET R, U # R PROVE Total(f, U) <= Total(f, R)
    <3>1. PICK x \in R : x \notin U
      BY <2>1
    <3>2. Total(f, U) <= Total(f, R \ {x})
      BY <1>3, <3>1
    <3>3. Total(f, R) = f[x] + Total(f, R \ {x})
      BY <1>1, TotalAny
    <3>4. R \ {x} \in SUBSET S /\ U \in SUBSET S /\ f[x] \in Nat
      BY <1>1
    <3>5. Total(f, U) \in Nat /\ Total(f, R \ {x}) \in Nat
      BY <1>1, <3>4
    <3> QED BY <3>2, <3>3, <3>4, <3>5
  <2>2. Total(f, R) <= Total(f, R)
    BY <1>1
  <2> QED BY <2>1, <2>2
<1>4. SUBSET S \subseteq Q
  <2> HIDE DEF Q
  <2> QED BY <1>2, <1>3, SubsetInduction
<1> QED BY <1>1, <1>4

LEMMA MembersAre ==
    ASSUME TypeOK
    PROVE  /\ Listed \subseteq Proc /\ bytes_last_sec \in [Proc -> Nat]
           /\ \A p \in Listed : NameOf[p] \in Program /\ p \in Members(NameOf[p])
           /\ \A n \in Program : /\ Members(n) \subseteq Listed /\ IsFiniteSet(Members(n))
                                 /\ \A p \in Members(n) : bytes_last_sec[p] \in Nat
                                 /\ Unlogged(n) = Total(bytes_last_sec, Members(n))
                                 /\ Unlogged(n) \in Nat
<1>1. Listed \subseteq Proc /\ bytes_last_sec \in [Proc -> Nat]
  BY DEF TypeOK, Count
<1>2. \A p \in Listed : NameOf[p] \in Program /\ p \in Members(NameOf[p])
  BY <1>1, AccountingAssumption DEF AccountingAssumption, Members
<1>3. ASSUME NEW n \in Program
      PROVE  /\ Members(n) \subseteq Listed /\ IsFiniteSet(Members(n))
             /\ \A p \in Members(n) : bytes_last_sec[p] \in Nat
             /\ Unlogged(n) = Total(bytes_last_sec, Members(n))
  <2>1. Members(n) \subseteq Listed /\ Members(n) \subseteq Proc
    BY <1>1 DEF Members
  <2>2. IsFiniteSet(Members(n))
    BY <2>1, FS_Subset, AccountingAssumption DEF AccountingAssumption
  <2> QED BY <1>1, <2>1, <2>2 DEF Unlogged, Members
<1>4. \A n \in Program : Unlogged(n) \in Nat
  BY <1>3, TotalFirst
<1> QED BY <1>1, <1>2, <1>3, <1>4

LEMMA InitLog == Init => LogRight
<1> SUFFICES ASSUME Init PROVE LogRight
  OBVIOUS
<1>1. TypeOK
  BY InitWInv DEF WInv, WindowExact
<1>2. Listed = {}
  BY DEF Init, Listed, ToSet
<1>3. ASSUME NEW n \in Program
      PROVE  log_processes[n] = Absent /\ Log(n) = 0 /\ charged[n] = 0 /\ Unlogged(n) = 0
  <2>1. Members(n) = {}
    BY <1>2 DEF Members
  <2>2. Unlogged(n) = 0
    BY <1>1, <2>1, MembersAre, TotalZero
  <2> QED BY <2>2 DEF Init, Log
<1> QED BY <1>2, <1>3 DEF LogRight, LogExact, Absent, Garbage

\* A packet of a listed process is charged to its program and not logged yet.
LEMMA AddLog == ASSUME WInv, LogRight, NEW p \in Proc, Add(p) PROVE LogRight'
<1>1. TypeOK /\ TypeOK'
  BY AddWInv DEF WInv, WindowExact
<1>2. /\ UNCHANGED <<known, proc, total, log_processes>> /\ fresh' = FALSE
      /\ bytes_last_sec' = [bytes_last_sec EXCEPT ![p] = @ + 1]
      /\ tot_Bps' = [tot_Bps EXCEPT ![p] = @ + 1]
      /\ charged' = IF p \in Listed THEN [charged EXCEPT ![NameOf[p]] = @ + 1] ELSE charged
  BY DEF Add
<1>3. Listed' = Listed
  BY <1>2 DEF Listed
<1>4. ASSUME NEW n \in Program PROVE Log(n)' = Log(n) /\ Members(n)' = Members(n)
  BY <1>2, <1>3 DEF Log, Members
<1>5. /\ bytes_last_sec \in [Proc -> Nat] /\ bytes_last_sec' \in [Proc -> Nat]
      /\ tot_Bps \in [Proc -> Nat] /\ charged \in [Program -> Nat]
      /\ bytes_last_sec'[p] = bytes_last_sec[p] + 1 /\ tot_Bps'[p] = tot_Bps[p] + 1
      /\ \A q \in Proc : q # p => /\ bytes_last_sec'[q] = bytes_last_sec[q]
                                  /\ tot_Bps'[q] = tot_Bps[q]
  <2>1. /\ bytes_last_sec \in [Proc -> Nat] /\ tot_Bps \in [Proc -> Nat]
        /\ charged \in [Program -> Nat]
    BY <1>1 DEF TypeOK, Count
  <2> QED BY <1>2, <2>1
<1>6. ASSUME NEW n \in Program
      PROVE  /\ Unlogged(n)' = Total(bytes_last_sec', Members(n))
             /\ Unlogged(n) = Total(bytes_last_sec, Members(n))
             /\ IsFiniteSet(Members(n)) /\ Members(n) \subseteq Proc /\ Unlogged(n) \in Nat
  <2>1. Unlogged(n)' = Total(bytes_last_sec', Members(n))
    BY <1>3 DEF Unlogged, Members
  <2> QED BY <1>1, <2>1, MembersAre
<1>7. ASSUME NEW n \in Program
      PROVE  Unlogged(n)' = Unlogged(n) + (IF p \in Members(n) THEN 1 ELSE 0)
  <2> DEFINE f == bytes_last_sec
             g == bytes_last_sec'
             S == Members(n)
  <2>1. /\ IsFiniteSet(S) /\ \A q \in S : f[q] \in Nat /\ g[q] \in Nat
        /\ \A q \in S : q # p => g[q] = f[q]
        /\ g[p] = f[p] + 1 /\ f[p] \in Nat
    BY <1>5, <1>6
  <2>2. CASE p \in Members(n)
    <3>1. p \in S
      BY <2>2
    <3> HIDE DEF f, g, S
    <3>2. Total(g, S) + f[p] = Total(f, S) + g[p]
      BY <2>1, <3>1, TotalChange
    <3>3. Total(g, S) \in Nat /\ Total(f, S) \in Nat
      BY <2>1, TotalFirst
    <3>4. Total(g, S) = Total(f, S) + 1
      BY <2>1, <3>2, <3>3
    <3> QED BY <1>6, <2>2, <3>4 DEF f, g, S
  <2>3. CASE p \notin Members(n)
    <3>1. p \notin S
      BY <2>3
    <3> HIDE DEF f, g, S
    <3>2. Total(f, S) = Total(g, S)
      BY <2>1, <3>1, TotalSame
    <3> QED BY <1>6, <2>3, <3>2 DEF f, g, S
  <2> QED BY <2>2, <2>3
<1>8. ASSUME NEW n \in Program
      PROVE  charged'[n] = charged[n] + (IF p \in Members(n) THEN 1 ELSE 0)
  BY <1>2, <1>5 DEF Members
<1>9. LogExact'
  <2>1. ASSUME NEW n \in Program PROVE Log(n)' + Unlogged(n)' = charged'[n]
    <3>1. Log(n) \in Int /\ Unlogged(n) \in Nat /\ charged[n] \in Nat
      <4>1. log_processes[n] \in Int
        <5>1. log_processes[n] \in 0..MaxLogged \cup {Absent, Garbage}
          BY <1>1 DEF TypeOK
        <5> QED BY <5>1 DEF Absent, Garbage
      <4> QED BY <1>5, <1>6, <4>1 DEF Log
    <3>2. Log(n) + Unlogged(n) = charged[n]
      BY DEF LogRight, LogExact
    <3> QED BY <1>4, <1>7, <1>8, <3>1, <3>2
  <2> QED BY <2>1 DEF LogExact
<1>10. ASSUME NEW q \in Listed, log_processes[NameOf[q]] = Absent
       PROVE  tot_Bps'[q] = bytes_last_sec'[q]
  <2>1. q \in Proc /\ tot_Bps[q] = bytes_last_sec[q]
    BY <1>1, <1>10, MembersAre DEF LogRight
  <2> QED BY <1>5, <2>1
<1> QED BY <1>2, <1>3, <1>9, <1>10 DEF LogRight

\* The list is found anew just after a refresh: there is nothing to log.
LEMMA UpdateLog ==
    ASSUME WInv, LogRight, NEW found \in SUBSET Proc, NEW list \in SetToSeqs(found),
           Update(list)
    PROVE  LogRight'
<1>1. TypeOK /\ TypeOK'
  BY UpdateWInv DEF WInv, WindowExact
<1>2. /\ fresh /\ fresh' = FALSE
      /\ proc' = list \o SubSeq(proc, Len(list) + 1, Len(proc)) /\ total' = Len(list)
      /\ UNCHANGED <<log_processes, charged>>
  BY DEF Update
<1>3. Listed' = ToSet(list)
  <2>1. list \in Seq(Proc)
    BY SeqOfSet
  <2> QED BY <1>1, <1>2, <2>1, ListedAfter
<1>4. ASSUME NEW q \in Listed'
      PROVE  /\ bytes_last_sec'[q] = 0
             /\ log_processes[NameOf[q]] = Absent => tot_Bps'[q] = 0
  <2>1. q \in Proc
    BY <1>1, <1>4 DEF TypeOK
  <2>2. /\ bytes_last_sec' = [p \in Proc |-> IF p \in ToSet(list) \ Listed THEN 0
                                             ELSE bytes_last_sec[p]]
        /\ tot_Bps' = [p \in Proc |-> IF p \in ToSet(list) \ Listed THEN 0 ELSE tot_Bps[p]]
    BY DEF Update, Survivors
  <2>3. CASE q \notin Listed
    BY <1>3, <1>4, <2>1, <2>2, <2>3
  <2>4. CASE q \in Listed
    <3>1. /\ bytes_last_sec[q] = 0
          /\ log_processes[NameOf[q]] = Absent => tot_Bps[q] = bytes_last_sec[q]
      BY <1>2, <2>4 DEF LogRight
    <3> QED BY <2>1, <2>2, <2>4, <3>1
  <2> QED BY <2>3, <2>4
<1>5. ASSUME NEW n \in Program PROVE Unlogged(n)' = 0 /\ Unlogged(n) = 0
  <2>1. Unlogged(n) = 0
    <3>1. \A p \in Members(n) : bytes_last_sec[p] = 0
      BY <1>2 DEF LogRight, Members
    <3> QED BY <1>1, <3>1, MembersAre, TotalZero
  <2>2. Unlogged(n)' = 0
    <3> DEFINE S == {p \in Listed' : NameOf[p] = n}
               g == bytes_last_sec'
    <3>1. Unlogged(n)' = Total(g, S)
      BY DEF Unlogged
    <3>2. S \in SUBSET Proc /\ \A p \in S : g[p] = 0
      BY <1>1, <1>4 DEF TypeOK
    <3> HIDE DEF S, g
    <3>3. IsFiniteSet(S)
      BY <3>2, FS_Subset, AccountingAssumption DEF AccountingAssumption
    <3> QED BY <3>1, <3>2, <3>3, TotalZero
  <2> QED BY <2>1, <2>2
<1>6. LogExact'
  <2>1. ASSUME NEW n \in Program PROVE Log(n)' + Unlogged(n)' = charged'[n]
    <3>1. Log(n)' = Log(n) /\ charged' = charged
      BY <1>2 DEF Log
    <3>2. Log(n) + Unlogged(n) = charged[n]
      BY DEF LogRight, LogExact
    <3> QED BY <1>5, <3>1, <3>2
  <2> QED BY <2>1 DEF LogExact
<1>7. \A n \in Program : log_processes'[n] # Garbage
  BY <1>2 DEF LogRight
<1>8. \A q \in Listed' : log_processes'[NameOf[q]] = Absent => tot_Bps'[q] = bytes_last_sec'[q]
  BY <1>2, <1>4
<1> QED BY <1>2, <1>3, <1>6, <1>7, <1>8 DEF LogRight

\* The processes of a program among the first k of a list.
Among(list, n, k) == {p \in Proc : NameOf[p] = n /\ \E j \in 1..k : list[j] = p}

\* What update_log_process() has made of a program's line after k processes of
\* a list: it gained their bytes, and was entered if one of them was of it.
Walked(log, list, n, k) ==
    log[n] = IF log_processes[n] = Absent /\ Among(list, n, k) = {} THEN Absent
             ELSE Log(n) + Total(bytes_last_sec, Among(list, n, k))

LEMMA AmongIs ==
    ASSUME TypeOK, NEW list \in Seq(Proc),
           \A i, j \in 1..Len(list) : i # j => list[i] # list[j]
    PROVE  /\ \A n \in Program, k \in Nat : /\ Among(list, n, k) \subseteq Proc
                                            /\ IsFiniteSet(Among(list, n, k))
           /\ \A n \in Program : Among(list, n, 0) = {}
           /\ \A n \in Program, k \in 1..Len(list) :
                IF NameOf[list[k]] = n
                THEN /\ Among(list, n, k) = Among(list, n, k - 1) \cup {list[k]}
                     /\ list[k] \notin Among(list, n, k - 1)
                ELSE Among(list, n, k) = Among(list, n, k - 1)
<1>1. ASSUME NEW n \in Program, NEW k \in Nat
      PROVE  Among(list, n, k) \subseteq Proc /\ IsFiniteSet(Among(list, n, k))
  <2>1. Among(list, n, k) \subseteq Proc
    BY DEF Among
  <2> QED BY <2>1, FS_Subset, AccountingAssumption DEF AccountingAssumption
<1>2. \A n \in Program : Among(list, n, 0) = {}
  BY DEF Among
<1>3. ASSUME NEW n \in Program, NEW k \in 1..Len(list)
      PROVE  /\ NameOf[list[k]] = n => /\ Among(list, n, k) = Among(list, n, k - 1) \cup {list[k]}
                                       /\ list[k] \notin Among(list, n, k - 1)
             /\ NameOf[list[k]] # n => Among(list, n, k) = Among(list, n, k - 1)
  <2>1. Len(list) \in Nat /\ list[k] \in Proc
    OBVIOUS
  <2>2. \A p : (\E j \in 1..k : list[j] = p) <=> p = list[k] \/ \E j \in 1..k - 1 : list[j] = p
    BY <2>1
  <2>3. \A j \in 1..k - 1 : list[j] # list[k]
    <3>1. \A j \in 1..k - 1 : j \in 1..Len(list) /\ j # k
      BY <2>1
    <3> QED BY <3>1
  <2>4. \A p \in Among(list, n, k) : p = list[k] \/ p \in Among(list, n, k - 1)
    BY <2>2 DEF Among
  <2>5. /\ Among(list, n, k - 1) \subseteq Among(list, n, k)
        /\ list[k] \notin Among(list, n, k - 1)
    BY <2>2, <2>3 DEF Among
  <2>6. list[k] \in Among(list, n, k) <=> NameOf[list[k]] = n
    BY <2>1, <2>2 DEF Among
  <2> QED BY <2>4, <2>5, <2>6
<1> QED BY <1>1, <1>2, <1>3

LEMMA AmongListed ==
    ASSUME TypeOK, NEW list \in Seq(Proc), ToSet(list) = Listed,
           \A i, j \in 1..Len(list) : i # j => list[i] # list[j],
           NEW n \in Program
    PROVE  /\ Among(list, n, Len(list)) = Members(n)
           /\ \A k \in 0..Len(list) :
                /\ Total(bytes_last_sec, Among(list, n, k)) \in Nat
                /\ Total(bytes_last_sec, Among(list, n, k)) <= Unlogged(n)
                /\ \A p \in Among(list, n, k) : bytes_last_sec[p] \in Nat
<1>1. ToSet(list) = {list[j] : j \in 1..Len(list)} /\ Len(list) \in Nat
  BY DEF ToSet
<1>2. ASSUME NEW k \in 0..Len(list) PROVE Among(list, n, k) \in SUBSET Members(n)
  <2>1. \A j \in 1..k : j \in 1..Len(list)
    BY <1>1
  <2> QED BY <1>1, <2>1 DEF Among, Members
<1>3. Among(list, n, Len(list)) = Members(n)
  <2>1. Members(n) \subseteq Among(list, n, Len(list))
    BY <1>1, MembersAre DEF Among, Members
  <2>2. Len(list) \in 0..Len(list)
    BY <1>1
  <2> QED BY <1>2, <2>1, <2>2
<1>4. /\ IsFiniteSet(Members(n)) /\ \A p \in Members(n) : bytes_last_sec[p] \in Nat
      /\ Unlogged(n) = Total(bytes_last_sec, Members(n))
  BY MembersAre
<1> QED BY <1>2, <1>3, <1>4, TotalPart

\* One process of the walk, and it is not beyond what the log can hold.
LEMMA WalkStep ==
    ASSUME TypeOK, Bounded, LogRight, NEW list \in Seq(Proc), ToSet(list) = Listed,
           \A i, j \in 1..Len(list) : i # j => list[i] # list[j],
           NEW k \in 1..Len(list), NEW log \in LogType,
           log[NameOf[list[k]]] = Absent => Cardinality(Logged(log)) < LEN_INIT_VECTOR,
           \A n \in Program : Walked(log, list, n, k - 1)
    PROVE  \A n \in Program : Walked(LogProcess(log, list[k]), list, n, k)
<1> DEFINE p == list[k]
           b == bytes_last_sec[p]
           next == LogProcess(log, p)
<1> SUFFICES ASSUME NEW n \in Program PROVE Walked(next, list, n, k)
  OBVIOUS
<1> DEFINE A == Among(list, n, k - 1)
           B == Among(list, n, k)
           sum == Total(bytes_last_sec, A)
           more == Total(bytes_last_sec, B)
<1>1. /\ Len(list) \in Nat /\ k \in Nat /\ k - 1 \in Nat
      /\ k - 1 \in 0..Len(list) /\ k \in 0..Len(list)
  OBVIOUS
<1>2. p \in Listed /\ p \in Proc /\ NameOf[p] \in Program
  <2>1. p \in ToSet(list)
    BY DEF ToSet
  <2> QED BY <2>1, MembersAre
<1>3. log[n] = IF log_processes[n] = Absent /\ A = {} THEN Absent ELSE Log(n) + sum
  BY DEF Walked
<1>4. next[n] = IF n = NameOf[p]
                THEN IF log[n] = Absent THEN tot_Bps[p] ELSE Plus(log[n], b)
                ELSE log[n]
  BY <1>2 DEF LogProcess, LogType
<1>5. /\ sum \in Nat /\ more \in Nat /\ more <= Unlogged(n) /\ b \in Nat
      /\ IsFiniteSet(A) /\ IsFiniteSet(B) /\ Unlogged(n) \in Nat
      /\ \A q \in B : bytes_last_sec[q] \in Nat
  BY <1>1, <1>2, AmongIs, AmongListed, MembersAre
<1>6. /\ Log(n) \in Nat /\ (log_processes[n] = Absent => Log(n) = 0)
      /\ Log(n) + Unlogged(n) < MaxLogged /\ MaxLogged \in Nat
  <2>1. log_processes[n] \in 0..MaxLogged \cup {Absent, Garbage} /\ log_processes[n] # Garbage
    BY DEF TypeOK, LogRight
  <2>2. Log(n) \in Nat
    BY <2>1 DEF Log
  <2>3. Log(n) + Unlogged(n) = charged[n] /\ charged[n] <= packets
    BY DEF LogRight, LogExact, Bounded
  <2>4. packets <= MaxPackets /\ packets \in Nat
    BY WInvIs
  <2>5. MaxPackets \in Nat /\ MaxLogged \in Nat /\ MaxLogged > MaxPackets
    BY AccountingAssumption DEF AccountingAssumption
  <2> QED BY <1>5, <2>2, <2>3, <2>4, <2>5 DEF Log
<1>7. CASE n # NameOf[p]
  <2>1. B = A
    BY <1>7, AmongIs
  <2> HIDE DEF p, next
  <2> QED BY <1>3, <1>4, <1>7, <2>1 DEF Walked
<1>8. CASE n = NameOf[p]
  <2>1. B = A \cup {p} /\ p \notin A
    BY <1>8, AmongIs
  <2>2. more = sum + b
    <3>1. p \in B /\ B \ {p} = A
      BY <2>1
    <3>2. Total(bytes_last_sec, B) = b + Total(bytes_last_sec, B \ {p})
      <4> HIDE DEF A, B, p
      <4> QED BY <1>5, <3>1, TotalAny DEF b
    <3>3. more = b + sum
      <4> HIDE DEF A, B, p, b
      <4> QED BY <3>1, <3>2
    <3> HIDE DEF more, b, sum
    <3> QED BY <1>5, <3>3
  <2>3. next[n] = Log(n) + more
    <3>1. CASE log[n] = Absent
      <4>1. log_processes[n] = Absent /\ A = {}
        <5>1. Log(n) + sum # Absent
          BY <1>5, <1>6 DEF Absent
        <5> QED BY <1>3, <3>1, <5>1
      <4>2. tot_Bps[p] = b
        BY <1>2, <1>8, <4>1 DEF LogRight
      <4>3. sum = 0
        BY <1>5, <4>1, TotalFirst
      <4> HIDE DEF p, b, sum, more, A, B, next
      <4> QED BY <1>4, <1>5, <1>6, <1>8, <2>2, <3>1, <4>1, <4>2, <4>3
    <3>2. CASE log[n] # Absent
      <4>1. log[n] = Log(n) + sum
        BY <1>3, <3>2
      <4>2. next[n] = Plus(log[n], b)
        BY <1>4, <1>8, <3>2
      <4> HIDE DEF p, b, sum, more, A, B, next
      <4>3. Log(n) + sum + b = Log(n) + more /\ Log(n) + more < MaxLogged
        BY <1>5, <1>6, <2>2
      <4>4. log[n] # Garbage
        BY <1>5, <1>6, <4>1 DEF Garbage
      <4> QED BY <1>5, <1>6, <4>1, <4>2, <4>3, <4>4 DEF Plus
    <3> QED BY <3>1, <3>2
  <2>4. B # {}
    BY <2>1
  <2> HIDE DEF p, b, sum, A, next
  <2> QED BY <2>3, <2>4 DEF Walked
<1> QED BY <1>7, <1>8

\* A walk takes no program out of the log, and enters that of every process.
LEMMA LogGrows ==
    ASSUME TypeOK, NEW log \in LogType, NEW p \in Proc
    PROVE  /\ Logged(log) \subseteq Logged(LogProcess(log, p))
           /\ NameOf[p] \in Logged(LogProcess(log, p))
<1> DEFINE next == LogProcess(log, p)
<1>1. NameOf[p] \in Program /\ MaxPackets \in Nat /\ MaxLogged \in Nat
  BY AccountingAssumption DEF AccountingAssumption
<1>2. tot_Bps[p] \in 0..MaxPackets /\ bytes_last_sec[p] \in 0..MaxPackets
  BY DEF TypeOK, Count
<1>3. tot_Bps[p] # Absent
  BY <1>1, <1>2 DEF Absent
<1>4. ASSUME log[NameOf[p]] # Absent PROVE Plus(log[NameOf[p]], bytes_last_sec[p]) # Absent
  <2>1. log[NameOf[p]] \in 0..MaxLogged \cup {Garbage}
    BY <1>1, <1>4 DEF LogType
  <2> QED BY <1>1, <1>2, <2>1 DEF Plus, Absent, Garbage
<1>5. \A n \in Program : (n = NameOf[p] \/ log[n] # Absent) => next[n] # Absent
  BY <1>1, <1>3, <1>4 DEF LogProcess, LogType, AllGarbage, Absent, Garbage
<1> QED BY <1>1, <1>5 DEF Logged

\* A walk that ended at the end of the list went over the processes listed, and
\* had room for a program it entered if the log has not become too long by it.
LEMMA RefreshWalk ==
    ASSUME TypeOK, NEW order \in SetToSeqs(Listed), Refresh(order), InBounds'
    PROVE  /\ InBounds
           /\ order \in Seq(Proc) /\ ToSet(order) = Listed /\ Len(order) \in Nat
           /\ \A i, j \in 1..Len(order) : i # j => order[i] # order[j]
           /\ proc' = order /\ total' = total /\ Listed' = Listed
           /\ \E F \in [0..Len(order) -> LogType] :
                /\ F[0] = log_processes
                /\ \A k \in 1..Len(order) : F[k] = LogProcess(F[k - 1], order[k])
                /\ \A k \in 1..Len(order) : F[k - 1][NameOf[order[k]]] = Absent =>
                       Cardinality(Logged(F[k - 1])) < LEN_INIT_VECTOR
                /\ log_processes' = F[Len(order)]
<1>1. /\ order \in Seq(Proc) /\ ToSet(order) = Listed /\ Len(order) = total
      /\ \A i, j \in 1..Len(order) : i # j => order[i] # order[j]
      /\ Len(order) \in Nat
  <2>1. Listed \subseteq Proc
    BY MembersAre
  <2>2. /\ order \in Seq(Proc)
        /\ \A i, j \in 1..Len(order) : i # j => order[i] # order[j]
    BY <2>1, SeqOfSet
  <2>3. ToSet(order) = Listed /\ Len(order) = total
    BY DEF Refresh
  <2>4. Len(order) \in Nat
    BY <2>2
  <2> QED BY <2>2, <2>3, <2>4
<1>2. ~overrun /\ ~(total < Len(proc)) /\ log_processes' = LogAll(proc')
  <2>1. PICK null \in BOOLEAN : LogWalk(null)
    BY DEF Refresh
  <2>2. ~overrun'
    BY DEF InBounds
  <2> QED BY <2>1, <2>2 DEF LogWalk
<1>3. proc' = order /\ total' = total /\ Listed' = Listed
  <2>1. proc' = order \o SubSeq(proc, Len(order) + 1, Len(proc)) /\ total' = Len(order)
    BY <1>1 DEF Refresh
  <2>2. Len(order) >= Len(proc)
    <3>1. total \in Int /\ Len(proc) \in Int
      BY DEF TypeOK
    <3> QED BY <1>1, <1>2, <3>1
  <2> QED BY <1>1, <2>1, <2>2, ListedAfter
<1>4. log_processes' = FoldLeft(LogProcess, log_processes, order)
  <2>1. ToSet(order) \subseteq known
    BY <1>1 DEF TypeOK
  <2> QED BY <1>2, <1>3, <2>1 DEF LogAll
<1>5. PICK F \in [0..Len(order) -> LogType] :
          /\ F[0] = log_processes
          /\ \A k \in 1..Len(order) : F[k] = LogProcess(F[k - 1], order[k])
          /\ log_processes' = F[Len(order)]
  BY <1>1, <1>4, LogFold
<1>6. ASSUME NEW k \in 1..Len(order)
      PROVE  /\ Logged(F[k - 1]) \subseteq Logged(F[k])
             /\ NameOf[order[k]] \in Logged(F[k])
  <2>1. k - 1 \in 0..Len(order) /\ order[k] \in Proc
    BY <1>1
  <2> QED BY <1>5, <2>1, LogGrows
<1> DEFINE Q == {m \in Nat : m <= Len(order) =>
                               \A k \in 0..m : Logged(F[k]) \subseteq Logged(F[m])}
<1>7. Len(order) \in Q
  <2>1. 0 \in Q
    BY <1>1
  <2>2. ASSUME NEW m \in Nat, m \in Q PROVE m + 1 \in Q
    <3>1. ASSUME m + 1 <= Len(order), NEW k \in 0..m + 1
          PROVE  Logged(F[k]) \subseteq Logged(F[m + 1])
      <4>1. m + 1 \in 1..Len(order) /\ (m + 1) - 1 = m /\ m <= Len(order)
        BY <1>1, <3>1
      <4>2. Logged(F[m]) \subseteq Logged(F[m + 1])
        BY <1>6, <4>1
      <4>3. k \in 0..m \/ k = m + 1
        BY <3>1
      <4> QED BY <2>2, <4>1, <4>2, <4>3
    <3> QED BY <3>1
  <2> HIDE DEF Q
  <2>3. Nat \subseteq Q
    BY <2>1, <2>2, NatSetInduction
  <2> QED BY <1>1, <2>3
<1>8. \A k \in 0..Len(order) : Logged(F[k]) \subseteq Logged(log_processes')
  BY <1>1, <1>5, <1>7
<1>9. /\ IsFiniteSet(Logged(log_processes')) /\ LEN_INIT_VECTOR \in Nat
      /\ Cardinality(Logged(log_processes')) <= LEN_INIT_VECTOR
  <2>1. Logged(log_processes') \subseteq Program
    BY DEF Logged
  <2>2. Logged(log_processes)' = Logged(log_processes')
    BY DEF Logged
  <2> QED BY <2>1, <2>2, FS_Subset, AccountingAssumption DEF InBounds, AccountingAssumption
<1>10. ASSUME NEW k \in 1..Len(order), F[k - 1][NameOf[order[k]]] = Absent
       PROVE  Cardinality(Logged(F[k - 1])) < LEN_INIT_VECTOR
  <2> DEFINE L == Logged(F[k - 1])
             M == Logged(log_processes')
             n == NameOf[order[k]]
  <2>1. L \subseteq M /\ n \in M /\ n \notin L
    <3>1. k - 1 \in 0..Len(order) /\ k \in 0..Len(order)
      BY <1>1
    <3>2. n \notin L
      BY <1>10 DEF Logged
    <3> QED BY <1>6, <1>8, <3>1, <3>2
  <2> HIDE DEF L, M, n
  <2>2. IsFiniteSet(M) /\ Cardinality(M) <= LEN_INIT_VECTOR
    BY <1>9 DEF M
  <2>3. IsFiniteSet(L) /\ L # M
    BY <2>1, <2>2, FS_Subset
  <2>4. Cardinality(L) \in Nat /\ Cardinality(M) \in Nat /\ Cardinality(L) < Cardinality(M)
    BY <2>1, <2>2, <2>3, FS_Subset, FS_CardinalityType
  <2> QED BY <1>9, <2>2, <2>4 DEF L
<1>11. InBounds
  <2>1. Logged(log_processes) \subseteq Logged(log_processes')
    <3>1. 0 \in 0..Len(order)
      BY <1>1
    <3> QED BY <1>5, <1>8, <3>1
  <2> DEFINE L == Logged(log_processes)
             M == Logged(log_processes')
  <2>2. L \subseteq M /\ IsFiniteSet(M) /\ Cardinality(M) <= LEN_INIT_VECTOR
    BY <1>9, <2>1
  <2> HIDE DEF L, M
  <2>3. /\ Cardinality(L) \in Nat /\ Cardinality(M) \in Nat
        /\ Cardinality(L) <= Cardinality(M)
    BY <2>2, FS_Subset, FS_CardinalityType
  <2> QED BY <1>2, <1>9, <2>2, <2>3 DEF InBounds, L
<1> HIDE DEF Q
<1> QED BY <1>1, <1>3, <1>5, <1>10, <1>11

\* log_file() adds the bytes of the refresh to the line of their program, for
\* every listed process once, and rate_update() clears them.
LEMMA RefreshLog ==
    ASSUME WInv, LogRight, NEW order \in SetToSeqs(Listed), Refresh(order), InBounds'
    PROVE  LogRight'
<1>1. TypeOK /\ TypeOK' /\ Bounded
  BY RefreshWInv DEF WInv, WindowExact
<1>2. /\ order \in Seq(Proc) /\ ToSet(order) = Listed /\ Len(order) \in Nat
      /\ \A i, j \in 1..Len(order) : i # j => order[i] # order[j]
  BY <1>1, RefreshWalk
<1>3. Listed' = Listed
  BY <1>1, RefreshWalk
<1>5. PICK F \in [0..Len(order) -> LogType] :
          /\ F[0] = log_processes
          /\ \A k \in 1..Len(order) : F[k] = LogProcess(F[k - 1], order[k])
          /\ \A k \in 1..Len(order) : F[k - 1][NameOf[order[k]]] = Absent =>
                 Cardinality(Logged(F[k - 1])) < LEN_INIT_VECTOR
          /\ log_processes' = F[Len(order)]
  BY <1>1, RefreshWalk
<1> DEFINE Q == {k \in Nat : k <= Len(order) => \A n \in Program : Walked(F[k], order, n, k)}
<1>6. 0 \in Q
  <2>1. ASSUME NEW n \in Program PROVE Walked(F[0], order, n, 0)
    <3>1. Among(order, n, 0) = {}
      BY <1>1, <1>2, AmongIs
    <3>2. Total(bytes_last_sec, {}) = 0
      BY TotalFirst, FS_EmptySet
    <3>3. F[0][n] = log_processes[n]
      BY <1>5
    <3>4. log_processes[n] \in 0..MaxLogged \cup {Absent, Garbage} /\ log_processes[n] # Garbage
      BY <1>1 DEF TypeOK, LogRight
    <3>5. log_processes[n] # Absent => Log(n) = log_processes[n] /\ Log(n) \in Int
      BY <3>4 DEF Log
    <3>6. CASE log_processes[n] = Absent
      BY <3>1, <3>3, <3>6 DEF Walked
    <3>7. CASE log_processes[n] # Absent
      <4>1. F[0][n] = Log(n) + 0
        BY <3>3, <3>5, <3>7
      <4>2. Total(bytes_last_sec, Among(order, n, 0)) = 0
        BY <3>1, <3>2
      <4>3. F[0][n] = Log(n) + Total(bytes_last_sec, Among(order, n, 0))
        BY <4>1, <4>2
      <4> QED BY <3>7, <4>3 DEF Walked
    <3> QED BY <3>6, <3>7
  <2> QED BY <2>1
<1>7. ASSUME NEW k \in Nat, k \in Q PROVE k + 1 \in Q
  <2>1. ASSUME k + 1 <= Len(order)
        PROVE  \A n \in Program : Walked(F[k + 1], order, n, k + 1)
    <3>1. /\ k + 1 \in 1..Len(order) /\ (k + 1) - 1 = k /\ k \in 0..Len(order) /\ k <= Len(order)
      BY <1>2, <2>1
    <3>2. /\ F[k] \in LogType /\ F[k + 1] = LogProcess(F[k], order[k + 1])
          /\ F[k][NameOf[order[k + 1]]] = Absent =>
                 Cardinality(Logged(F[k])) < LEN_INIT_VECTOR
      BY <1>5, <3>1
    <3>3. \A n \in Program : Walked(F[k], order, n, k)
      BY <1>7, <3>1
    <3> DEFINE m == k + 1
    <3>4. m \in 1..Len(order) /\ \A n \in Program : Walked(F[k], order, n, m - 1)
      BY <3>1, <3>3
    <3> HIDE DEF m
    <3>5. \A n \in Program : Walked(LogProcess(F[k], order[m]), order, n, m)
      BY <1>1, <1>2, <3>2, <3>4, WalkStep
    <3> QED BY <3>2, <3>5 DEF m
  <2> QED BY <2>1
<1>8. \A n \in Program : Walked(log_processes', order, n, Len(order))
  <2>1. Nat \subseteq Q
    <3> HIDE DEF Q
    <3> QED BY <1>6, <1>7, NatSetInduction
  <2> QED BY <1>2, <1>5, <2>1
<1>9. ASSUME NEW n \in Program
      PROVE  /\ Log(n) \in Nat /\ Unlogged(n) \in Nat /\ Log(n) + Unlogged(n) = charged[n]
             /\ log_processes'[n] = IF log_processes[n] = Absent /\ Members(n) = {} THEN Absent
                                    ELSE charged[n]
             /\ Members(n) = {} => Unlogged(n) = 0
  <2>1. log_processes[n] \in 0..MaxLogged \cup {Absent, Garbage} /\ log_processes[n] # Garbage
    BY <1>1 DEF TypeOK, LogRight
  <2>2. Log(n) \in Nat
    BY <2>1 DEF Log
  <2>3. Log(n) + Unlogged(n) = charged[n]
    BY DEF LogRight, LogExact
  <2>4. Among(order, n, Len(order)) = Members(n)
    BY <1>1, <1>2, AmongListed
  <2>5. Unlogged(n) = Total(bytes_last_sec, Members(n)) /\ Unlogged(n) \in Nat
    BY <1>1, MembersAre
  <2>6. Walked(log_processes', order, n, Len(order))
    BY <1>8
  <2>7. Members(n) = {} => Unlogged(n) = 0
    BY <2>5, TotalFirst, FS_EmptySet
  <2> QED BY <2>2, <2>3, <2>4, <2>5, <2>6, <2>7 DEF Walked
<1>10. /\ \A q \in Listed' : bytes_last_sec'[q] = 0
       /\ charged' = charged
  BY <1>1, <1>3, MembersAre DEF Refresh
<1>11. ASSUME NEW n \in Program PROVE Unlogged(n)' = 0
  <2> DEFINE S == {p \in Listed' : NameOf[p] = n}
             g == bytes_last_sec'
  <2>1. Unlogged(n)' = Total(g, S)
    BY DEF Unlogged
  <2>2. S \in SUBSET Proc /\ \A p \in S : g[p] = 0
    BY <1>1, <1>10 DEF TypeOK
  <2> HIDE DEF S, g
  <2>3. IsFiniteSet(S)
    BY <2>2, FS_Subset, AccountingAssumption DEF AccountingAssumption
  <2> QED BY <2>1, <2>2, <2>3, TotalZero
<1>12. LogExact'
  <2>1. ASSUME NEW n \in Program PROVE Log(n)' + Unlogged(n)' = charged'[n]
    <3>1. Log(n)' = IF log_processes'[n] = Absent THEN 0 ELSE log_processes'[n]
      BY DEF Log
    <3>2. CASE log_processes[n] = Absent /\ Members(n) = {}
      <4>1. Log(n) = 0
        BY <3>2 DEF Log
      <4> QED BY <1>9, <1>10, <1>11, <3>1, <3>2, <4>1
    <3>3. CASE ~(log_processes[n] = Absent /\ Members(n) = {})
      <4>1. charged[n] \in Nat /\ log_processes'[n] = charged[n]
        BY <1>9, <3>3
      <4>2. Log(n)' = charged[n]
        BY <3>1, <4>1 DEF Absent
      <4> QED BY <1>10, <1>11, <4>1, <4>2
    <3> QED BY <3>2, <3>3
  <2> QED BY <2>1 DEF LogExact
<1>13. ASSUME NEW n \in Program PROVE log_processes'[n] # Garbage
  <2>1. charged[n] \in Nat
    BY <1>9
  <2> QED BY <1>9, <2>1 DEF Absent, Garbage
<1>14. ASSUME NEW q \in Listed' PROVE log_processes'[NameOf[q]] # Absent
  <2>1. NameOf[q] \in Program /\ Members(NameOf[q]) # {}
    BY <1>1, <1>3, MembersAre
  <2>2. charged[NameOf[q]] \in Nat /\ log_processes'[NameOf[q]] = charged[NameOf[q]]
    BY <1>9, <2>1
  <2> QED BY <2>2 DEF Absent
<1> QED BY <1>10, <1>12, <1>13, <1>14 DEF LogRight

LEMMA AInvStep == AInv /\ [Next]_vars => AInv'
<1> SUFFICES ASSUME AInv, [Next]_vars PROVE AInv'
  OBVIOUS
<1>1. WInv /\ WInv' /\ (InBounds => LogRight)
  BY WInvStep DEF AInv
<1>2. ASSUME InBounds' PROVE LogRight'
  <2>1. CASE \E p \in Proc : Add(p)
    <3>1. InBounds
      BY <1>2, <2>1 DEF Add, InBounds, Logged
    <3> QED BY <1>1, <2>1, <3>1, AddLog
  <2>2. CASE \E order \in SetToSeqs(Listed) : Refresh(order)
    <3>1. InBounds
      BY <1>1, <1>2, <2>2, RefreshWalk DEF WInv, WindowExact
    <3> QED BY <1>1, <1>2, <2>2, <3>1, RefreshLog
  <2>3. CASE \E found \in SUBSET Proc : \E list \in SetToSeqs(found) : Update(list)
    <3>1. InBounds
      BY <1>2, <2>3 DEF Update, InBounds, Logged
    <3> QED BY <1>1, <2>3, <3>1, UpdateLog
  <2>4. CASE UNCHANGED vars
    <3>1. UNCHANGED <<known, proc, total, fresh, idx_cir, Bps, bytes_last_sec, tot_Bps, avg_Bps,
                      log_processes, packets, periods, charged, overrun>>
      BY <2>4 DEF vars, stats
    <3>2. LogRight
      BY <1>1, <1>2, <3>1 DEF InBounds, Logged
    <3>3. Listed' = Listed
      BY <3>1 DEF Listed
    <3>4. \A n \in Program : Log(n)' = Log(n) /\ Unlogged(n)' = Unlogged(n)
      BY <3>1, <3>3 DEF Log, Unlogged
    <3> QED BY <3>1, <3>2, <3>3, <3>4 DEF LogRight, LogExact
  <2> QED BY <2>1, <2>2, <2>3, <2>4 DEF Next
<1> QED BY <1>1, <1>2 DEF AInv

\* As long as update_log_process() has met the end of the list (log.c:99) and
\* has not needed more memory than the log had at first (log.c:121), what the
\* log says of a program and what its processes have received since is what they
\* were charged with, for any number of processes and programs (log.c:91).
THEOREM LogRightInBounds == Spec => []LogExactInBounds
<1>1. Init => AInv
  BY InitWInv, InitLog DEF AInv
<1>2. AInv /\ [Next]_vars => AInv'
  BY AInvStep
<1>3. AInv => LogExactInBounds
  BY DEF AInv, InBounds, LogRight, LogExactInBounds
<1> QED BY <1>1, <1>2, <1>3, PTL DEF Spec
=============================================================================
