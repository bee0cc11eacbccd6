--------------------------- MODULE HashTableProofs ---------------------------
(***************************************************************************)
(* For any number of values and keys, any hash and any size: the pointers  *)
(* of the table describe the entries that are allocated, a walk shows each *)
(* of them once, and the table keeps the promise of Dictionary.            *)
(*                                                                         *)
(* The lists of the buckets are kept beside the pointers: Table says which *)
(* lists a table has, each change of the pointers is a change of one list. *)
(***************************************************************************)
EXTENDS HashTable, FoldProofs, SequenceTheorems

Node == Value \cup {NULL}

\* The entries from e on are those of the list s.
Linked(nx, e, s) ==
    /\ e = IF Len(s) = 0 THEN NULL ELSE s[1]
    /\ \A i \in 1..Len(s) : nx[s[i]] = IF i < Len(s) THEN s[i + 1] ELSE NULL

Distinct(s) == \A i, j \in 1..Len(s) : s[i] = s[j] => i = j

----------------------------------------------------------------------------
(* Lists.                                                                  *)

LEMMA Constants ==
    /\ IsFiniteSet(Value) /\ NULL \notin Value /\ Cardinality(Value) \in Nat
    /\ KeyOf \in [Value -> Key] /\ Hash \in [Key -> Nat]
    /\ HASHTABLE_MIN_SIZE \in Nat /\ HASHTABLE_MIN_SIZE > 0
  BY FS_CardinalityType, HashTableAssumption DEF HashTableAssumption

\* A list without a value twice is not longer than the values there are.
LEMMA DistinctLength ==
    ASSUME NEW s \in Seq(Value), Distinct(s) PROVE Len(s) <= Cardinality(Value)
<1> DEFINE D == 1..Len(s)
           R == {s[i] : i \in D}
<1>1. Len(s) \in Nat /\ IsFiniteSet(D) /\ Cardinality(D) = Len(s)
  <2>1. Len(s) \in Nat
    OBVIOUS
  <2> QED BY <2>1, FS_Interval
<1>2. s \in [D -> Value] /\ \A i, j \in D : s[i] = s[j] => i = j
  BY DEF Distinct
<1>3. s \in Injection(D, Value)
  BY <1>2 DEF Injection, IsInjective
<1>4. Cardinality(D) <= Cardinality(Value)
  BY <1>1, <1>3, Constants, FS_Injection
<1> QED BY <1>1, <1>4

IsPath(path, nx) ==
    path = [n \in 0..Cardinality(Value) |-> [v \in Node |->
              IF n = 0 \/ v = NULL THEN <<>> ELSE <<v>> \o path[n - 1][nx[v]]]]

LEMMA PathExists ==
    ASSUME NEW nx \in [Value -> Node] PROVE \E path : IsPath(path, nx)
<1> DEFINE N == Cardinality(Value)
           V == [Node -> Seq(Value)]
           none == [v \in Node |-> <<>>]
           one(h) == [v \in Node |-> IF v = NULL THEN <<>> ELSE <<v>> \o h[nx[v]]]
           step == [k \in 1..N |-> [h \in V |-> one(h)]]
<1>1. N \in Nat
  BY Constants
<1>2. none \in V
  OBVIOUS
<1>3. ASSUME NEW h \in V PROVE one(h) \in V
  <2>1. ASSUME NEW v \in Node, v # NULL PROVE <<v>> \o h[nx[v]] \in Seq(Value)
    <3>1. v \in Value /\ nx[v] \in Node
      BY <2>1 DEF Node
    <3>2. h[nx[v]] \in Seq(Value) /\ <<v>> \in Seq(Value)
      BY <3>1
    <3> QED BY <3>2
  <2>2. <<>> \in Seq(Value)
    OBVIOUS
  <2> QED BY <2>1, <2>2
<1>4. Steps(step, N, V) /\ \A k \in 1..N, h \in V : step[k][h] = one(h)
  <2> HIDE DEF one, V, N
  <2> QED BY <1>3 DEF Steps
<1>5. PICK f : Recursion(f, N, V, none, step)
  <2> HIDE DEF N, V, none, step
  <2> QED BY <1>1, <1>2, <1>4, RecursionExists
<1>6. f \in [0..N -> V] /\ f[0] = none /\ \A k \in 1..N : f[k] = one(f[k - 1])
  <2>1. \A k \in 1..N : k - 1 \in 0..N
    BY <1>1
  <2> HIDE DEF N, V, none, step, one
  <2> QED BY <1>4, <1>5, <2>1 DEF Recursion
<1> DEFINE turn(n) == [v \in Node |->
                         IF n = 0 \/ v = NULL THEN <<>> ELSE <<v>> \o f[n - 1][nx[v]]]
<1>7. ASSUME NEW n \in 0..N PROVE f[n] = turn(n)
  <2>1. CASE n = 0
    BY <1>6, <2>1
  <2>2. CASE n # 0
    <3>1. n \in 1..N
      BY <1>1, <2>2
    <3> QED BY <1>6, <2>2, <3>1
  <2> QED BY <2>1, <2>2
<1>8. f = [n \in 0..N |-> turn(n)]
  <2> HIDE DEF turn, V
  <2> QED BY <1>6, <1>7
<1> QED BY <1>8 DEF IsPath

LEMMA FromPath ==
    ASSUME NEW nx \in [Value -> Node]
    PROVE  \E path : /\ IsPath(path, nx)
                     /\ \A e : From(nx, e) = path[Cardinality(Value)][e]
<1> DEFINE path == CHOOSE path : IsPath(path, nx)
<1>1. IsPath(path, nx)
  BY PathExists
<1>2. \A e : From(nx, e) = path[Cardinality(Value)][e]
  BY DEF From, IsPath, Node
<1> HIDE DEF path
<1> QED BY <1>1, <1>2

\* What follows the first entry of a list.
LEMMA LinkedTail ==
    ASSUME NEW nx, NEW e, NEW s \in Seq(Value), Linked(nx, e, s), Len(s) # 0
    PROVE  /\ e = s[1] /\ e \in Value /\ Tail(s) \in Seq(Value) /\ Len(Tail(s)) = Len(s) - 1
           /\ Linked(nx, nx[e], Tail(s))
           /\ s = <<e>> \o Tail(s)
           /\ Len(s) \in Nat
<1>1. Len(s) \in Nat /\ Len(s) > 0 /\ 1 \in 1..Len(s)
  OBVIOUS
<1>2. e = s[1] /\ e \in Value
  BY <1>1 DEF Linked
<1>3. /\ Tail(s) \in Seq(Value) /\ Len(Tail(s)) = Len(s) - 1
      /\ \A i \in 1..Len(s) - 1 : Tail(s)[i] = s[i + 1]
  BY <1>1
<1>4. nx[e] = IF Len(Tail(s)) = 0 THEN NULL ELSE Tail(s)[1]
  <2>1. nx[e] = IF 1 < Len(s) THEN s[2] ELSE NULL
    BY <1>1, <1>2 DEF Linked
  <2> QED BY <1>1, <1>3, <2>1
<1>5. ASSUME NEW i \in 1..Len(Tail(s))
      PROVE  nx[Tail(s)[i]] = IF i < Len(Tail(s)) THEN Tail(s)[i + 1] ELSE NULL
  <2>1. i + 1 \in 1..Len(s) /\ Tail(s)[i] = s[i + 1] /\ i \in Int
    BY <1>1, <1>3
  <2>2. nx[s[i + 1]] = IF i + 1 < Len(s) THEN s[(i + 1) + 1] ELSE NULL
    BY <2>1 DEF Linked
  <2>3. i < Len(Tail(s)) => Tail(s)[i + 1] = s[(i + 1) + 1]
    BY <1>1, <1>3
  <2>4. i < Len(Tail(s)) <=> i + 1 < Len(s)
    BY <1>1, <1>3, <2>1
  <2> QED BY <2>1, <2>2, <2>3, <2>4
<1>6. s = <<e>> \o Tail(s)
  BY <1>1, <1>2
<1> QED BY <1>1, <1>2, <1>3, <1>4, <1>5, <1>6 DEF Linked

\* Following the pointers finds the list, if it has no value twice.
LEMMA FromIs ==
    ASSUME NEW nx \in [Value -> Node], NEW e, NEW s \in Seq(Value), Linked(nx, e, s), Distinct(s)
    PROVE  From(nx, e) = s
<1> DEFINE N == Cardinality(Value)
<1>1. PICK path : IsPath(path, nx) /\ \A x : From(nx, x) = path[N][x]
  BY FromPath
<1>2. ASSUME NEW n \in 0..N, NEW v \in Node
      PROVE  path[n][v] = IF n = 0 \/ v = NULL THEN <<>> ELSE <<v>> \o path[n - 1][nx[v]]
  BY <1>1 DEF IsPath
<1> DEFINE Good(n) == \A v \in Node, t \in Seq(Value) :
                        Linked(nx, v, t) /\ Len(t) <= n => path[n][v] = t
           Q == {n \in 0..N : Good(n)}
<1>3. N \in Nat
  BY Constants
<1> HIDE DEF N
<1>4. 0 \in Q
  <2>1. ASSUME NEW v \in Node, NEW t \in Seq(Value), Len(t) <= 0 PROVE path[0][v] = t
    <3>1. t = <<>>
      BY <2>1
    <3>2. 0 \in 0..N
      BY <1>3
    <3> QED BY <1>2, <3>1, <3>2
  <2> QED BY <1>3, <2>1
<1>5. ASSUME NEW n \in 1..N, n - 1 \in Q PROVE n \in Q
  <2>1. ASSUME NEW v \in Node, NEW t \in Seq(Value), Linked(nx, v, t), Len(t) <= n
        PROVE  path[n][v] = t
    <3>1. CASE Len(t) = 0
      <4>1. t = <<>> /\ v = NULL /\ n \in 0..N
        BY <1>3, <2>1, <3>1 DEF Linked
      <4> QED BY <1>2, <4>1
    <3>2. CASE Len(t) # 0
      <4>1. /\ v \in Value /\ Tail(t) \in Seq(Value) /\ Len(Tail(t)) = Len(t) - 1
            /\ Linked(nx, nx[v], Tail(t)) /\ t = <<v>> \o Tail(t) /\ Len(t) \in Nat
        BY <2>1, <3>2, LinkedTail
      <4>2. v # NULL /\ nx[v] \in Node
        BY <4>1, Constants
      <4>3. n \in 0..N /\ n # 0 /\ Len(Tail(t)) <= n - 1
        BY <1>3, <2>1, <4>1
      <4>4. path[n - 1][nx[v]] = Tail(t)
        BY <1>5, <4>1, <4>2, <4>3
      <4>5. path[n][v] = <<v>> \o path[n - 1][nx[v]]
        BY <1>2, <4>2, <4>3
      <4> QED BY <4>1, <4>4, <4>5
    <3> QED BY <3>1, <3>2
  <2> QED BY <1>3, <2>1
<1>6. N \in Q
  <2> HIDE DEF Q
  <2>1. 0..N \subseteq Q
    BY <1>3, <1>4, <1>5, UpTo
  <2> QED BY <1>3, <2>1
<1>7. Len(s) <= N
  BY DistinctLength DEF N
<1>8. e \in Node
  BY DEF Linked, Node
<1> QED BY <1>1, <1>6, <1>7, <1>8

----------------------------------------------------------------------------
(* Tables.                                                                 *)

\* The heads h and the next pointers nx are those of a table of size buckets
\* for the values of S, with the lists C.
Table(h, nx, S, size, C) ==
    /\ size \in Nat /\ S \subseteq Value
    /\ h \in [0..(size - 1) -> Node] /\ nx \in [Value -> Node]
    /\ C \in [0..(size - 1) -> Seq(Value)]
    /\ \A i \in 0..(size - 1) :
         /\ Linked(nx, h[i], C[i]) /\ Distinct(C[i])
         /\ \A j \in 1..Len(C[i]) : C[i][j] \in S /\ Index(C[i][j], size) = i
    /\ \A v \in S : \E i \in 0..(size - 1) : \E j \in 1..Len(C[i]) : C[i][j] = v

LEMMA IndexIs ==
    ASSUME NEW v \in Value, NEW size \in Nat, size > 0 PROVE Index(v, size) \in 0..(size - 1)
<1>1. Hash[KeyOf[v]] \in Nat
  BY Constants
<1>2. \A n \in Nat : n % size \in 0..(size - 1)
  BY SMTT(30)
<1> QED BY <1>1, <1>2 DEF Index

\* Buckets with nothing in them.
LEMMA EmptyTable ==
    ASSUME NEW size \in Nat, NEW h \in [0..(size - 1) -> Node], NEW nx \in [Value -> Node],
           \A i \in 0..(size - 1) : h[i] = NULL
    PROVE  \E D : Table(h, nx, {}, size, D)
<1> DEFINE D == [i \in 0..(size - 1) |-> <<>>]
<1>1. D \in [0..(size - 1) -> Seq(Value)]
  OBVIOUS
<1>2. ASSUME NEW i \in 0..(size - 1)
      PROVE  Linked(nx, h[i], D[i]) /\ Distinct(D[i]) /\ 1..Len(D[i]) = {}
  <2>1. D[i] = <<>> /\ h[i] = NULL
    OBVIOUS
  <2>2. Len(D[i]) = 0 /\ 1..Len(D[i]) = {}
    BY <2>1
  <2> HIDE DEF D
  <2> QED BY <2>1, <2>2 DEF Linked, Distinct
<1> HIDE DEF D
<1>3. Table(h, nx, {}, size, D)
  BY <1>1, <1>2 DEF Table
<1> QED BY <1>3

\* A list is not affected by the pointer of a value it does not have.
LEMMA LinkedOther ==
    ASSUME NEW nx \in [Value -> Node], NEW e, NEW s \in Seq(Value), Linked(nx, e, s),
           NEW v \in Value, \A j \in 1..Len(s) : s[j] # v, NEW u
    PROVE  Linked([nx EXCEPT ![v] = u], e, s)
<1>1. \A j \in 1..Len(s) : s[j] \in Value
  OBVIOUS
<1>2. \A j \in 1..Len(s) : [nx EXCEPT ![v] = u][s[j]] = nx[s[j]]
  BY <1>1
<1> QED BY <1>2 DEF Linked

\* s is a list, and v in front of it is one.
IsCons(nx, e, s, v) ==
    LET t == <<v>> \o s
    IN /\ Linked([nx EXCEPT ![v] = e], v, t) /\ Distinct(t)
       /\ t \in Seq(Value) /\ Len(t) = Len(s) + 1 /\ Len(s) \in Nat /\ t[1] = v
       /\ \A j \in 1..Len(s) : t[j + 1] = s[j]

LEMMA LinkedCons ==
    ASSUME NEW nx \in [Value -> Node], NEW e, NEW s \in Seq(Value), Linked(nx, e, s), Distinct(s),
           NEW v \in Value, \A j \in 1..Len(s) : s[j] # v
    PROVE  IsCons(nx, e, s, v)
<1> DEFINE t == <<v>> \o s
           ny == [nx EXCEPT ![v] = e]
<1>1. /\ t \in Seq(Value) /\ Len(t) = Len(s) + 1 /\ Len(s) \in Nat /\ t[1] = v
      /\ \A j \in 1..Len(s) : t[j + 1] = s[j]
  OBVIOUS
<1>2. \A i \in 1..Len(t) : i = 1 \/ (i - 1 \in 1..Len(s) /\ t[i] = s[i - 1])
  BY <1>1
<1>3. Linked(ny, e, s) /\ ny[v] = e
  BY LinkedOther
<1> HIDE DEF t, ny
<1>4. Distinct(t)
  <2>1. ASSUME NEW i \in 1..Len(t), NEW j \in 1..Len(t), t[i] = t[j] PROVE i = j
    <3>1. i \in Int /\ j \in Int
      BY <1>1
    <3>2. CASE i = 1
      BY <1>1, <1>2, <2>1, <3>1, <3>2
    <3>3. CASE j = 1
      BY <1>1, <1>2, <2>1, <3>1, <3>3
    <3>4. CASE i # 1 /\ j # 1
      <4>1. i - 1 \in 1..Len(s) /\ j - 1 \in 1..Len(s) /\ s[i - 1] = s[j - 1]
        BY <1>2, <2>1, <3>4
      <4>2. i - 1 = j - 1
        BY <4>1 DEF Distinct
      <4> QED BY <3>1, <4>2
    <3> QED BY <3>2, <3>3, <3>4
  <2> QED BY <2>1 DEF Distinct
<1>5. Linked(ny, v, t)
  <2>1. ASSUME NEW i \in 1..Len(t) PROVE ny[t[i]] = IF i < Len(t) THEN t[i + 1] ELSE NULL
    <3>1. i \in Int
      BY <1>1
    <3>2. CASE i = 1
      <4>1. ny[t[i]] = e
        BY <1>1, <1>3, <3>2
      <4>2. CASE Len(s) = 0
        <5>1. e = NULL /\ ~(i < Len(t))
          BY <1>1, <3>2, <4>2 DEF Linked
        <5> QED BY <4>1, <5>1
      <4>3. CASE Len(s) # 0
        <5>1. e = s[1] /\ 1 \in 1..Len(s)
          BY <1>1, <4>3 DEF Linked
        <5>2. i < Len(t) /\ t[i + 1] = s[1]
          BY <1>1, <3>2, <4>3, <5>1
        <5> QED BY <4>1, <5>1, <5>2
      <4> QED BY <4>2, <4>3
    <3>3. CASE i # 1
      <4>1. i - 1 \in 1..Len(s) /\ t[i] = s[i - 1]
        BY <1>2, <3>3
      <4>2. ny[s[i - 1]] = IF i - 1 < Len(s) THEN s[(i - 1) + 1] ELSE NULL
        BY <1>3, <4>1 DEF Linked
      <4>3. CASE i < Len(t)
        <5>1. i \in 1..Len(s) /\ i - 1 < Len(s) /\ (i - 1) + 1 = i
          BY <1>1, <3>1, <4>1, <4>3
        <5>2. t[i + 1] = s[i]
          BY <1>1, <5>1
        <5> QED BY <4>1, <4>2, <4>3, <5>1, <5>2
      <4>4. CASE ~(i < Len(t))
        <5>1. ~(i - 1 < Len(s))
          BY <1>1, <3>1, <4>4
        <5> QED BY <4>1, <4>2, <4>4, <5>1
      <4> QED BY <4>3, <4>4
    <3> QED BY <3>2, <3>3
  <2>2. v = IF Len(t) = 0 THEN NULL ELSE t[1]
    BY <1>1
  <2> QED BY <2>1, <2>2 DEF Linked
<1> QED BY <1>1, <1>4, <1>5 DEF t, ny, IsCons

Added(C, i, v) == [C EXCEPT ![i] = <<v>> \o C[i]]

\* A value that is new goes in front of its list.
LEMMA PrependTable ==
    ASSUME NEW h, NEW nx, NEW S, NEW size, NEW C, Table(h, nx, S, size, C),
           NEW v \in Value, v \notin S, size > 0,
           NEW i, i = Index(v, size)
    PROVE  Table([h EXCEPT ![i] = v], [nx EXCEPT ![v] = h[i]], S \cup {v}, size,
                 [C EXCEPT ![i] = <<v>> \o C[i]])
<1> DEFINE g == [h EXCEPT ![i] = v]
           ny == [nx EXCEPT ![v] = h[i]]
           s == C[i]
           t == <<v>> \o s
           D == [C EXCEPT ![i] = t]
<1>1. /\ size \in Nat /\ S \subseteq Value
      /\ h \in [0..(size - 1) -> Node] /\ nx \in [Value -> Node]
      /\ C \in [0..(size - 1) -> Seq(Value)]
      /\ i \in 0..(size - 1)
  BY IndexIs DEF Table
<1>2. ASSUME NEW k \in 0..(size - 1)
      PROVE  /\ Linked(nx, h[k], C[k]) /\ Distinct(C[k]) /\ C[k] \in Seq(Value)
             /\ \A j \in 1..Len(C[k]) : C[k][j] \in S /\ C[k][j] # v /\ Index(C[k][j], size) = k
  BY <1>1 DEF Table
<1>3. /\ Linked(ny, v, t) /\ Distinct(t) /\ t \in Seq(Value) /\ Len(t) = Len(s) + 1
      /\ Len(s) \in Nat /\ t[1] = v /\ \A j \in 1..Len(s) : t[j + 1] = s[j]
  <2>1. /\ Linked(nx, h[i], s) /\ Distinct(s) /\ s \in Seq(Value)
        /\ \A j \in 1..Len(s) : s[j] # v
    BY <1>1, <1>2
  <2> DEFINE e == h[i]
  <2>2. Linked(nx, e, s)
    BY <2>1
  <2> HIDE DEF s, e, t, g, ny, D
  <2>0. nx \in [Value -> Node] /\ v \in Value /\ s \in Seq(Value) /\ Distinct(s)
    BY <1>1, <2>1
  <2>00. \A j \in 1..Len(s) : s[j] # v
    BY <2>1
  <2>3. IsCons(nx, e, s, v)
    BY <2>0, <2>00, <2>2, LinkedCons
  <2> QED BY <2>3 DEF IsCons, e, t, ny
<1>4. \A j \in 1..Len(t) : j = 1 \/ (j - 1 \in 1..Len(s) /\ t[j] = s[j - 1])
  BY <1>3
<1>5. /\ g \in [0..(size - 1) -> Node] /\ g[i] = v /\ \A k \in 0..(size - 1) : k # i => g[k] = h[k]
      /\ ny \in [Value -> Node]
  BY <1>1 DEF Node
<1>6. /\ D \in [0..(size - 1) -> Seq(Value)] /\ D[i] = t
      /\ \A k \in 0..(size - 1) : k # i => D[k] = C[k]
  <2> HIDE DEF t
  <2> QED BY <1>1, <1>3
<1>7. ASSUME NEW k \in 0..(size - 1)
      PROVE  /\ Linked(ny, g[k], D[k]) /\ Distinct(D[k])
             /\ \A j \in 1..Len(D[k]) : D[k][j] \in S \cup {v} /\ Index(D[k][j], size) = k
  <2>1. CASE k = i
    <3>1. \A j \in 1..Len(t) : t[j] \in S \cup {v} /\ Index(t[j], size) = i
      <4>1. \A j \in 1..Len(s) : s[j] \in S /\ Index(s[j], size) = i
        BY <1>1, <1>2
      <4> HIDE DEF t, s
      <4>2. ASSUME NEW j \in 1..Len(t) PROVE t[j] \in S \cup {v} /\ Index(t[j], size) = i
        <5>1. CASE j = 1
          BY <1>3, <5>1
        <5>2. CASE j # 1
          BY <1>4, <4>1, <5>2
        <5> QED BY <5>1, <5>2
      <4> QED BY <4>2
    <3> HIDE DEF t, g, ny, D
    <3> QED BY <1>3, <1>5, <1>6, <2>1, <3>1
  <2>2. CASE k # i
    <3>1. Linked(ny, h[k], C[k])
      BY <1>1, <1>2, LinkedOther
    <3> HIDE DEF t, g, ny, D
    <3> QED BY <1>2, <1>5, <1>6, <2>2, <3>1
  <2> QED BY <2>1, <2>2
<1>8. ASSUME NEW w \in S \cup {v}
      PROVE  \E k \in 0..(size - 1) : \E j \in 1..Len(D[k]) : D[k][j] = w
  <2>1. CASE w = v
    <3>1. 1 \in 1..Len(D[i]) /\ D[i][1] = w
      <4> HIDE DEF t, D
      <4> QED BY <1>3, <1>6, <2>1
    <3> QED BY <1>1, <3>1
  <2>2. CASE w # v
    <3>1. PICK k \in 0..(size - 1) : \E j \in 1..Len(C[k]) : C[k][j] = w
      BY <2>2 DEF Table
    <3>2. PICK j \in 1..Len(C[k]) : C[k][j] = w
      BY <3>1
    <3>3. CASE k = i
      <4>1. j + 1 \in 1..Len(t) /\ t[j + 1] = w
        <5> HIDE DEF t
        <5> QED BY <1>3, <3>2, <3>3
      <4> HIDE DEF t, D
      <4> QED BY <1>6, <3>3, <4>1
    <3>4. CASE k # i
      <4> HIDE DEF t, D
      <4> QED BY <1>6, <3>2, <3>4
    <3> QED BY <3>3, <3>4
  <2> QED BY <2>1, <2>2
<1>9. S \cup {v} \subseteq Value
  BY <1>1
<1> HIDE DEF g, ny, D
<1>10. Table(g, ny, S \cup {v}, size, D)
  BY <1>1, <1>5, <1>6, <1>7, <1>8, <1>9 DEF Table
<1> QED BY <1>10 DEF g, ny, D

----------------------------------------------------------------------------
(* hashtable_rehash().                                                     *)

\* Two lists without a common value make one.
LEMMA JoinDistinct ==
    ASSUME NEW s \in Seq(Value), NEW t \in Seq(Value), Distinct(s), Distinct(t),
           \A i \in 1..Len(s), j \in 1..Len(t) : s[i] # t[j]
    PROVE  /\ s \o t \in Seq(Value) /\ Distinct(s \o t) /\ Len(s \o t) = Len(s) + Len(t)
           /\ Len(s) \in Nat /\ Len(t) \in Nat
           /\ \A i \in 1..Len(s) : i \in 1..Len(s \o t) /\ (s \o t)[i] = s[i]
           /\ \A j \in 1..Len(t) : Len(s) + j \in 1..Len(s \o t) /\ (s \o t)[Len(s) + j] = t[j]
           /\ \A k \in 1..Len(s \o t) : \/ k \in 1..Len(s) /\ (s \o t)[k] = s[k]
                                        \/ /\ k - Len(s) \in 1..Len(t)
                                           /\ (s \o t)[k] = t[k - Len(s)]
<1> DEFINE r == s \o t
<1>1. /\ r \in Seq(Value) /\ Len(r) = Len(s) + Len(t) /\ Len(s) \in Nat /\ Len(t) \in Nat
      /\ \A i \in 1..Len(s) : r[i] = s[i]
  OBVIOUS
<1>2. ASSUME NEW k \in 1..Len(r), k \notin 1..Len(s)
      PROVE  k - Len(s) \in 1..Len(t) /\ r[k] = t[k - Len(s)]
  <2>1. k \in Int /\ k - Len(s) \in 1..Len(t)
    BY <1>1, <1>2
  <2> QED BY <1>1, <1>2, <2>1
<1>3. ASSUME NEW j \in 1..Len(t) PROVE Len(s) + j \in 1..Len(r) /\ r[Len(s) + j] = t[j]
  <2>1. j \in Int /\ Len(s) + j \in 1..Len(r) /\ Len(s) + j \notin 1..Len(s)
        /\ (Len(s) + j) - Len(s) = j
    BY <1>1
  <2> HIDE DEF r
  <2> QED BY <1>2, <2>1
<1>4. \A i \in 1..Len(s) : i \in 1..Len(r)
  BY <1>1
<1> HIDE DEF r
<1>5. Distinct(r)
  <2>1. ASSUME NEW i \in 1..Len(r), NEW j \in 1..Len(r), r[i] = r[j] PROVE i = j
    <3>0. i \in Int /\ j \in Int
      BY <1>1
    <3>1. CASE i \in 1..Len(s) /\ j \in 1..Len(s)
      BY <1>1, <2>1, <3>1 DEF Distinct
    <3>2. CASE i \in 1..Len(s) /\ j \notin 1..Len(s)
      BY <1>1, <1>2, <2>1, <3>2
    <3>3. CASE i \notin 1..Len(s) /\ j \in 1..Len(s)
      BY <1>1, <1>2, <2>1, <3>3
    <3>4. CASE i \notin 1..Len(s) /\ j \notin 1..Len(s)
      <4>1. i - Len(s) \in 1..Len(t) /\ j - Len(s) \in 1..Len(t)
            /\ t[i - Len(s)] = t[j - Len(s)]
        BY <1>2, <2>1, <3>4
      <4>2. i - Len(s) = j - Len(s)
        BY <4>1 DEF Distinct
      <4> QED BY <1>1, <3>0, <4>2
    <3> QED BY <3>1, <3>2, <3>3, <3>4
  <2> QED BY <2>1 DEF Distinct
<1>6. \A k \in 1..Len(r) : \/ k \in 1..Len(s) /\ r[k] = s[k]
                           \/ k - Len(s) \in 1..Len(t) /\ r[k] = t[k - Len(s)]
  BY <1>1, <1>2
<1> QED BY <1>1, <1>3, <1>4, <1>5, <1>6 DEF r

\* The lists of a table, one after the other, have each value once.
Order(size, C) == FlattenSeq([j \in 1..size |-> C[j - 1]])

LEMMA OrderIs ==
    ASSUME NEW h, NEW nx, NEW S, NEW size, NEW C, Table(h, nx, S, size, C),
           NEW o, o = Order(size, C)
    PROVE  o \in Seq(S) /\ Distinct(o) /\ \A v \in S : \E j \in 1..Len(o) : o[j] = v
<1> DEFINE seqs == [j \in 1..size |-> C[j - 1]]
<1>1. /\ size \in Nat /\ S \subseteq Value /\ C \in [0..(size - 1) -> Seq(Value)]
      /\ \A v \in S : \E i \in 0..(size - 1) : \E j \in 1..Len(C[i]) : C[i][j] = v
  BY DEF Table
<1>2. \A j \in 1..size : j - 1 \in 0..(size - 1)
  BY <1>1
<1>3. seqs \in Seq(Seq(Value)) /\ Len(seqs) = size /\ \A j \in 1..size : seqs[j] = C[j - 1]
  <2>1. seqs \in [1..size -> Seq(Value)] /\ \A j \in 1..size : seqs[j] = C[j - 1]
    BY <1>1, <1>2
  <2> HIDE DEF seqs
  <2>2. seqs \in Seq(Seq(Value)) /\ Len(seqs) = size
    BY <1>1, <2>1
  <2> QED BY <2>1, <2>2
<1>4. PICK f : Joined(f, seqs, Value) /\ FlattenSeq(seqs) = f[Len(seqs)]
  <2> HIDE DEF seqs
  <2> QED BY <1>3, FlattenIs
<1>5. \A k \in 0..size : f[k] \in Seq(Value)
  BY <1>3, <1>4 DEF Joined
<1> DEFINE Good(k) ==
             /\ Distinct(f[k])
             /\ \A m \in 1..Len(f[k]) : f[k][m] \in S /\ Index(f[k][m], size) < k
             /\ \A i \in 0..(k - 1) : \A j \in 1..Len(C[i]) :
                  \E m \in 1..Len(f[k]) : f[k][m] = C[i][j]
           Q == {k \in 0..size : Good(k)}
<1>6. 0 \in Q
  <2>1. f[0] = <<>>
    BY <1>4 DEF Joined
  <2>2. Len(f[0]) = 0
    BY <2>1
  <2>3. 1..Len(f[0]) = {} /\ 0..(0 - 1) = {}
    BY <2>2
  <2>4. Good(0)
    BY <2>3 DEF Distinct
  <2> QED BY <1>1, <2>4
<1>7. ASSUME NEW k \in 1..size, k - 1 \in Q PROVE k \in Q
  <2> DEFINE i == k - 1
             s == f[i]
             t == C[i]
  <2>1. i \in 0..(size - 1) /\ i \in 0..size /\ k \in 0..size /\ i \in Int /\ i < k
    BY <1>1
  <2>2. /\ s \in Seq(Value) /\ t \in Seq(Value) /\ f[k] = s \o t
    <3>1. f[k] = f[k - 1] \o seqs[k]
      BY <1>3, <1>4 DEF Joined
    <3> QED BY <1>1, <1>3, <1>5, <2>1, <3>1
  <2>3. /\ Distinct(s)
        /\ \A m \in 1..Len(s) : s[m] \in S /\ Index(s[m], size) < i
        /\ \A x \in 0..(i - 1) : \A j \in 1..Len(C[x]) : \E m \in 1..Len(s) : s[m] = C[x][j]
    BY <1>7
  <2>4. Distinct(t) /\ \A j \in 1..Len(t) : t[j] \in S /\ Index(t[j], size) = i
    BY <2>1 DEF Table
  <2>5. \A m \in 1..Len(s), j \in 1..Len(t) : s[m] # t[j]
    <3> HIDE DEF i, s, t
    <3> QED BY <2>1, <2>3, <2>4
  <2> DEFINE r == f[k]
  <2>6. /\ Distinct(r)
        /\ \A m \in 1..Len(s) : m \in 1..Len(r) /\ r[m] = s[m]
        /\ \A j \in 1..Len(t) : Len(s) + j \in 1..Len(r) /\ r[Len(s) + j] = t[j]
        /\ \A m \in 1..Len(r) : \/ m \in 1..Len(s) /\ r[m] = s[m]
                                \/ m - Len(s) \in 1..Len(t) /\ r[m] = t[m - Len(s)]
    <3> HIDE DEF s, t, i
    <3> QED BY <2>2, <2>3, <2>4, <2>5, JoinDistinct
  <2>7. ASSUME NEW m \in 1..Len(r) PROVE r[m] \in S /\ Index(r[m], size) < k
    <3> HIDE DEF s, t, i, r
    <3>1. CASE m \in 1..Len(s) /\ r[m] = s[m]
      <4>1. r[m] \in S /\ Index(r[m], size) < i
        BY <2>3, <3>1
      <4>2. r[m] \in Value /\ size > 0
        BY <1>1, <2>1, <4>1
      <4>3. Index(r[m], size) \in Int
        BY <1>1, <4>2, IndexIs
      <4> QED BY <2>1, <4>1, <4>3
    <3>2. CASE m - Len(s) \in 1..Len(t) /\ r[m] = t[m - Len(s)]
      BY <2>1, <2>4, <3>2
    <3> QED BY <2>6, <3>1, <3>2
  <2>8. ASSUME NEW x \in 0..(k - 1), NEW j \in 1..Len(C[x])
        PROVE  \E m \in 1..Len(r) : r[m] = C[x][j]
    <3>1. CASE x = i
      <4>1. Len(s) + j \in 1..Len(r) /\ r[Len(s) + j] = t[j]
        BY <2>6, <3>1
      <4> QED BY <3>1, <4>1
    <3>2. CASE x # i
      <4>1. x \in 0..(i - 1)
        BY <2>1, <3>2
      <4>2. PICK m \in 1..Len(s) : s[m] = C[x][j]
        BY <2>3, <4>1
      <4> HIDE DEF s, t, i, r
      <4> QED BY <2>6, <4>2
    <3> QED BY <3>1, <3>2
  <2>9. Good(k)
    BY <2>6, <2>7, <2>8
  <2> QED BY <2>1, <2>9
<1>8. Good(size)
  <2>1. size \in Q
    <3> HIDE DEF Q
    <3>1. 0..size \subseteq Q
      BY <1>1, <1>6, <1>7, UpTo
    <3> QED BY <1>1, <3>1
  <2> QED BY <2>1
<1>9. o = f[size] /\ o \in Seq(Value)
  <2>1. size \in 0..size
    BY <1>1
  <2>2. o = FlattenSeq(seqs)
    BY DEF Order
  <2> HIDE DEF seqs
  <2> QED BY <1>3, <1>4, <1>5, <2>1, <2>2
<1>10. o \in Seq(S)
  <2>1. \A m \in 1..Len(o) : o[m] \in S
    BY <1>8, <1>9
  <2>2. Len(o) \in Nat /\ o = [m \in 1..Len(o) |-> o[m]]
    BY <1>9
  <2>3. o \in [1..Len(o) -> S]
    BY <2>1, <2>2
  <2> QED BY <2>2, <2>3
<1>11. ASSUME NEW v \in S PROVE \E j \in 1..Len(o) : o[j] = v
  <2>1. PICK i \in 0..(size - 1) : \E j \in 1..Len(C[i]) : C[i][j] = v
    BY <1>1
  <2>2. PICK m \in 1..Len(f[size]) : f[size][m] = v
    BY <1>8, <2>1
  <2> QED BY <1>9, <2>2
<1> QED BY <1>8, <1>9, <1>10, <1>11

LEMMA PrependIs ==
    ASSUME NEW u, u = [head |-> u.head, next |-> u.next], NEW i, NEW v
    PROVE  Prepend(u, i, v) = [head |-> [u.head EXCEPT ![i] = v],
                               next |-> [u.next EXCEPT ![v] = u.head[i]]]
<1> DEFINE h == u.head
           nx == u.next
<1>1. u = [head |-> h, next |-> nx]
  OBVIOUS
<1> HIDE DEF h, nx
<1>2. Prepend([head |-> h, next |-> nx], i, v)
      = [head |-> [h EXCEPT ![i] = v], next |-> [nx EXCEPT ![v] = h[i]]]
  <2> DEFINE t == [head |-> h, next |-> nx]
             g == [h EXCEPT ![i] = v]
             ny == [nx EXCEPT ![v] = h[i]]
  <2>1. t.head = h /\ t.next = nx
    OBVIOUS
  <2>2. Prepend(t, i, v) = [[t EXCEPT !.head = [t.head EXCEPT ![i] = v]]
                               EXCEPT !.next = [t.next EXCEPT ![v] = t.head[i]]]
    BY DEF Prepend
  <2>3. Prepend(t, i, v) = [[t EXCEPT !.head = g] EXCEPT !.next = ny]
    <3> HIDE DEF t
    <3> QED BY <2>1, <2>2
  <2> HIDE DEF g, ny
  <2>4. [[t EXCEPT !.head = g] EXCEPT !.next = ny] = [head |-> g, next |-> ny]
    <3>1. [t EXCEPT !.head = g] = [head |-> g, next |-> nx]
      OBVIOUS
    <3>2. [[head |-> g, next |-> nx] EXCEPT !.next = ny] = [head |-> g, next |-> ny]
      OBVIOUS
    <3> QED BY <3>1, <3>2
  <2> QED BY <2>3, <2>4 DEF g, ny
<1> QED BY <1>1, <1>2 DEF h, nx

\* The entries of a table moved to any number of buckets that can hold them.
LEMMA RehashedTable ==
    ASSUME NEW h, NEW nx, NEW S, NEW C, Table(h, nx, S, nbuckets, C),
           NEW size \in Nat, size > 0 \/ S = {},
           NEW t, t = Rehashed([head |-> h, next |-> nx], size)
    PROVE  /\ \E D : Table(t.head, t.next, S, size, D)
           /\ t = [head |-> t.head, next |-> t.next]
<1> DEFINE old == [head |-> h, next |-> nx]
           seqs == [j \in 1..nbuckets |-> From(old.next, old.head[j - 1])]
           order == FlattenSeq(seqs)
           n == Len(order)
           V == [head : [0..(size - 1) -> Node], next : [Value -> Node]]
           base == [head |-> [i \in 0..(size - 1) |-> NULL], next |-> nx]
           step == [u \in V |-> [v \in S |-> Prepend(u, Index(v, size), v)]]
           end == Rehashed(old, size)
<1>1. /\ nbuckets \in Nat /\ S \subseteq Value
      /\ h \in [0..(nbuckets - 1) -> Node] /\ nx \in [Value -> Node]
      /\ C \in [0..(nbuckets - 1) -> Seq(Value)]
      /\ \A i \in 0..(nbuckets - 1) : Linked(nx, h[i], C[i]) /\ Distinct(C[i])
  BY DEF Table
<1>2. seqs = [j \in 1..nbuckets |-> C[j - 1]]
  <2>1. ASSUME NEW j \in 1..nbuckets PROVE From(old.next, old.head[j - 1]) = C[j - 1]
    <3>1. j - 1 \in 0..(nbuckets - 1)
      BY <1>1
    <3>2. Linked(nx, h[j - 1], C[j - 1]) /\ Distinct(C[j - 1]) /\ C[j - 1] \in Seq(Value)
      BY <1>1, <3>1
    <3>3. From(nx, h[j - 1]) = C[j - 1]
      BY <1>1, <3>2, FromIs
    <3> QED BY <3>3
  <2> QED BY <2>1
<1>3. /\ order \in Seq(S) /\ Distinct(order)
      /\ \A v \in S : \E j \in 1..Len(order) : order[j] = v
  <2>1. order = Order(nbuckets, C)
    BY <1>2 DEF Order
  <2> HIDE DEF order
  <2> QED BY <2>1, OrderIs
<1>4. base \in V
  BY <1>1 DEF Node
<1>5. ASSUME NEW u \in V, NEW v \in S PROVE Prepend(u, Index(v, size), v) \in V
  <2>1. v \in Value /\ Index(v, size) \in 0..(size - 1)
    BY <1>1, IndexIs
  <2>2. u.head \in [0..(size - 1) -> Node] /\ u.next \in [Value -> Node]
        /\ u = [head |-> u.head, next |-> u.next]
    OBVIOUS
  <2>3. u.head[Index(v, size)] \in Node /\ v \in Node
    BY <2>1, <2>2 DEF Node
  <2>4. Prepend(u, Index(v, size), v)
        = [head |-> [u.head EXCEPT ![Index(v, size)] = v],
           next |-> [u.next EXCEPT ![v] = u.head[Index(v, size)]]]
    <3> DEFINE i == Index(v, size)
    <3> HIDE DEF i, V
    <3> QED BY <2>2, PrependIs
  <2>5. /\ [u.head EXCEPT ![Index(v, size)] = v] \in [0..(size - 1) -> Node]
        /\ [u.next EXCEPT ![v] = u.head[Index(v, size)]] \in [Value -> Node]
    BY <2>2, <2>3
  <2> QED BY <2>4, <2>5
<1>6. ListStep(step, S, V) /\ \A u \in V, v \in S : step[u][v] = Prepend(u, Index(v, size), v)
  <2> HIDE DEF V
  <2> QED BY <1>5 DEF ListStep
<1> DEFINE Eq(g) == g = [s \in SUBSET (DOMAIN order) |->
                           IF s = {} THEN base
                           ELSE Prepend(g[s \ {Max(s)}], Index(order[Max(s)], size),
                                        order[Max(s)])]
           iter == CHOOSE g : Eq(g)
<1>7. end = iter[DOMAIN order]
  BY DEF Rehashed, FoldLeft, MapThenFoldSet
<1>8. DOMAIN order = 1..n /\ n \in Nat
  <2> HIDE DEF order
  <2> QED BY <1>3
<1>9. Eq(iter)
  <2>1. PICK g : ListFold(g, order, V, base, step)
    <3> HIDE DEF order, V, base, step
    <3> QED BY <1>3, <1>4, <1>6, ListFoldExists
  <2> DEFINE turn(s) == IF s = {} THEN base
                        ELSE Prepend(g[s \ {Max(s)}], Index(order[Max(s)], size), order[Max(s)])
  <2>2. /\ g \in [SUBSET (1..n) -> V]
        /\ \A s \in SUBSET (1..n) :
             g[s] = IF s = {} THEN base ELSE step[g[s \ {Max(s)}]][order[Max(s)]]
    <3> HIDE DEF V, base, step, order
    <3> QED BY <2>1 DEF ListFold
  <2>3. ASSUME NEW s \in SUBSET (1..n) PROVE g[s] = turn(s)
    <3>1. CASE s = {}
      BY <2>2, <3>1
    <3>2. CASE s # {}
      <4> DEFINE u == g[s \ {Max(s)}]
                 v == order[Max(s)]
      <4>1. v \in S
        <5> HIDE DEF order
        <5> QED BY <1>3, <3>2, LastIndex
      <4>2. u \in V
        <5>1. s \ {Max(s)} \in SUBSET (1..n)
          OBVIOUS
        <5> HIDE DEF V
        <5> QED BY <2>2, <5>1
      <4>3. g[s] = step[u][v]
        BY <2>2, <3>2
      <4>4. step[u][v] = Prepend(u, Index(v, size), v)
        <5> HIDE DEF V, step, u, v
        <5> QED BY <1>6, <4>1, <4>2
      <4> QED BY <3>2, <4>3, <4>4
    <3> QED BY <3>1, <3>2
  <2>4. g = [s \in SUBSET (1..n) |-> turn(s)]
    <3> HIDE DEF V, turn, n
    <3> QED BY <2>2, <2>3
  <2>5. Eq(g)
    <3> HIDE DEF V, order, base
    <3> QED BY <1>8, <2>4
  <2> HIDE DEF Eq
  <2> QED BY <2>5
<1>10. ListFoldIn(iter, order, V, base, step)
  <2> HIDE DEF iter
  <2>1. \A s \in SUBSET (1..n) :
          iter[s] = IF s = {} THEN base
                    ELSE Prepend(iter[s \ {Max(s)}], Index(order[Max(s)], size), order[Max(s)])
    <3> HIDE DEF order, base
    <3> QED BY <1>8, <1>9
  <2>2. ASSUME NEW s \in SUBSET (1..n), s # {} PROVE order[Max(s)] \in S
    <3> HIDE DEF order
    <3> QED BY <1>3, <2>2, LastIndex
  <2>3. {} \in SUBSET (1..n)
    OBVIOUS
  <2> HIDE DEF order, V, base, step
  <2> QED BY <1>6, <2>1, <2>2, <2>3 DEF ListFoldIn
<1>11. PICK f : ListWalk(f, order, V, base, step, iter[1..n])
  <2> HIDE DEF order, V, base, step, iter
  <2> QED BY <1>3, <1>4, <1>6, <1>10, ListFoldSteps
<1>12. /\ f \in [0..n -> V] /\ f[0] = base /\ f[n] = end
       /\ \A k \in 1..n : f[k] = Prepend(f[k - 1], Index(order[k], size), order[k])
  <2>1. \A k \in 1..n : order[k] \in S
    <3> HIDE DEF order
    <3> QED BY <1>3
  <2>2. \A k \in 1..n : k - 1 \in 0..n
    BY <1>8
  <2>3. /\ f \in [0..n -> V] /\ f[0] = base /\ f[n] = iter[1..n]
        /\ \A k \in 1..n : f[k] = step[f[k - 1]][order[k]]
    <3> HIDE DEF order, V, base, step, iter
    <3> QED BY <1>11 DEF ListWalk
  <2> HIDE DEF order, V, base, step, iter, end
  <2> QED BY <1>6, <1>7, <1>8, <2>1, <2>2, <2>3
<1> HIDE DEF order, end, base
<1> DEFINE Moved(k) == {order[j] : j \in 1..k}
           Q == {k \in 0..n : \E D : Table(f[k].head, f[k].next, Moved(k), size, D)}
<1>13. 0 \in Q
  <2>1. Moved(0) = {}
    OBVIOUS
  <2>2. /\ base.head = [i \in 0..(size - 1) |-> NULL] /\ base.next = nx
    BY DEF base
  <2>3. base.head \in [0..(size - 1) -> Node] /\ \A i \in 0..(size - 1) : base.head[i] = NULL
    BY <2>2 DEF Node
  <2>4. \E D : Table(base.head, base.next, {}, size, D)
    <3> DEFINE h0 == base.head
    <3> HIDE DEF h0
    <3>1. h0 \in [0..(size - 1) -> Node] /\ \A i \in 0..(size - 1) : h0[i] = NULL
      BY <2>3 DEF h0
    <3>2. \E D : Table(h0, nx, {}, size, D)
      BY <1>1, <3>1, EmptyTable
    <3> QED BY <2>2, <3>2 DEF h0
  <2> HIDE DEF Moved, V
  <2>5. \E D : Table(f[0].head, f[0].next, Moved(0), size, D)
    BY <1>12, <2>1, <2>4
  <2>6. 0 \in 0..n
    BY <1>8
  <2> QED BY <2>5, <2>6
<1>14. ASSUME NEW k \in 1..n, k - 1 \in Q PROVE k \in Q
  <2> DEFINE u == f[k - 1]
             v == order[k]
             i == Index(v, size)
             T == Moved(k - 1)
  <2>1. PICK D : Table(u.head, u.next, T, size, D)
    BY <1>14
  <2>2. v \in S /\ v \in Value /\ size > 0 /\ i \in 0..(size - 1) /\ k \in Int
    <3>1. v \in S /\ k \in Int
      BY <1>3, <1>8
    <3>2. v \in Value /\ size > 0
      BY <1>1, <3>1
    <3> QED BY <3>1, <3>2, IndexIs
  <2>3. v \notin T
    <3>1. \A j \in 1..(k - 1) : j \in 1..n /\ j # k
      BY <1>8, <2>2
    <3> QED BY <1>3, <3>1 DEF Distinct
  <2>4. Moved(k) = T \cup {v}
    <3>1. 1..k = (1..(k - 1)) \cup {k}
      BY <1>8
    <3> QED BY <3>1
  <2>5. f[k] = Prepend(u, i, v) /\ u \in V
    <3>1. k - 1 \in 0..n
      BY <1>8
    <3> QED BY <1>12, <3>1
  <2>6. f[k] = [head |-> [u.head EXCEPT ![i] = v], next |-> [u.next EXCEPT ![v] = u.head[i]]]
    <3>1. u = [head |-> u.head, next |-> u.next]
      BY <2>5
    <3> HIDE DEF u, i, v
    <3> QED BY <2>5, <3>1, PrependIs
  <2> HIDE DEF u, i, v, T
  <2>7. Table([u.head EXCEPT ![i] = v], [u.next EXCEPT ![v] = u.head[i]], T \cup {v}, size,
              [D EXCEPT ![i] = <<v>> \o D[i]])
    BY <2>1, <2>2, <2>3, PrependTable DEF i
  <2>8. Table(f[k].head, f[k].next, Moved(k), size, [D EXCEPT ![i] = <<v>> \o D[i]])
    <3> HIDE DEF Moved
    <3> QED BY <2>4, <2>6, <2>7
  <2>9. k \in 0..n
    BY <1>8
  <2> HIDE DEF Moved
  <2> QED BY <2>8, <2>9
<1>15. n \in Q
  <2> HIDE DEF Q, n
  <2>1. 0..n \subseteq Q
    BY <1>8, <1>13, <1>14, UpTo
  <2> QED BY <1>8, <2>1
<1>16. Moved(n) = S
  <2>1. \A j \in 1..n : order[j] \in S
    BY <1>3
  <2>2. \A v \in S : \E j \in 1..n : order[j] = v
    BY <1>3
  <2> HIDE DEF n
  <2> QED BY <2>1, <2>2
<1>17. end \in V
  <2>1. n \in 0..n
    BY <1>8
  <2> HIDE DEF V
  <2> QED BY <1>12, <2>1
<1>18. end = [head |-> end.head, next |-> end.next]
  BY <1>17
<1>19. \E D : Table(end.head, end.next, S, size, D)
  <2> HIDE DEF V, Moved
  <2> QED BY <1>12, <1>15, <1>16
<1>20. t = end
  BY DEF end
<1> QED BY <1>18, <1>19, <1>20

----------------------------------------------------------------------------
(* slist_remove(), and what a walk has before it.                          *)

Without(s, j) == [k \in 1..(Len(s) - 1) |-> IF k < j THEN s[k] ELSE s[k + 1]]

\* The predecessor of the element at j.
Before(s, j) == IF j = 1 THEN NULL ELSE s[j - 1]

\* Its successor.
Behind(s, j) == IF j < Len(s) THEN s[j + 1] ELSE NULL

LEMMA WithoutIs ==
    ASSUME NEW s \in Seq(Value), Distinct(s), NEW j \in 1..Len(s), NEW t, t = Without(s, j)
    PROVE  /\ t \in Seq(Value) /\ Len(t) = Len(s) - 1 /\ Len(s) \in Nat /\ Distinct(t)
           /\ \A k \in 1..Len(t) : /\ k < j => k \in 1..Len(s) /\ t[k] = s[k]
                                   /\ k >= j => k + 1 \in 1..Len(s) /\ t[k] = s[k + 1]
           /\ \A k \in 1..Len(t) : t[k] # s[j]
           /\ \A k \in 1..Len(s) : s[k] = s[j] \/ \E m \in 1..Len(t) : t[m] = s[k]
<1>1. Len(s) \in Nat /\ j \in Int /\ 1 <= j /\ j <= Len(s) /\ Len(s) - 1 \in Nat
  OBVIOUS
<1>2. ASSUME NEW k \in 1..(Len(s) - 1)
      PROVE  /\ k < j => k \in 1..Len(s) /\ t[k] = s[k]
             /\ k >= j => k + 1 \in 1..Len(s) /\ t[k] = s[k + 1]
             /\ t[k] \in Value
  <2>1. k \in 1..Len(s) /\ k + 1 \in 1..Len(s)
    BY <1>1
  <2>2. t[k] = IF k < j THEN s[k] ELSE s[k + 1]
    BY DEF Without
  <2> QED BY <1>1, <2>1, <2>2
<1>3. t \in Seq(Value) /\ Len(t) = Len(s) - 1
  <2>1. t = [k \in 1..(Len(s) - 1) |-> t[k]]
    BY DEF Without
  <2>2. t \in [1..(Len(s) - 1) -> Value]
    BY <1>2, <2>1
  <2> QED BY <1>1, <2>2
<1> HIDE DEF Without
<1>4. ASSUME NEW k \in 1..Len(t)
      PROVE  /\ k < j => k \in 1..Len(s) /\ t[k] = s[k]
             /\ k >= j => k + 1 \in 1..Len(s) /\ t[k] = s[k + 1]
  BY <1>2, <1>3
<1>5. Distinct(t)
  <2>1. ASSUME NEW i \in 1..Len(t), NEW k \in 1..Len(t), t[i] = t[k] PROVE i = k
    <3>1. i \in Int /\ k \in Int
      BY <1>1, <1>3
    <3>2. CASE i < j /\ k < j
      BY <1>4, <2>1, <3>2 DEF Distinct
    <3>3. CASE i >= j /\ k < j
      <4>1. i + 1 = k
        BY <1>4, <2>1, <3>3 DEF Distinct
      <4> QED BY <1>1, <3>1, <3>3, <4>1
    <3>4. CASE i < j /\ k >= j
      <4>1. i = k + 1
        BY <1>4, <2>1, <3>4 DEF Distinct
      <4> QED BY <1>1, <3>1, <3>4, <4>1
    <3>5. CASE i >= j /\ k >= j
      <4>1. i + 1 = k + 1
        BY <1>4, <2>1, <3>5 DEF Distinct
      <4> QED BY <3>1, <4>1
    <3> QED BY <1>1, <3>1, <3>2, <3>3, <3>4, <3>5
  <2> QED BY <2>1 DEF Distinct
<1>6. ASSUME NEW k \in 1..Len(t), t[k] = s[j] PROVE FALSE
  <2>1. k \in Int
    BY <1>1, <1>3
  <2>2. CASE k < j
    BY <1>1, <1>4, <1>6, <2>1, <2>2 DEF Distinct
  <2>3. CASE k >= j
    <3>1. k + 1 = j
      BY <1>4, <1>6, <2>3 DEF Distinct
    <3> QED BY <1>1, <2>1, <2>3, <3>1
  <2> QED BY <1>1, <2>1, <2>2, <2>3
<1>7. ASSUME NEW k \in 1..Len(s), s[k] # s[j] PROVE \E m \in 1..Len(t) : t[m] = s[k]
  <2>1. k \in Int /\ k # j
    BY <1>1, <1>7
  <2>2. CASE k < j
    <3>1. k \in 1..Len(t)
      BY <1>1, <1>3, <2>1, <2>2
    <3> QED BY <1>4, <2>2, <3>1
  <2>3. CASE k > j
    <3>1. k - 1 \in 1..Len(t) /\ k - 1 >= j /\ (k - 1) + 1 = k
      BY <1>1, <1>3, <2>1, <2>3
    <3> QED BY <1>4, <3>1
  <2> QED BY <1>1, <2>1, <2>2, <2>3
<1> QED BY <1>1, <1>3, <1>4, <1>5, <1>6, <1>7

\* The pointers ny that are left of nx when v, behind prev, is unlinked.
Relinked(ny, nx, prev, v) ==
    /\ ny \in [Value -> Node] /\ ny[v] = NULL
    /\ prev # NULL => ny[prev] = nx[v]
    /\ \A w \in Value : w # v /\ w # prev => ny[w] = nx[w]

LEMMA LinkedWithout ==
    ASSUME NEW nx \in [Value -> Node], NEW e, NEW s \in Seq(Value), Linked(nx, e, s), Distinct(s),
           NEW j \in 1..Len(s), NEW ny, Relinked(ny, nx, Before(s, j), s[j]),
           NEW g, g = IF j = 1 THEN nx[s[j]] ELSE e
    PROVE  Linked(ny, g, Without(s, j))
<1> DEFINE t == Without(s, j)
<1>1. /\ t \in Seq(Value) /\ Len(t) = Len(s) - 1 /\ Len(s) \in Nat
      /\ \A k \in 1..Len(t) : /\ k < j => k \in 1..Len(s) /\ t[k] = s[k]
                              /\ k >= j => k + 1 \in 1..Len(s) /\ t[k] = s[k + 1]
      /\ \A k \in 1..Len(t) : t[k] # s[j]
  <2> HIDE DEF t
  <2> QED BY WithoutIs DEF t
<1>2. /\ \A k \in 1..Len(s) : s[k] \in Value /\ nx[s[k]] = Behind(s, k)
      /\ e = IF Len(s) = 0 THEN NULL ELSE s[1]
  BY DEF Linked, Behind
<1>3. j \in Int /\ 1 <= j /\ j <= Len(s)
  BY <1>1
<1> HIDE DEF t
<1>4. g = IF Len(t) = 0 THEN NULL ELSE t[1]
  <2>1. CASE j = 1
    <3>1. g = Behind(s, 1)
      BY <1>2, <2>1
    <3>2. CASE Len(s) = 1
      BY <1>1, <3>1, <3>2 DEF Behind
    <3>3. CASE Len(s) # 1
      <4>1. Len(t) # 0 /\ 1 \in 1..Len(t) /\ 1 >= j
        BY <1>1, <1>3, <2>1, <3>3
      <4>2. g = s[2] /\ t[1] = s[1 + 1] /\ 1 + 1 = 2
        BY <1>1, <1>3, <3>1, <3>3, <4>1 DEF Behind
      <4> QED BY <4>1, <4>2
    <3> QED BY <3>2, <3>3
  <2>2. CASE j # 1
    <3>1. Len(t) # 0 /\ 1 \in 1..Len(t) /\ 1 < j /\ Len(s) # 0
      BY <1>1, <1>3, <2>2
    <3>2. g = s[1] /\ t[1] = s[1]
      BY <1>1, <1>2, <2>2, <3>1
    <3> QED BY <3>1, <3>2
  <2> QED BY <2>1, <2>2
<1>5. ASSUME NEW k \in 1..Len(t) PROVE ny[t[k]] = Behind(t, k)
  <2>1. k \in Int /\ t[k] \in Value /\ t[k] # s[j]
    BY <1>1
  <2>2. CASE k = j - 1
    <3>1. k < j /\ j # 1 /\ Before(s, j) = t[k] /\ t[k] # NULL
      <4>1. k < j /\ j # 1 /\ t[k] # NULL
        BY <1>3, <2>1, <2>2, Constants
      <4>2. t[k] = s[k]
        BY <1>1, <4>1
      <4> QED BY <2>2, <4>1, <4>2 DEF Before
    <3>2. ny[t[k]] = Behind(s, j)
      BY <1>2, <3>1 DEF Relinked
    <3>3. CASE k < Len(t)
      <4>1. k + 1 \in 1..Len(t) /\ k + 1 >= j /\ k + 1 = j /\ j < Len(s)
        BY <1>1, <1>3, <2>1, <2>2, <3>3
      <4>2. t[k + 1] = s[j + 1]
        BY <1>1, <4>1
      <4> QED BY <3>2, <3>3, <4>1, <4>2 DEF Behind
    <3>4. CASE ~(k < Len(t))
      <4>1. ~(j < Len(s))
        BY <1>1, <1>3, <2>1, <2>2, <3>4
      <4> QED BY <3>2, <3>4, <4>1 DEF Behind
    <3> QED BY <3>3, <3>4
  <2>3. CASE k < j - 1
    <3>1. k < j /\ k \in 1..Len(s) /\ t[k] = s[k] /\ j # 1 /\ j - 1 \in 1..Len(s)
      BY <1>1, <1>3, <2>1, <2>3
    <3>2. Before(s, j) # t[k]
      <4>1. Before(s, j) = s[j - 1] /\ k # j - 1
        BY <2>1, <2>3, <3>1, <1>3 DEF Before
      <4> QED BY <3>1, <4>1 DEF Distinct
    <3>3. ny[t[k]] = Behind(s, k)
      BY <1>2, <2>1, <3>1, <3>2 DEF Relinked
    <3>4. k < Len(s) /\ k < Len(t) /\ k + 1 \in 1..Len(t) /\ k + 1 < j
      BY <1>1, <1>3, <2>1, <2>3
    <3>5. t[k + 1] = s[k + 1]
      BY <1>1, <3>4
    <3> QED BY <3>3, <3>4, <3>5 DEF Behind
  <2>4. CASE k >= j
    <3>1. k + 1 \in 1..Len(s) /\ t[k] = s[k + 1]
      BY <1>1, <2>4
    <3>2. Before(s, j) # t[k]
      <4>1. CASE j = 1
        BY <2>1, <4>1, Constants DEF Before
      <4>2. CASE j # 1
        <5>1. Before(s, j) = s[j - 1] /\ j - 1 \in 1..Len(s) /\ j - 1 # k + 1
          BY <1>1, <1>3, <2>1, <2>4, <4>2 DEF Before
        <5> QED BY <3>1, <5>1 DEF Distinct
      <4> QED BY <4>1, <4>2
    <3>3. ny[t[k]] = Behind(s, k + 1)
      BY <1>2, <2>1, <3>1, <3>2 DEF Relinked
    <3>4. CASE k < Len(t)
      <4>1. k + 1 \in 1..Len(t) /\ k + 1 >= j /\ k + 1 < Len(s)
        BY <1>1, <1>3, <2>1, <2>4, <3>4
      <4>2. t[k + 1] = s[(k + 1) + 1]
        BY <1>1, <4>1
      <4> QED BY <3>3, <3>4, <4>1, <4>2 DEF Behind
    <3>5. CASE ~(k < Len(t))
      <4>1. ~(k + 1 < Len(s))
        BY <1>1, <2>1, <3>5
      <4> QED BY <3>3, <3>5, <4>1 DEF Behind
    <3> QED BY <3>4, <3>5
  <2> QED BY <1>3, <2>1, <2>2, <2>3, <2>4
<1> QED BY <1>4, <1>5 DEF Linked, Behind, t

UnlinkFrom(size, h, nx, i, prev, v) ==
    /\ h \in [0..(size - 1) -> Node] /\ nx \in [Value -> Node] /\ i \in 0..(size - 1)
    /\ prev \in Node /\ v \in Value /\ v # prev

Unlinks(u, size, h, nx, i, prev, v) ==
    /\ u = [head |-> u.head, next |-> u.next] /\ Relinked(u.next, nx, prev, v)
    /\ u.head \in [0..(size - 1) -> Node]
    /\ u.head[i] = IF prev = NULL THEN nx[v] ELSE h[i]
    /\ \A k \in 0..(size - 1) : k # i => u.head[k] = h[k]

LEMMA UnlinkIs ==
    ASSUME NEW size, NEW h, NEW nx, NEW i, NEW prev, NEW v, UnlinkFrom(size, h, nx, i, prev, v),
           NEW u, u = Unlink([head |-> h, next |-> nx], i, prev, v)
    PROVE  Unlinks(u, size, h, nx, i, prev, v)
<1> DEFINE t == [head |-> h, next |-> nx]
<1>1. t.head = h /\ t.next = nx
  OBVIOUS
<1>2. /\ UnlinkFrom(size, h, nx, i, prev, v)
      /\ NULL \in Node /\ (prev # NULL => prev \in Value) /\ nx[v] \in Node
  BY DEF Node, UnlinkFrom
<1>3. CASE prev = NULL
  <2> DEFINE g == [h EXCEPT ![i] = nx[v]]
             ny == [nx EXCEPT ![v] = NULL]
  <2>1. u = [[t EXCEPT !.head = [t.head EXCEPT ![i] = t.next[v]]]
                EXCEPT !.next = [t.next EXCEPT ![v] = NULL]]
    BY <1>3 DEF Unlink
  <2>2. u = [[t EXCEPT !.head = g] EXCEPT !.next = ny]
    <3> HIDE DEF t
    <3> QED BY <1>1, <2>1
  <2> HIDE DEF g, ny
  <2>3. [t EXCEPT !.head = g] = [head |-> g, next |-> nx]
    OBVIOUS
  <2>4. [[head |-> g, next |-> nx] EXCEPT !.next = ny] = [head |-> g, next |-> ny]
    OBVIOUS
  <2>5. u = [head |-> g, next |-> ny]
    <3> HIDE DEF t
    <3> QED BY <2>2, <2>3, <2>4
  <2>6. u.head = g /\ u.next = ny /\ u = [head |-> u.head, next |-> u.next]
    BY <2>5
  <2>7. /\ g \in [0..(size - 1) -> Node] /\ g[i] = nx[v]
       /\ \A k \in 0..(size - 1) : k # i => g[k] = h[k]
    BY <1>2 DEF g, UnlinkFrom
  <2>8. Relinked(ny, nx, prev, v)
    BY <1>2, <1>3 DEF ny, Relinked, UnlinkFrom
  <2> QED BY <1>3, <2>6, <2>7, <2>8 DEF Unlinks
<1>4. CASE prev # NULL
  <2> DEFINE nz == [nx EXCEPT ![prev] = nx[v]]
             ny == [nz EXCEPT ![v] = NULL]
  <2>1. u = [[t EXCEPT !.next = [t.next EXCEPT ![prev] = t.next[v]]]
                EXCEPT !.next = [[t.next EXCEPT ![prev] = t.next[v]] EXCEPT ![v] = NULL]]
    BY <1>4 DEF Unlink
  <2>2. u = [[t EXCEPT !.next = nz] EXCEPT !.next = ny]
    <3> HIDE DEF t
    <3> QED BY <1>1, <2>1
  <2> HIDE DEF nz, ny
  <2>3. [t EXCEPT !.next = nz] = [head |-> h, next |-> nz]
    OBVIOUS
  <2>4. [[head |-> h, next |-> nz] EXCEPT !.next = ny] = [head |-> h, next |-> ny]
    OBVIOUS
  <2>5. u = [head |-> h, next |-> ny]
    <3> HIDE DEF t
    <3> QED BY <2>2, <2>3, <2>4
  <2>6. u.head = h /\ u.next = ny /\ u = [head |-> u.head, next |-> u.next]
    BY <2>5
  <2>7. nz \in [Value -> Node] /\ nz[prev] = nx[v] /\ \A w \in Value : w # prev => nz[w] = nx[w]
    BY <1>2, <1>4 DEF nz, UnlinkFrom
  <2>8. ny \in [Value -> Node] /\ ny[v] = NULL /\ \A w \in Value : w # v => ny[w] = nz[w]
    BY <1>2, <2>7 DEF ny, UnlinkFrom
  <2>9. Relinked(ny, nx, prev, v)
    BY <1>2, <1>4, <2>7, <2>8 DEF Relinked, UnlinkFrom
  <2> QED BY <1>2, <1>4, <2>6, <2>9 DEF Unlinks, UnlinkFrom
<1> QED BY <1>3, <1>4 DEF Unlinks

\* v is the element j of the list i.
IsAt(C, size, i, j, v) == i \in 0..(size - 1) /\ j \in 1..Len(C[i]) /\ v = C[i][j]

Removed(C, i, j) == [C EXCEPT ![i] = Without(C[i], j)]
IsUnlinked(t, h, nx, C, i, j, v) ==
    t = Unlink([head |-> h, next |-> nx], i, Before(C[i], j), v)

IsLinks(t) == t = [head |-> t.head, next |-> t.next]

\* An element that is unlinked is gone from its list, the others are kept.
LEMMA UnlinkTable ==
    ASSUME NEW h, NEW nx, NEW S, NEW size, NEW C, Table(h, nx, S, size, C),
           NEW i, NEW j, NEW v, IsAt(C, size, i, j, v),
           NEW t, IsUnlinked(t, h, nx, C, i, j, v)
    PROVE  /\ Table(t.head, t.next, S \ {v}, size, Removed(C, i, j))
           /\ IsLinks(t) /\ t.next[v] = NULL
<1> DEFINE s == C[i]
           prev == Before(s, j)
           r == Without(s, j)
           D == [C EXCEPT ![i] = r]
<1>0. i \in 0..(size - 1) /\ j \in 1..Len(C[i]) /\ v = C[i][j]
  BY DEF IsAt
<1>1. /\ size \in Nat /\ S \subseteq Value /\ i \in 0..(size - 1)
      /\ h \in [0..(size - 1) -> Node] /\ nx \in [Value -> Node]
      /\ C \in [0..(size - 1) -> Seq(Value)]
      /\ \A k \in 0..(size - 1) :
           /\ Linked(nx, h[k], C[k]) /\ Distinct(C[k])
           /\ \A m \in 1..Len(C[k]) : C[k][m] \in S /\ Index(C[k][m], size) = k
      /\ \A w \in S : \E k \in 0..(size - 1) : \E m \in 1..Len(C[k]) : C[k][m] = w
  BY <1>0 DEF Table
<1>2. /\ s \in Seq(Value) /\ Distinct(s) /\ Linked(nx, h[i], s) /\ v = s[j] /\ v \in S
      /\ Index(v, size) = i /\ v \in Value /\ j \in 1..Len(s)
  BY <1>0, <1>1
<1>3. /\ r \in Seq(Value) /\ Len(r) = Len(s) - 1 /\ Len(s) \in Nat /\ Distinct(r)
      /\ \A k \in 1..Len(r) : /\ k < j => k \in 1..Len(s) /\ r[k] = s[k]
                              /\ k >= j => k + 1 \in 1..Len(s) /\ r[k] = s[k + 1]
      /\ \A k \in 1..Len(r) : r[k] # s[j]
      /\ \A k \in 1..Len(s) : s[k] = s[j] \/ \E m \in 1..Len(r) : r[m] = s[k]
  <2> HIDE DEF s, r
  <2>1. s \in Seq(Value) /\ Distinct(s) /\ j \in 1..Len(s)
    BY <1>2
  <2> HIDE DEF prev, D
  <2> QED BY <2>1, WithoutIs DEF r
<1>4. prev = NULL \/ \E m \in 1..Len(s) : s[m] = prev
  <2>1. CASE j = 1
    BY <2>1 DEF Before
  <2>2. CASE j # 1
    <3>1. j - 1 \in 1..Len(s) /\ prev = s[j - 1]
      BY <1>2, <1>3, <2>2 DEF Before
    <3> QED BY <3>1
  <2> QED BY <2>1, <2>2
<1>5. prev = NULL <=> j = 1
  <2>1. j # 1 => j - 1 \in 1..Len(s)
    BY <1>2, <1>3
  <2> QED BY <1>2, <2>1, Constants DEF Before
<1>6. prev # NULL => prev \in Value /\ prev # v
  <2>1. ASSUME prev # NULL PROVE prev # v /\ prev \in Value
    <3>1. j # 1 /\ j - 1 \in 1..Len(s) /\ j \in Int /\ prev = s[j - 1]
      BY <1>2, <1>3, <1>5, <2>1 DEF Before
    <3> QED BY <1>2, <3>1 DEF Distinct
  <2> QED BY <2>1
<1>7. nx[v] \in Node /\ NULL \in Node /\ NULL \notin Value
  BY <1>1, <1>2, Constants DEF Node
<1> HIDE DEF s, prev, r
<1>8. /\ t = [head |-> t.head, next |-> t.next] /\ Relinked(t.next, nx, prev, v)
      /\ t.head \in [0..(size - 1) -> Node]
      /\ t.head[i] = IF j = 1 THEN nx[v] ELSE h[i]
      /\ \A k \in 0..(size - 1) : k # i => t.head[k] = h[k]
  <2>1. t = Unlink([head |-> h, next |-> nx], i, prev, v)
    BY DEF prev, s, IsUnlinked
  <2>2. prev \in Node /\ v # prev
    BY <1>2, <1>6, <1>7 DEF Node
  <2>3. /\ t = [head |-> t.head, next |-> t.next] /\ Relinked(t.next, nx, prev, v)
        /\ t.head \in [0..(size - 1) -> Node]
        /\ t.head[i] = IF prev = NULL THEN nx[v] ELSE h[i]
        /\ \A k \in 0..(size - 1) : k # i => t.head[k] = h[k]
    <3>1. UnlinkFrom(size, h, nx, i, prev, v)
      BY <1>1, <1>2, <2>2 DEF UnlinkFrom
    <3>2. Unlinks(t, size, h, nx, i, prev, v)
      <4> HIDE DEF D
      <4> QED BY <2>1, <3>1, UnlinkIs
    <3> QED BY <3>2 DEF Unlinks
  <2> QED BY <1>5, <2>3
<1>9. /\ D \in [0..(size - 1) -> Seq(Value)] /\ D[i] = r
      /\ \A k \in 0..(size - 1) : k # i => D[k] = C[k]
  BY <1>1, <1>3
<1> HIDE DEF D
<1>10. Linked(t.next, t.head[i], r)
  <2>1. Relinked(t.next, nx, Before(s, j), s[j])
    BY <1>2, <1>8 DEF prev
  <2>2. t.head[i] = IF j = 1 THEN nx[s[j]] ELSE h[i]
    BY <1>2, <1>8
  <2>3. Linked(t.next, t.head[i], Without(s, j))
    BY <1>1, <1>2, <2>1, <2>2, LinkedWithout
  <2> QED BY <2>3 DEF r
<1>11. ASSUME NEW k \in 0..(size - 1), k # i
       PROVE  Linked(t.next, h[k], C[k])
  <2>1. ASSUME NEW m \in 1..Len(C[k]) PROVE t.next[C[k][m]] = nx[C[k][m]]
    <3>1. C[k][m] \in Value /\ Index(C[k][m], size) = k
      BY <1>1
    <3>2. \A n \in 1..Len(s) : Index(s[n], size) = i
      BY <1>1 DEF s
    <3>3. C[k][m] # v /\ C[k][m] # prev
      BY <1>2, <1>4, <1>7, <1>11, <3>1, <3>2
    <3> QED BY <1>8, <3>1, <3>3 DEF Relinked
  <2>2. Linked(nx, h[k], C[k])
    BY <1>1
  <2> QED BY <2>1, <2>2 DEF Linked
<1>12. ASSUME NEW k \in 0..(size - 1)
       PROVE  /\ Linked(t.next, t.head[k], D[k]) /\ Distinct(D[k])
              /\ \A m \in 1..Len(D[k]) : D[k][m] \in S \ {v} /\ Index(D[k][m], size) = k
  <2>1. CASE k = i
    <3>1. ASSUME NEW m \in 1..Len(r) PROVE r[m] \in S \ {v} /\ Index(r[m], size) = i
      <4>1. \E n \in 1..Len(s) : s[n] = r[m]
        <5>1. m < j \/ m >= j
          BY <1>2, <1>3
        <5> QED BY <1>3, <5>1
      <4>2. \A n \in 1..Len(s) : s[n] \in S /\ Index(s[n], size) = i
        BY <1>1 DEF s
      <4>3. r[m] # v
        BY <1>2, <1>3
      <4> QED BY <4>1, <4>2, <4>3
    <3> QED BY <1>3, <1>9, <1>10, <2>1, <3>1
  <2>2. CASE k # i
    <3>1. ASSUME NEW m \in 1..Len(C[k])
          PROVE  C[k][m] \in S \ {v} /\ Index(C[k][m], size) = k
      BY <1>1, <1>2, <2>2
    <3> QED BY <1>1, <1>8, <1>9, <1>11, <2>2, <3>1
  <2> QED BY <2>1, <2>2
<1>13. ASSUME NEW w \in S \ {v}
       PROVE  \E k \in 0..(size - 1) : \E m \in 1..Len(D[k]) : D[k][m] = w
  <2>1. PICK k \in 0..(size - 1) : \E m \in 1..Len(C[k]) : C[k][m] = w
    BY <1>1
  <2>2. PICK m \in 1..Len(C[k]) : C[k][m] = w
    BY <2>1
  <2>3. CASE k = i
    <3>1. m \in 1..Len(s) /\ s[m] = w
      BY <2>2, <2>3 DEF s
    <3>2. PICK n \in 1..Len(r) : r[n] = w
      BY <1>2, <1>3, <3>1
    <3> QED BY <1>9, <2>3, <3>2
  <2>4. CASE k # i
    BY <1>9, <2>2, <2>4
  <2> QED BY <2>3, <2>4
<1>14. Table(t.head, t.next, S \ {v}, size, D)
  <2>1. S \ {v} \subseteq Value /\ t.next \in [Value -> Node]
    BY <1>1, <1>8 DEF Relinked
  <2> QED BY <1>1, <1>8, <1>9, <1>12, <1>13, <2>1 DEF Table
<1> QED BY <1>8, <1>14 DEF D, r, s, Relinked, Removed, IsLinks

At(s, j) == IF j <= Len(s) THEN s[j] ELSE NULL
After(s, j) == [k \in 1..(Len(s) - j + 1) |-> s[k + j - 1]]

\* What the pointers lead to from the element at j on.
LEMMA AfterIs ==
    ASSUME NEW nx \in [Value -> Node], NEW e, NEW s \in Seq(Value), Linked(nx, e, s), Distinct(s),
           NEW j \in 1..(Len(s) + 1)
    PROVE  \A v : v \in ToSet(From(nx, At(s, j))) <=> \E m \in 1..Len(s) : m >= j /\ s[m] = v
<1> DEFINE t == After(s, j)
           n == Len(s) - j + 1
<1>1. /\ Len(s) \in Nat /\ j \in Int /\ 1 <= j /\ j <= Len(s) + 1 /\ n \in Nat
      /\ \A k \in 1..n : k \in Int /\ k + j - 1 \in 1..Len(s) /\ k + j - 1 >= j
  OBVIOUS
<1>2. t \in Seq(Value) /\ Len(t) = n /\ \A k \in 1..n : t[k] = s[k + j - 1]
  <2>1. t \in [1..n -> Value]
    BY <1>1 DEF After
  <2> HIDE DEF n
  <2>2. t \in Seq(Value) /\ Len(t) = n
    <3> HIDE DEF t
    <3> QED BY <1>1, <2>1
  <2> QED BY <2>2 DEF After, n
<1> HIDE DEF t
<1>3. Distinct(t)
  <2>1. ASSUME NEW i \in 1..Len(t), NEW k \in 1..Len(t), t[i] = t[k] PROVE i = k
    <3> HIDE DEF n
    <3>1. i \in 1..n /\ k \in 1..n
      BY <1>2
    <3>2. /\ i + j - 1 \in 1..Len(s) /\ k + j - 1 \in 1..Len(s)
          /\ s[i + j - 1] = s[k + j - 1]
      BY <1>1, <1>2, <2>1, <3>1
    <3>3. i + j - 1 = k + j - 1
      BY <3>2 DEF Distinct
    <3> QED BY <1>1, <3>1, <3>3
  <2> QED BY <2>1 DEF Distinct
<1>4. \A m \in 1..Len(s) : nx[s[m]] = Behind(s, m)
  BY DEF Linked, Behind
<1>5. Linked(nx, At(s, j), t)
  <2>1. At(s, j) = IF Len(t) = 0 THEN NULL ELSE t[1]
    <3>1. CASE j <= Len(s)
      <4>1. 1 \in 1..n /\ 1 + j - 1 = j /\ n # 0
        BY <1>1, <3>1
      <4> QED BY <1>2, <3>1, <4>1 DEF At
    <3>2. CASE ~(j <= Len(s))
      BY <1>1, <1>2, <3>2 DEF At
    <3> QED BY <3>1, <3>2
  <2>2. ASSUME NEW k \in 1..Len(t) PROVE nx[t[k]] = Behind(t, k)
    <3>1. nx[t[k]] = Behind(s, k + j - 1)
      BY <1>1, <1>2, <1>4
    <3>2. CASE k < Len(t)
      <4>1. k + 1 \in 1..n /\ k + j - 1 < Len(s) /\ (k + 1) + j - 1 = (k + j - 1) + 1
        BY <1>1, <1>2, <3>2
      <4>2. t[k + 1] = s[(k + j - 1) + 1]
        BY <1>2, <4>1
      <4> QED BY <3>1, <3>2, <4>1, <4>2 DEF Behind
    <3>3. CASE ~(k < Len(t))
      <4>1. ~(k + j - 1 < Len(s))
        BY <1>1, <1>2, <3>3
      <4> QED BY <3>1, <3>3, <4>1 DEF Behind
    <3> QED BY <3>2, <3>3
  <2> QED BY <2>1, <2>2 DEF Linked, Behind
<1>6. From(nx, At(s, j)) = t
  BY <1>2, <1>3, <1>5, FromIs
<1>7. \A v : v \in ToSet(t) <=> \E k \in 1..n : t[k] = v
  BY <1>2 DEF ToSet
<1>8. ASSUME NEW m \in 1..Len(s), m >= j PROVE \E k \in 1..n : t[k] = s[m]
  <2>1. m - j + 1 \in 1..n /\ (m - j + 1) + j - 1 = m
    BY <1>1, <1>8
  <2> QED BY <1>2, <2>1
<1> HIDE DEF n
<1>9. ASSUME NEW v, NEW k \in 1..n, t[k] = v
      PROVE  \E m \in 1..Len(s) : m >= j /\ s[m] = v
  BY <1>1, <1>2, <1>9
<1>10. ASSUME NEW v
       PROVE  v \in ToSet(t) <=> \E m \in 1..Len(s) : m >= j /\ s[m] = v
  BY <1>7, <1>8, <1>9
<1> QED BY <1>6, <1>10

----------------------------------------------------------------------------
(* The table as it is: its lists, and what is stored.                      *)

LEMMA ChainIs ==
    ASSUME NEW C, Table(head, next, live, nbuckets, C), NEW i \in 0..(nbuckets - 1)
    PROVE  /\ Chain(i) = C[i] /\ C[i] \in Seq(Value) /\ Distinct(C[i])
           /\ \A v : v \in ToSet(Chain(i)) <=> \E j \in 1..Len(C[i]) : C[i][j] = v
<1>1. /\ next \in [Value -> Node] /\ C[i] \in Seq(Value)
      /\ Linked(next, head[i], C[i]) /\ Distinct(C[i])
  BY DEF Table
<1>2. Chain(i) = C[i]
  BY <1>1, FromIs DEF Chain
<1> QED BY <1>1, <1>2 DEF ToSet

LEMMA StoredIs ==
    ASSUME NEW C, Table(head, next, live, nbuckets, C)
    PROVE  Stored = live /\ DOMAIN head = 0..(nbuckets - 1)
<1>1. DOMAIN head = 0..(nbuckets - 1)
  BY DEF Table
<1>2. \A v : v \in Stored <=> \E i \in 0..(nbuckets - 1) : v \in ToSet(Chain(i))
  BY <1>1 DEF Stored
<1>3. \A v : v \in Stored <=> \E i \in 0..(nbuckets - 1) : \E j \in 1..Len(C[i]) : C[i][j] = v
  BY <1>2, ChainIs
<1>4. \A v : v \in live <=> \E i \in 0..(nbuckets - 1) : \E j \in 1..Len(C[i]) : C[i][j] = v
  BY DEF Table
<1> QED BY <1>1, <1>3, <1>4

----------------------------------------------------------------------------
(* Sizes.                                                                  *)

Doubling(f, s) ==
    /\ f \in [0..s -> Nat] /\ f[0] = 1
    /\ \A e \in 1..s : f[e] = 2 * f[e - 1]

LEMMA PowersAre ==
    ASSUME NEW s \in Nat
    PROVE  \E f : Doubling(f, s) /\ Powers(s) = {f[e] : e \in 0..s}
<1> DEFINE step == [e \in 1..s |-> [x \in Nat |-> 2 * x]]
           Eq(g) == g = [e \in 0..s |-> IF e = 0 THEN 1 ELSE 2 * g[e - 1]]
           power == CHOOSE g : Eq(g)
<1>1. Steps(step, s, Nat) /\ \A e \in 1..s, x \in Nat : step[e][x] = 2 * x
  <2>1. \A x \in Nat : 2 * x \in Nat
    OBVIOUS
  <2> QED BY <2>1 DEF Steps
<1>2. PICK f : Recursion(f, s, Nat, 1, step)
  <2> HIDE DEF step
  <2>1. 1 \in Nat
    OBVIOUS
  <2> QED BY <1>1, <2>1, RecursionExists
<1>3. Doubling(f, s)
  <2>1. \A e \in 1..s : e - 1 \in 0..s
    OBVIOUS
  <2> HIDE DEF step
  <2> QED BY <1>1, <1>2, <2>1 DEF Recursion, Doubling
<1>4. Eq(f)
  <2>1. ASSUME NEW e \in 0..s PROVE f[e] = IF e = 0 THEN 1 ELSE 2 * f[e - 1]
    BY <1>3 DEF Doubling
  <2> QED BY <1>3, <2>1 DEF Doubling
<1>5. Eq(power)
  <2> HIDE DEF Eq
  <2> QED BY <1>4
<1>6. Powers(s) = {power[e] : e \in 0..s}
  BY DEF Powers
<1> HIDE DEF power
<1>7. \A e \in 0..s : power[e] = IF e = 0 THEN 1 ELSE 2 * power[e - 1]
  BY <1>5
<1> DEFINE Q == {e \in 0..s : power[e] = f[e]}
<1>8. 0 \in Q
  BY <1>3, <1>7 DEF Doubling
<1>9. ASSUME NEW e \in 1..s, e - 1 \in Q PROVE e \in Q
  <2>1. e \in 0..s /\ e # 0
    OBVIOUS
  <2>2. power[e] = 2 * power[e - 1] /\ f[e] = 2 * f[e - 1]
    BY <1>3, <1>7, <2>1 DEF Doubling
  <2> QED BY <1>9, <2>1, <2>2
<1>10. \A e \in 0..s : power[e] = f[e]
  <2> HIDE DEF Q
  <2>1. 0..s \subseteq Q
    BY <1>8, <1>9, UpTo
  <2> QED BY <2>1 DEF Q
<1>11. {power[e] : e \in 0..s} = {f[e] : e \in 0..s}
  BY <1>10
<1> QED BY <1>3, <1>6, <1>11

LEMMA DoublingGrows ==
    ASSUME NEW s \in Nat, NEW f, Doubling(f, s), NEW e \in 0..s PROVE f[e] >= e + 1
<1> DEFINE Q == {k \in 0..s : f[k] >= k + 1}
<1>1. 0 \in Q
  BY DEF Doubling
<1>2. ASSUME NEW k \in 1..s, k - 1 \in Q PROVE k \in Q
  <2>1. k \in 0..s /\ f[k - 1] \in Nat /\ f[k] = 2 * f[k - 1] /\ f[k - 1] >= k
    BY <1>2 DEF Doubling
  <2> QED BY <2>1
<1>3. 0..s \subseteq Q
  <2> HIDE DEF Q
  <2> QED BY <1>1, <1>2, UpTo
<1> QED BY <1>3

LEMMA DoublingSame ==
    ASSUME NEW s \in Nat, NEW f, Doubling(f, s), NEW t \in Nat, NEW g, Doubling(g, t),
           NEW e \in 0..s, e <= t
    PROVE  f[e] = g[e]
<1> DEFINE Q == {k \in 0..e : f[k] = g[k]}
<1>1. 0 \in Q
  BY DEF Doubling
<1>2. ASSUME NEW k \in 1..e, k - 1 \in Q PROVE k \in Q
  <2>1. k \in 0..e /\ k \in 1..s /\ k \in 1..t
    OBVIOUS
  <2>2. f[k] = 2 * f[k - 1] /\ g[k] = 2 * g[k - 1]
    BY <2>1 DEF Doubling
  <2> QED BY <1>2, <2>1, <2>2
<1>3. 0..e \subseteq Q
  <2> HIDE DEF Q
  <2>1. e \in Nat
    OBVIOUS
  <2> QED BY <1>1, <1>2, <2>1, UpTo
<1> QED BY <1>3

\* A power of 2 is one of those up to itself, and has its half before it.
LEMMA PowerIs ==
    ASSUME NEW s \in Nat, NEW p \in Powers(s)
    PROVE  /\ p \in Nat /\ p >= 1 /\ p \in Powers(p)
           /\ p = 1 \/ \E q \in Powers(s) : q \in Nat /\ p = 2 * q
<1>1. PICK f : Doubling(f, s) /\ Powers(s) = {f[e] : e \in 0..s}
  BY PowersAre
<1>2. PICK e \in 0..s : p = f[e]
  BY <1>1
<1>3. p \in Nat /\ p >= e + 1
  BY <1>1, <1>2, DoublingGrows DEF Doubling
<1>4. PICK g : Doubling(g, p) /\ Powers(p) = {g[k] : k \in 0..p}
  BY <1>3, PowersAre
<1>5. e \in 0..p /\ e <= p
  BY <1>3
<1>6. f[e] = g[e]
  BY <1>1, <1>3, <1>4, <1>5, DoublingSame
<1>7. ASSUME p # 1 PROVE \E q \in Powers(s) : q \in Nat /\ p = 2 * q
  <2>1. e \in 1..s /\ e - 1 \in 0..s
    BY <1>1, <1>2, <1>7 DEF Doubling
  <2>2. p = 2 * f[e - 1] /\ f[e - 1] \in Nat /\ f[e - 1] \in Powers(s)
    BY <1>1, <1>2, <2>1 DEF Doubling
  <2> QED BY <2>2
<1> QED BY <1>2, <1>3, <1>4, <1>5, <1>6, <1>7

\* next_power2() does what its name says.
LEMMA NextPower2Is ==
    ASSUME NEW s \in Nat, s # 0, NEW p, p = NextPower2(s)
    PROVE  p \in Nat /\ s <= p /\ p < 2 * s /\ p \in Powers(p)
<1> DEFINE T == {x \in Powers(s) : s <= x}
<1>1. PICK f : Doubling(f, s) /\ Powers(s) = {f[e] : e \in 0..s}
  BY PowersAre
<1>2. T \subseteq Int /\ IsFiniteSet(T) /\ T # {}
  <2>1. IsFiniteSet(Powers(s))
    <3>1. IsFiniteSet(0..s)
      BY FS_Interval
    <3>2. f \in Surjection(0..s, Powers(s))
      BY <1>1 DEF Doubling, Surjection
    <3> QED BY <3>1, <3>2, FS_Surjection
  <2>2. IsFiniteSet(T)
    BY <2>1, FS_Subset
  <2>3. f[s] \in Powers(s) /\ f[s] \in Nat /\ f[s] >= s + 1
    <3>1. s \in 0..s
      OBVIOUS
    <3> QED BY <1>1, <3>1, DoublingGrows DEF Doubling
  <2>4. f[s] \in T
    BY <2>3
  <2>5. T \subseteq Int
    BY PowerIs
  <2> QED BY <2>2, <2>4, <2>5
<1>3. p = Min(T)
  BY DEF NextPower2
<1> HIDE DEF T
<1>4. p \in T /\ \A x \in T : p <= x
  BY <1>2, <1>3, MinIs
<1>5. p \in Powers(s) /\ s <= p /\ \A x \in Powers(s) : s <= x => p <= x
  BY <1>4 DEF T
<1>6. p \in Nat /\ p >= 1 /\ p \in Powers(p)
  BY <1>5, PowerIs
<1>7. p < 2 * s
  <2>1. CASE p = 1
    BY <2>1
  <2>2. CASE p # 1
    <3>1. PICK q \in Powers(s) : q \in Nat /\ p = 2 * q
      BY <1>5, <2>2, PowerIs
    <3>2. ~(s <= q)
      BY <1>5, <1>6, <3>1
    <3> QED BY <3>1, <3>2
  <2> QED BY <2>1, <2>2
<1> QED BY <1>5, <1>6, <1>7

\* The size computed for some entries suits them, and is a new one when the
\* old one does not.
LEMMA NewSizeIs ==
    ASSUME NEW m \in Nat, NEW p, p = NewSize(m)
    PROVE  /\ p \in Nat /\ (m # 0 => p > 0) /\ p \in {0} \cup Powers(p) /\ ~TooFull(m, p)
           /\ \A b \in Nat : TooFull(m, b) \/ TooEmpty(m, b) => p # b
<1> DEFINE q == (40 * m) \div 17
<1>1. q \in Nat /\ 17 * q <= 40 * m /\ 40 * m <= 17 * q + 16
  BY SMTT(30)
<1>2. p = NextPower2(q)
  BY DEF NewSize
<1> HIDE DEF q
<1>3. CASE m = 0
  <2>1. q = 0
    BY <1>1, <1>3
  <2>2. p = 0
    BY <1>2, <2>1 DEF NextPower2
  <2> QED BY <1>3, <2>2 DEF TooFull, TooEmpty
<1>4. CASE m # 0
  <2>1. q # 0 /\ 4 * m <= 3 * q /\ 2 * q <= 10 * m
    BY <1>1, <1>4
  <2>2. p \in Nat /\ q <= p /\ p < 2 * q /\ p \in Powers(p)
    BY <1>1, <1>2, <2>1, NextPower2Is
  <2> QED BY <1>1, <2>1, <2>2 DEF TooFull, TooEmpty
<1> QED BY <1>3, <1>4

----------------------------------------------------------------------------
(* The invariant: the lists of the table, and where a walk is in them.     *)

\* The walk w is at the element j of a list, and has shown all before it.
Position(w, size, C, j) ==
    /\ w.i \in 0..(size - 1) /\ j \in 1..(Len(C[w.i]) + 1)
    /\ w.entry = At(C[w.i], j) /\ w.prev = Before(C[w.i], j)
    /\ \A x \in 0..(size - 1) : \A m \in 1..Len(C[x]) :
         C[x][m] \in w.seen <=> x < w.i \/ (x = w.i /\ m < j)

WalkOK == walk \in [ph : Phase, i : Nat, entry : Node, prev : Node, seen : SUBSET Value]

Shape(C) ==
    /\ Table(head, next, live, nbuckets, C)
    /\ Walking => \E j : Position(walk, nbuckets, C, j)

Counted == nentries = Cardinality(live)

GoneEmpty == walk.ph = "gone" => live = {}

HInv == TypeOK /\ WalkOK /\ Counted /\ SizeRight /\ GoneEmpty /\ \E C : Shape(C)

LEMMA Counting ==
    /\ \A S \in SUBSET Value : Cardinality(S) \in Nat /\ (Cardinality(S) = 0 <=> S = {})
    /\ \A S \in SUBSET Value, v \in Value :
         /\ v \notin S => Cardinality(S \cup {v}) = Cardinality(S) + 1
         /\ v \in S => Cardinality(S \ {v}) = Cardinality(S) - 1
<1>1. \A S \in SUBSET Value : IsFiniteSet(S)
  BY Constants, FS_Subset
<1>2. \A S \in SUBSET Value : Cardinality(S) \in Nat /\ (Cardinality(S) = 0 <=> S = {})
  BY <1>1, FS_CardinalityType, FS_EmptySet
<1>3. \A S \in SUBSET Value, v \in Value :
        v \notin S => Cardinality(S \cup {v}) = Cardinality(S) + 1
  BY <1>1, FS_AddElement
<1>4. \A S \in SUBSET Value, v \in Value : v \in S => Cardinality(S \ {v}) = Cardinality(S) - 1
  BY <1>1, FS_RemoveElement
<1> QED BY <1>2, <1>3, <1>4

\* What a step has to show.
LEMMA Holds ==
    ASSUME NEW C, Shape(C)', WalkOK', Counted', SizeRight', GoneEmpty',
           answer' \in (Key \cup {NULL}) \X (Value \cup {NULL})
    PROVE  HInv'
<1>1. Table(head', next', live', nbuckets', C)
  BY DEF Shape
<1>2. /\ nbuckets' \in Nat /\ live' \subseteq Value
      /\ head' \in [0..(nbuckets' - 1) -> Value \cup {NULL}]
      /\ next' \in [Value -> Value \cup {NULL}]
  BY <1>1 DEF Table, Node
<1>3. nentries' \in Nat
  BY <1>2, Counting DEF Counted
<1>4. walk'.ph \in Phase /\ walk'.seen \subseteq Value
  BY DEF WalkOK
<1>5. TypeOK'
  BY <1>2, <1>3, <1>4 DEF TypeOK
<1> QED BY <1>5 DEF HInv

LEMMA TableInit == Init => HInv
<1> SUFFICES ASSUME Init PROVE HInv
  OBVIOUS
<1>1. /\ nbuckets \in Nat /\ nbuckets > 0 /\ live = {} /\ nentries = 0
      /\ head = [i \in 0..(nbuckets - 1) |-> NULL] /\ next = [v \in Value |-> NULL]
      /\ answer = <<NULL, NULL>> /\ walk = NoWalk("idle")
      /\ nbuckets = HASHTABLE_MIN_SIZE
  BY Constants DEF Init, Empty, NoAnswer
<1>2. TypeOK
  BY <1>1 DEF TypeOK, NoWalk, Phase
<1>3. WalkOK /\ ~Walking /\ GoneEmpty
  BY <1>1 DEF WalkOK, NoWalk, Phase, Node, Walking, GoneEmpty
<1>4. Counted
  BY <1>1, FS_EmptySet DEF Counted
<1>5. SizeRight
  BY <1>1, HashTableAssumption DEF SizeRight, TooFull, HashTableAssumption
<1>6. /\ head \in [0..(nbuckets - 1) -> Node] /\ next \in [Value -> Node]
      /\ \A i \in 0..(nbuckets - 1) : head[i] = NULL
  BY <1>1 DEF Node
<1>7. \E C : Table(head, next, {}, nbuckets, C)
  BY <1>1, <1>6, EmptyTable
<1> QED BY <1>1, <1>2, <1>3, <1>4, <1>5, <1>7 DEF HInv, Shape

----------------------------------------------------------------------------
(* get_entry(), and the entry before one.                                  *)

\* r is the first value of the list s with the key k.
FirstUnder(s, k, r) ==
    \/ r = NULL /\ \A m \in 1..Len(s) : KeyOf[s[m]] # k
    \/ \E j \in 1..Len(s) :
         /\ r = s[j] /\ KeyOf[s[j]] = k
         /\ \A m \in 1..Len(s) : m < j => KeyOf[s[m]] # k

Bucket(k, size) == Hash[k] % size

LEMMA BucketIs ==
    ASSUME NEW k \in Key, NEW size \in Nat, size # 0 PROVE Bucket(k, size) \in 0..(size - 1)
<1>1. Hash[k] \in Nat
  BY Constants
<1>2. \A n \in Nat : n % size \in 0..(size - 1)
  BY SMTT(30)
<1> QED BY <1>1, <1>2 DEF Bucket

LEMMA FindFirst ==
    ASSUME NEW C, Table(head, next, live, nbuckets, C), NEW k \in Key, nbuckets # 0
    PROVE  FirstUnder(C[Bucket(k, nbuckets)], k, Find(k))
<1> DEFINE i == Bucket(k, nbuckets)
           s == C[i]
           found == {n \in 1..Len(s) : KeyOf[s[n]] = k}
<1>1. nbuckets \in Nat /\ i \in 0..(nbuckets - 1)
  BY BucketIs DEF Table
<1>2. Chain(i) = s /\ s \in Seq(Value) /\ Len(s) \in Nat
  BY <1>1, ChainIs
<1>3. Find(k) = IF found = {} THEN NULL ELSE s[Min(found)]
  <2>1. DOMAIN s = 1..Len(s)
    BY <1>2
  <2>2. \A v : Matches(v, k) <=> KeyOf[v] = k
    BY DEF Matches
  <2>3. {n \in DOMAIN s : Matches(s[n], k)} = found
    BY <2>1, <2>2
  <2>4. Chain(Hash[k] % nbuckets) = s
    BY <1>2 DEF Bucket
  <2> QED BY <2>3, <2>4 DEF Find
<1> HIDE DEF s
<1>4. CASE found = {}
  BY <1>3, <1>4 DEF FirstUnder, s
<1>5. CASE found # {}
  <2>1. IsFiniteSet(1..Len(s)) /\ found \subseteq 1..Len(s)
    BY <1>2, FS_Interval
  <2>2. IsFiniteSet(found) /\ found \subseteq Int
    BY <1>2, <2>1, FS_Subset
  <2> DEFINE j == Min(found)
  <2>3. j \in found /\ \A m \in found : j <= m
    <3> HIDE DEF found
    <3> QED BY <1>5, <2>2, MinIs
  <2> HIDE DEF j
  <2>4. j \in 1..Len(s) /\ KeyOf[s[j]] = k /\ \A m \in 1..Len(s) : m < j => KeyOf[s[m]] # k
    BY <1>2, <2>3
  <2>5. Find(k) = s[j]
    BY <1>3, <1>5 DEF j
  <2> QED BY <2>4, <2>5 DEF FirstUnder, s
<1> QED BY <1>4, <1>5

LEMMA FirstUnique ==
    ASSUME NEW s \in Seq(Value), NEW k, NEW r, NEW q, FirstUnder(s, k, r), FirstUnder(s, k, q)
    PROVE  r = q
<1>1. CASE \A m \in 1..Len(s) : KeyOf[s[m]] # k
  BY <1>1 DEF FirstUnder
<1>2. CASE ~\A m \in 1..Len(s) : KeyOf[s[m]] # k
  <2>1. PICK j \in 1..Len(s) : /\ r = s[j] /\ KeyOf[s[j]] = k
                               /\ \A m \in 1..Len(s) : m < j => KeyOf[s[m]] # k
    BY <1>2 DEF FirstUnder
  <2>2. PICK i \in 1..Len(s) : /\ q = s[i] /\ KeyOf[s[i]] = k
                               /\ \A m \in 1..Len(s) : m < i => KeyOf[s[m]] # k
    BY <1>2 DEF FirstUnder
  <2>3. i \in Int /\ j \in Int /\ ~(i < j) /\ ~(j < i)
    BY <2>1, <2>2
  <2> QED BY <2>1, <2>2, <2>3
<1> QED BY <1>1, <1>2

\* What a lookup finds is stored, under the key; nothing is found only if there
\* is nothing.
LEMMA FindStored ==
    ASSUME NEW C, Table(head, next, live, nbuckets, C), NEW k \in Key, nbuckets # 0
    PROVE  /\ Find(k) = NULL => \A v \in live : KeyOf[v] # k
           /\ Find(k) # NULL => Find(k) \in live /\ KeyOf[Find(k)] = k
<1> DEFINE i == Bucket(k, nbuckets)
           s == C[i]
<1>1. /\ nbuckets \in Nat /\ i \in 0..(nbuckets - 1) /\ s \in Seq(Value)
      /\ \A j \in 1..Len(s) : s[j] \in live /\ s[j] \in Value
  BY BucketIs DEF Table
<1>2. FirstUnder(s, k, Find(k))
  BY FindFirst
<1>3. ASSUME NEW v \in live, KeyOf[v] = k PROVE \E j \in 1..Len(s) : s[j] = v
  <2>1. PICK x \in 0..(nbuckets - 1) : \E j \in 1..Len(C[x]) : C[x][j] = v
    BY DEF Table
  <2>2. x = Index(v, nbuckets)
    BY <2>1 DEF Table
  <2>3. x = i
    BY <1>3, <2>2 DEF Index, Bucket
  <2> QED BY <2>1, <2>3
<1> HIDE DEF s
<1> QED BY <1>1, <1>2, <1>3, Constants DEF FirstUnder

\* The element of a list that a stored value is.
LEMMA Placed ==
    ASSUME NEW C, Table(head, next, live, nbuckets, C), NEW v \in live
    PROVE  /\ Index(v, nbuckets) \in 0..(nbuckets - 1)
           /\ \E j \in 1..Len(C[Index(v, nbuckets)]) :
                C[Index(v, nbuckets)][j] = v /\ Predecessor(v) = Before(C[Index(v, nbuckets)], j)
<1>1. PICK i \in 0..(nbuckets - 1) : \E j \in 1..Len(C[i]) : C[i][j] = v
  BY DEF Table
<1>2. PICK j \in 1..Len(C[i]) : C[i][j] = v
  BY <1>1
<1>3. i = Index(v, nbuckets)
  BY <1>2 DEF Table
<1> DEFINE s == C[i]
           before == {u \in live : next[u] = v}
<1>4. /\ s \in Seq(Value) /\ Len(s) \in Nat /\ v \in Value
      /\ j \in 1..Len(s) /\ s[j] = v /\ Distinct(s)
  BY <1>2 DEF Table
<1>5. \A x \in 0..(nbuckets - 1) : \A m \in 1..Len(C[x]) :
        /\ next[C[x][m]] = Behind(C[x], m) /\ C[x] \in Seq(Value)
        /\ C[x][m] \in live /\ Index(C[x][m], nbuckets) = x
  BY DEF Table, Linked, Behind
<1>6. ASSUME NEW u \in before PROVE j # 1 /\ u = s[j - 1]
  <2>1. u \in live /\ next[u] = v
    OBVIOUS
  <2>2. PICK x \in 0..(nbuckets - 1) : \E m \in 1..Len(C[x]) : C[x][m] = u
    BY <2>1 DEF Table
  <2>3. PICK m \in 1..Len(C[x]) : C[x][m] = u
    BY <2>2
  <2>4. C[x] \in Seq(Value) /\ Behind(C[x], m) = v
    BY <1>5, <2>1, <2>3
  <2>5. m < Len(C[x]) /\ m + 1 \in 1..Len(C[x]) /\ C[x][m + 1] = v /\ m \in Int /\ m >= 1
    BY <1>4, <2>4, Constants DEF Behind
  <2>6. x = i
    BY <1>3, <1>5, <2>5
  <2>7. m + 1 = j
    BY <1>4, <2>5, <2>6 DEF Distinct
  <2>8. j # 1 /\ m = j - 1
    BY <2>5, <2>7
  <2> QED BY <2>3, <2>6, <2>8
<1>7. ASSUME j # 1 PROVE s[j - 1] \in before
  <2>1. j - 1 \in 1..Len(s) /\ j - 1 < Len(s) /\ (j - 1) + 1 = j
    BY <1>4, <1>7
  <2>2. next[s[j - 1]] = Behind(s, j - 1) /\ s[j - 1] \in live
    BY <1>5, <2>1
  <2> QED BY <1>4, <2>1, <2>2 DEF Behind
<1>8. Predecessor(v) = IF before = {} THEN NULL ELSE CHOOSE u \in before : TRUE
  BY DEF Predecessor
<1>9. Predecessor(v) = Before(s, j)
  <2> HIDE DEF before, s
  <2>1. CASE j = 1
    BY <1>6, <1>8, <2>1 DEF Before
  <2>2. CASE j # 1
    <3>1. before # {}
      BY <1>7, <2>2
    <3>2. (CHOOSE u \in before : TRUE) \in before
      BY <3>1
    <3> QED BY <1>6, <1>8, <2>2, <3>1, <3>2 DEF Before
  <2> QED BY <2>1, <2>2
<1> QED BY <1>3, <1>4, <1>9

----------------------------------------------------------------------------
(* The steps.                                                              *)

\* The pointers after hashtable_min_set() has put v into a table of its own
\* for S, and after hashtable_min_remove() or the sweep has taken it out.
LEMMA Prepended ==
    ASSUME NEW t, t = [head |-> t.head, next |-> t.next], NEW S, NEW size, NEW C,
           Table(t.head, t.next, S, size, C), NEW v \in Value, v \notin S, size > 0,
           NEW u, u = Prepend(t, Index(v, size), v)
    PROVE  Table(u.head, u.next, S \cup {v}, size, Added(C, Index(v, size), v))
<1> DEFINE i == Index(v, size)
<1>1. u = [head |-> [t.head EXCEPT ![i] = v], next |-> [t.next EXCEPT ![v] = t.head[i]]]
  <2> HIDE DEF i
  <2>1. u = Prepend(t, i, v)
    BY DEF i
  <2> QED BY <2>1, PrependIs
<1> HIDE DEF i
<1>2. /\ u.head = [t.head EXCEPT ![i] = v]
      /\ u.next = [t.next EXCEPT ![v] = t.head[i]]
  BY <1>1
<1>3. Table([t.head EXCEPT ![i] = v], [t.next EXCEPT ![v] = t.head[i]], S \cup {v}, size,
            [C EXCEPT ![i] = <<v>> \o C[i]])
  BY PrependTable DEF i
<1> QED BY <1>2, <1>3 DEF Added, i

LEMMA IdleStep ==
    ASSUME HInv, walk'.ph \notin {"sweep", "each"}, WalkOK',
           NEW D, Table(head', next', live', nbuckets', D), Counted', SizeRight', GoneEmpty',
           answer' \in (Key \cup {NULL}) \X (Value \cup {NULL})
    PROVE  HInv'
<1>1. Shape(D)'
  BY DEF Shape, Walking
<1> QED BY <1>1, Holds

\* The table after v was stored has the lists C, with v in front of one of
\* them; they are those from before unless the table has grown.
Stores(C, v) ==
    /\ Table(head', next', live', nbuckets', Added(C, Index(v, nbuckets'), v))
    /\ C \in [0..(nbuckets' - 1) -> Seq(Value)]
    /\ nbuckets' = nbuckets => Table(head, next, live, nbuckets, C)

LEMMA SetTable ==
    ASSUME HInv, walk.ph # "gone", NEW v \in Value, v \notin live,
           SetGrown(v) \/ SetInPlace(v)
    PROVE  /\ nentries' = nentries + 1 /\ live' = live \cup {v}
           /\ nbuckets' \in Nat /\ nbuckets' > 0 /\ nbuckets' \in {0} \cup Powers(nbuckets')
           /\ ~TooFull(nentries', nbuckets')
           /\ \E C : Stores(C, v)
<1>1. PICK C : Table(head, next, live, nbuckets, C)
  BY DEF HInv, Shape
<1>2. nbuckets \in Nat /\ nentries \in Nat
  BY DEF HInv, TypeOK
<1>3. Links = [head |-> Links.head, next |-> Links.next] /\ Links.head = head /\ Links.next = next
  BY DEF Links
<1>4. CASE SetInPlace(v)
  <2> DEFINE t == Prepend(Links, Index(v, nbuckets), v)
  <2>1. /\ ~TooFull(nentries + 1, nbuckets)
        /\ head' = t.head /\ next' = t.next /\ nbuckets' = nbuckets /\ nentries' = nentries + 1
        /\ live' = live \cup {v}
    BY <1>4 DEF SetInPlace, Become
  <2>2. nbuckets > 0
    BY <1>2, <2>1 DEF TooFull
  <2>3. Table(t.head, t.next, live \cup {v}, nbuckets, Added(C, Index(v, nbuckets), v))
    <3>1. Table(Links.head, Links.next, live, nbuckets, C)
      BY <1>1, <1>3
    <3> HIDE DEF t
    <3> QED BY <1>3, <2>2, <3>1, Prepended DEF t
  <2> HIDE DEF t
  <2>4. C \in [0..(nbuckets - 1) -> Seq(Value)]
    BY <1>1 DEF Table
  <2>5. Stores(C, v)
    BY <1>1, <2>1, <2>3, <2>4 DEF Stores
  <2>6. nbuckets \in {0} \cup Powers(nbuckets)
    BY DEF HInv, SizeRight
  <2> QED BY <1>2, <2>1, <2>2, <2>5, <2>6
<1>5. CASE SetGrown(v)
  <2> DEFINE size == NewSize(nentries + 1)
             r == Rehashed(Links, size)
             t == Prepend(r, Index(v, size), v)
  <2>1. /\ head' = t.head /\ next' = t.next /\ nbuckets' = size /\ nentries' = nentries + 1
        /\ live' = live \cup {v} /\ TooFull(nentries + 1, nbuckets)
    BY <1>5 DEF SetGrown, Become, Resized
  <2>2. /\ size \in Nat /\ size > 0 /\ size \in {0} \cup Powers(size)
        /\ ~TooFull(nentries + 1, size) /\ size # nbuckets
    <3>1. nentries + 1 \in Nat /\ nentries + 1 # 0
      BY <1>2
    <3> HIDE DEF t, r
    <3> QED BY <1>2, <2>1, <3>1, NewSizeIs
  <2> HIDE DEF size
  <2>3. r = [head |-> r.head, next |-> r.next] /\ \E D : Table(r.head, r.next, live, size, D)
    <3>1. r = Rehashed([head |-> head, next |-> next], size)
      BY DEF Links
    <3> HIDE DEF r
    <3> QED BY <1>1, <2>2, <3>1, RehashedTable
  <2>4. PICK D : Table(r.head, r.next, live, size, D)
    BY <2>3
  <2>5. Table(t.head, t.next, live \cup {v}, size, Added(D, Index(v, size), v))
    <3> HIDE DEF t, r
    <3> QED BY <2>2, <2>3, <2>4, Prepended DEF t
  <2> HIDE DEF t, r
  <2>6. D \in [0..(size - 1) -> Seq(Value)]
    BY <2>4 DEF Table
  <2>7. Stores(D, v)
    BY <2>1, <2>2, <2>5, <2>6 DEF Stores
  <2> QED BY <2>1, <2>2, <2>7
<1> QED BY <1>4, <1>5

LEMMA SetStep == ASSUME HInv, NEW v \in Value, Set(v) PROVE HInv'
<1>1. /\ walk.ph = "idle" /\ v \notin live /\ walk' = walk
      /\ \/ (SetGrown(v) \/ SetInPlace(v)) /\ answer' = <<KeyOf[v], v>>
         \/ answer' = <<KeyOf[v], NULL>> /\ UNCHANGED <<live, head, next, nbuckets, nentries>>
  BY DEF Set, Idle
<1>2. live \subseteq Value /\ nentries = Cardinality(live) /\ SizeRight
  BY DEF HInv, TypeOK, Counted
<1>3. WalkOK' /\ walk'.ph = "idle" /\ GoneEmpty'
  BY <1>1 DEF HInv, WalkOK, GoneEmpty
<1>4. answer' \in (Key \cup {NULL}) \X (Value \cup {NULL})
  BY <1>1, Constants
<1>5. CASE UNCHANGED <<live, head, next, nbuckets, nentries>>
  <2>1. PICK C : Table(head, next, live, nbuckets, C)
    BY DEF HInv, Shape
  <2>2. Table(head', next', live', nbuckets', C)
    BY <1>5, <2>1
  <2>3. Counted' /\ SizeRight'
    BY <1>1, <1>2, <1>5 DEF Counted, SizeRight
  <2> QED BY <1>3, <1>4, <2>2, <2>3, IdleStep
<1>6. CASE SetGrown(v) \/ SetInPlace(v)
  <2>1. /\ nentries' = nentries + 1 /\ live' = live \cup {v}
        /\ nbuckets' \in Nat /\ nbuckets' > 0 /\ nbuckets' \in {0} \cup Powers(nbuckets')
        /\ ~TooFull(nentries', nbuckets')
        /\ \E C : Stores(C, v)
    BY <1>1, <1>6, SetTable
  <2>2. PICK D : Table(head', next', live', nbuckets', D)
    BY <2>1 DEF Stores
  <2>3. Counted'
    BY <1>1, <1>2, <2>1, Counting DEF Counted
  <2>4. SizeRight'
    BY <2>1 DEF SizeRight
  <2> QED BY <1>3, <1>4, <2>2, <2>3, <2>4, IdleStep
<1> QED BY <1>1, <1>5, <1>6

LEMMA GetStep == ASSUME HInv, NEW k \in Key, Get(k) PROVE HInv'
<1>1. /\ walk.ph = "idle" /\ nbuckets # 0 /\ answer' = <<k, Find(k)>>
      /\ UNCHANGED <<live, head, next, nbuckets, nentries, walk>>
  BY DEF Get, Idle
<1>2. PICK C : Table(head, next, live, nbuckets, C)
  BY DEF HInv, Shape
<1>3. live \subseteq Value /\ Find(k) \in Node
  <2>1. live \subseteq Value
    BY <1>2 DEF Table
  <2> QED BY <1>1, <1>2, <2>1, FindStored DEF Node
<1>4. answer' \in (Key \cup {NULL}) \X (Value \cup {NULL})
  BY <1>1, <1>3 DEF Node
<1>5. walk'.ph = "idle" /\ WalkOK' /\ Counted' /\ SizeRight' /\ GoneEmpty'
  BY <1>1 DEF HInv, WalkOK, Counted, SizeRight, GoneEmpty
<1>6. Table(head', next', live', nbuckets', C)
  BY <1>1, <1>2
<1> QED BY <1>4, <1>5, <1>6, IdleStep

\* The lists with the element v taken out of one of them are those of the
\* table after the step.
TakesOut(v) ==
    \E C, i, j : /\ Table(head, next, live, nbuckets, C) /\ IsAt(C, nbuckets, i, j, v)
                /\ Table(head', next', live', nbuckets', Removed(C, i, j))

LEMMA RemoveTable ==
    ASSUME HInv, walk.ph # "gone", NEW v \in live, nbuckets # 0, Unlinked(v)
    PROVE  /\ nentries' = nentries - 1 /\ live' = live \ {v} /\ Counted'
           /\ nbuckets' \in {0} \cup Powers(nbuckets') /\ (nbuckets' = 0 => live' = {})
           /\ ~TooFull(nentries', nbuckets')
           /\ \E D : Table(head', next', live', nbuckets', D)
           /\ nbuckets' = nbuckets => TakesOut(v)
<1> DEFINE i == Index(v, nbuckets)
           t == Unlink(Links, i, Predecessor(v), v)
           size == NewSize(nentries - 1)
           r == Rehashed(t, size)
<1>1. PICK C : Table(head, next, live, nbuckets, C)
  BY DEF HInv, Shape
<1>2. /\ live \subseteq Value /\ nbuckets \in Nat /\ nentries \in Nat
      /\ nentries = Cardinality(live) /\ SizeRight
  BY DEF HInv, TypeOK, Counted
<1>3. \/ /\ TooEmpty(nentries - 1, nbuckets)
         /\ head' = r.head /\ next' = r.next /\ nbuckets' = size
         /\ nentries' = nentries - 1 /\ live' = live \ {v}
      \/ /\ head' = t.head /\ next' = t.next /\ nbuckets' = nbuckets
         /\ nentries' = nentries - 1 /\ live' = live \ {v}
  BY DEF Unlinked, Become, Resized
<1>4. v \in Value /\ nentries - 1 \in Nat /\ nentries - 1 = Cardinality(live \ {v})
  BY <1>2, Counting
<1>5. i \in 0..(nbuckets - 1)
      /\ \E j \in 1..Len(C[i]) : C[i][j] = v /\ Predecessor(v) = Before(C[i], j)
  BY <1>1, <1>4, Placed
<1>6. PICK j \in 1..Len(C[i]) : C[i][j] = v /\ Predecessor(v) = Before(C[i], j)
  BY <1>5
<1>7. IsAt(C, nbuckets, i, j, v)
  BY <1>5, <1>6 DEF IsAt
<1>8. Table(t.head, t.next, live \ {v}, nbuckets, Removed(C, i, j)) /\ IsLinks(t)
  <2>1. IsUnlinked(t, head, next, C, i, j, v)
    BY <1>6 DEF Links, IsUnlinked
  <2> HIDE DEF t, i, r, size
  <2> QED BY <1>1, <1>7, <2>1, UnlinkTable
<1>9. nentries' = nentries - 1 /\ live' = live \ {v} /\ Counted'
  BY <1>3, <1>4 DEF Counted
<1>10. CASE head' = t.head /\ next' = t.next /\ nbuckets' = nbuckets
  <2> HIDE DEF t, i
  <2>1. Table(head', next', live', nbuckets', Removed(C, i, j))
    BY <1>8, <1>9, <1>10
  <2>2. nbuckets' \in {0} \cup Powers(nbuckets') /\ nbuckets' # 0 /\ ~TooFull(nentries', nbuckets')
    BY <1>2, <1>4, <1>9, <1>10 DEF SizeRight, TooFull
  <2> QED BY <1>1, <1>7, <1>9, <2>1, <2>2 DEF TakesOut
<1>11. CASE /\ head' = r.head /\ next' = r.next /\ nbuckets' = size
            /\ TooEmpty(nentries - 1, nbuckets)
  <2>1. /\ size \in Nat /\ (size > 0 \/ live \ {v} = {}) /\ size \in {0} \cup Powers(size)
        /\ ~TooFull(nentries - 1, size) /\ size # nbuckets
    <3>1. nentries - 1 # 0 \/ live \ {v} = {}
      BY <1>2, <1>4, Counting
    <3> HIDE DEF r
    <3> QED BY <1>2, <1>4, <1>11, <3>1, NewSizeIs
  <2> HIDE DEF size, t
  <2>2. \E D : Table(r.head, r.next, live \ {v}, size, D)
    <3>1. r = Rehashed([head |-> t.head, next |-> t.next], size)
      BY <1>8 DEF IsLinks
    <3> HIDE DEF r
    <3> QED BY <1>8, <2>1, <3>1, RehashedTable
  <2> HIDE DEF r
  <2>3. \E D : Table(head', next', live', nbuckets', D)
    BY <1>9, <1>11, <2>2
  <2>4. nbuckets' = 0 => live' = {}
    BY <1>9, <1>11, <2>1
  <2> QED BY <1>9, <1>11, <2>1, <2>3, <2>4
<1> QED BY <1>3, <1>10, <1>11

LEMMA RemoveStep == ASSUME HInv, NEW k \in Key, RemoveKey(k) PROVE HInv'
<1> DEFINE v == Find(k)
<1>1. /\ walk.ph = "idle" /\ nbuckets # 0 /\ answer' = <<k, v>> /\ walk' = walk
      /\ IF v = NULL THEN UNCHANGED <<live, head, next, nbuckets, nentries>> ELSE Unlinked(v)
  BY DEF RemoveKey, Idle
<1>2. PICK C : Table(head, next, live, nbuckets, C)
  BY DEF HInv, Shape
<1>3. live \subseteq Value /\ nentries = Cardinality(live) /\ SizeRight
  BY DEF HInv, TypeOK, Counted
<1>4. v # NULL => v \in live
  BY <1>1, <1>2, FindStored
<1>5. WalkOK' /\ walk'.ph = "idle" /\ GoneEmpty'
  BY <1>1 DEF HInv, WalkOK, GoneEmpty
<1>6. answer' \in (Key \cup {NULL}) \X (Value \cup {NULL})
  <2> HIDE DEF v
  <2> QED BY <1>1, <1>3, <1>4
<1> HIDE DEF v
<1>7. CASE v = NULL
  <2>1. UNCHANGED <<live, head, next, nbuckets, nentries>>
    BY <1>1, <1>7
  <2>2. Table(head', next', live', nbuckets', C)
    BY <1>2, <2>1
  <2>3. Counted' /\ SizeRight'
    BY <1>1, <1>3, <2>1 DEF Counted, SizeRight
  <2> QED BY <1>5, <1>6, <2>2, <2>3, IdleStep
<1>8. CASE v # NULL
  <2>1. /\ Counted'
        /\ nbuckets' \in {0} \cup Powers(nbuckets') /\ (nbuckets' = 0 => live' = {})
        /\ ~TooFull(nentries', nbuckets')
        /\ \E D : Table(head', next', live', nbuckets', D)
    BY <1>1, <1>4, <1>8, RemoveTable
  <2>2. SizeRight'
    BY <2>1 DEF SizeRight
  <2> QED BY <1>5, <1>6, <2>1, <2>2, IdleStep
<1> QED BY <1>7, <1>8

\* No bucket that holds something is behind the last one that is freed.
LEMMA FreesAll == ASSUME HInv PROVE Freed = live
<1>1. PICK C : Table(head, next, live, nbuckets, C)
  BY DEF HInv, Shape
<1>2. /\ live \subseteq Value /\ nbuckets \in Nat /\ nentries = Cardinality(live)
      /\ IsFiniteSet(live)
  BY <1>1, Constants, FS_Subset DEF HInv, Counted, Table
<1> DEFINE before(i) == UNION {ToSet(Chain(j)) : j \in 0..(i - 1)}
           reached == {j \in 0..(nbuckets - 1) : Cardinality(before(j)) < nentries}
<1>3. Freed = UNION {ToSet(Chain(i)) : i \in reached}
  BY DEF Freed
<1>4. \A i \in 0..(nbuckets - 1) :
        \A v : v \in ToSet(Chain(i)) => v \in live /\ Index(v, nbuckets) = i
  <2>1. ASSUME NEW i \in 0..(nbuckets - 1), NEW v, v \in ToSet(Chain(i))
        PROVE  v \in live /\ Index(v, nbuckets) = i
    <3>1. PICK j \in 1..Len(C[i]) : C[i][j] = v
      BY <1>1, <2>1, ChainIs
    <3> QED BY <1>1, <3>1 DEF Table
  <2> QED BY <2>1
<1>5. ASSUME NEW v \in live PROVE v \in Freed
  <2>1. PICK i \in 0..(nbuckets - 1) : \E j \in 1..Len(C[i]) : C[i][j] = v
    BY <1>1 DEF Table
  <2>2. v \in ToSet(Chain(i))
    BY <1>1, <2>1, ChainIs
  <2>3. i \in reached
    <3>1. \A j \in 0..(i - 1) : j \in 0..(nbuckets - 1) /\ j # i
      BY <1>2
    <3>2. before(i) \subseteq live \ {v}
      <4>1. ASSUME NEW j \in 0..(i - 1), NEW w \in ToSet(Chain(j)) PROVE w \in live \ {v}
        BY <1>4, <2>2, <3>1
      <4> QED BY <4>1
    <3> DEFINE A == before(i)
               B == live \ {v}
    <3>3. IsFiniteSet(B) /\ Cardinality(B) = nentries - 1 /\ nentries \in Nat
      <4>1. v \in Value /\ live \in SUBSET Value
        BY <1>2
      <4> QED BY <1>2, <4>1, Counting, FS_RemoveElement
    <3>4. A \subseteq B
      BY <3>2
    <3> HIDE DEF A, B, before
    <3>5. Cardinality(A) <= Cardinality(B) /\ Cardinality(A) \in Nat
      BY <3>3, <3>4, FS_Subset, FS_CardinalityType
    <3>6. Cardinality(A) < nentries
      BY <3>3, <3>5
    <3> QED BY <3>6 DEF A
  <2> QED BY <1>3, <2>2, <2>3
<1>6. ASSUME NEW v \in Freed PROVE v \in live
  BY <1>3, <1>4
<1> QED BY <1>5, <1>6

LEMMA DestroyStep == ASSUME HInv, Destroy PROVE HInv'
<1>1. /\ live' = live \ Freed /\ nentries' = nentries - Cardinality(Freed)
      /\ head' = <<>> /\ next' = [v \in Value |-> NULL] /\ nbuckets' = 0
      /\ answer' = <<NULL, NULL>> /\ walk' = NoWalk("gone")
  BY DEF Destroy, NoAnswer
<1>2. live \subseteq Value /\ nentries = Cardinality(live)
  BY DEF HInv, TypeOK, Counted
<1>3. live' = {} /\ nentries' = 0
  <2>1. Cardinality(live) \in Nat
    BY <1>2, Counting
  <2> QED BY <1>1, <1>2, <2>1, FreesAll
<1>4. Counted'
  BY <1>3, FS_EmptySet DEF Counted
<1>5. /\ WalkOK' /\ SizeRight' /\ GoneEmpty' /\ walk'.ph \notin {"sweep", "each"}
      /\ answer' \in (Key \cup {NULL}) \X (Value \cup {NULL})
  BY <1>1, <1>3 DEF WalkOK, NoWalk, Phase, Node, SizeRight, GoneEmpty
<1>6. /\ head' \in [0..(0 - 1) -> Node] /\ next' \in [Value -> Node]
      /\ \A i \in 0..(0 - 1) : head'[i] = NULL
  BY <1>1 DEF Node
<1>7. \E D : Table(head', next', live', nbuckets', D)
  <2>1. \E D : Table(head', next', {}, 0, D)
    BY <1>6, EmptyTable
  <2> QED BY <1>1, <1>3, <2>1
<1> QED BY <1>4, <1>5, <1>7, IdleStep

LEMMA NewStep == ASSUME HInv, New PROVE HInv'
<1>1. /\ live' = {} /\ nentries' = 0 /\ nbuckets' = HASHTABLE_MIN_SIZE
      /\ head' = [i \in 0..(nbuckets' - 1) |-> NULL] /\ next' = [v \in Value |-> NULL]
      /\ answer' = <<NULL, NULL>> /\ walk' = NoWalk("idle")
      /\ nbuckets' \in Nat /\ nbuckets' > 0
  BY Constants DEF New, Become, Empty, NoAnswer
<1>2. Counted'
  BY <1>1, FS_EmptySet DEF Counted
<1>3. /\ WalkOK' /\ GoneEmpty' /\ walk'.ph \notin {"sweep", "each"}
      /\ answer' \in (Key \cup {NULL}) \X (Value \cup {NULL})
  BY <1>1 DEF WalkOK, NoWalk, Phase, Node, GoneEmpty
<1>4. SizeRight'
  BY <1>1, HashTableAssumption DEF SizeRight, TooFull, HashTableAssumption
<1>5. /\ head' \in [0..(nbuckets' - 1) -> Node] /\ next' \in [Value -> Node]
      /\ \A i \in 0..(nbuckets' - 1) : head'[i] = NULL
  BY <1>1 DEF Node
<1>6. \E D : Table(head', next', live', nbuckets', D)
  BY <1>1, <1>5, EmptyTable
<1> QED BY <1>2, <1>3, <1>4, <1>6, IdleStep

\* A walk that only looks.
LEMMA LookStep ==
    ASSUME HInv, UNCHANGED <<live, head, next, nbuckets, nentries, answer>>,
           NEW C, Table(head, next, live, nbuckets, C), WalkOK',
           walk'.ph # "gone", walk.ph # "gone",
           Walking' => \E j : Position(walk', nbuckets, C, j)
    PROVE  HInv'
<1>1. Shape(C)'
  BY DEF Shape
<1>2. Counted' /\ SizeRight' /\ GoneEmpty'
  BY DEF HInv, Counted, SizeRight, GoneEmpty
<1>3. answer' \in (Key \cup {NULL}) \X (Value \cup {NULL})
  BY DEF HInv, TypeOK
<1> QED BY <1>1, <1>2, <1>3, Holds

LEMMA BeginStep == ASSUME HInv, WalkBegin PROVE HInv'
<1>1. /\ walk.ph = "idle" /\ nbuckets # 0
      /\ UNCHANGED <<live, head, next, nbuckets, nentries, answer>>
  BY DEF WalkBegin, Idle
<1>2. PICK ph \in {"sweep", "each"} : walk' = [NoWalk(ph) EXCEPT !.entry = head[0]]
  BY DEF WalkBegin
<1>3. PICK C : Table(head, next, live, nbuckets, C)
  BY DEF HInv, Shape
<1>4. nbuckets \in Nat /\ 0 \in 0..(nbuckets - 1) /\ head[0] \in Node
      /\ Linked(next, head[0], C[0]) /\ C[0] \in Seq(Value)
  BY <1>1, <1>3 DEF Table
<1>5. walk' = [ph |-> ph, i |-> 0, entry |-> head[0], prev |-> NULL, seen |-> {}]
  BY <1>2 DEF NoWalk
<1>6. WalkOK' /\ walk'.ph # "gone"
  BY <1>4, <1>5 DEF WalkOK, Phase, Node
<1>7. Position(walk', nbuckets, C, 1)
  <2>1. 1 \in 1..(Len(C[0]) + 1) /\ Len(C[0]) \in Nat
    BY <1>4
  <2>2. head[0] = At(C[0], 1) /\ Before(C[0], 1) = NULL
    BY <1>4, <2>1 DEF Linked, At, Before
  <2>3. ASSUME NEW x \in 0..(nbuckets - 1), NEW m \in 1..Len(C[x])
        PROVE  ~(x < 0) /\ ~(m < 1)
    BY <1>4
  <2> QED BY <1>4, <1>5, <2>1, <2>2, <2>3 DEF Position
<1> QED BY <1>1, <1>3, <1>6, <1>7, LookStep

\* The entry of a walk that is not at the end of its list.
LEMMA AtEntry ==
    ASSUME NEW C, Table(head, next, live, nbuckets, C), NEW j, Position(walk, nbuckets, C, j),
           walk.entry # NULL
    PROVE  /\ IsAt(C, nbuckets, walk.i, j, walk.entry)
           /\ walk.entry \in live /\ walk.entry \in Value /\ Index(walk.entry, nbuckets) = walk.i
           /\ next[walk.entry] = Behind(C[walk.i], j)
           /\ j \in Int /\ 1 <= j /\ j <= Len(C[walk.i]) /\ Len(C[walk.i]) \in Nat
<1> DEFINE i == walk.i
           s == C[i]
<1>1. /\ i \in 0..(nbuckets - 1) /\ j \in 1..(Len(s) + 1) /\ walk.entry = At(s, j)
  BY DEF Position
<1>2. /\ s \in Seq(Value) /\ Linked(next, head[i], s) /\ Len(s) \in Nat
      /\ \A m \in 1..Len(s) : s[m] \in live /\ s[m] \in Value /\ Index(s[m], nbuckets) = i
  BY <1>1 DEF Table
<1>3. j \in 1..Len(s) /\ walk.entry = s[j]
  BY <1>1, <1>2 DEF At
<1>4. next[s[j]] = Behind(s, j)
  BY <1>2, <1>3 DEF Linked, Behind
<1> QED BY <1>1, <1>2, <1>3, <1>4 DEF IsAt

LEMMA OnStep == ASSUME HInv, WalkOn PROVE HInv'
<1> DEFINE i == walk.i
           v == walk.entry
<1>1. /\ walk.ph \in {"sweep", "each"} /\ v # NULL
      /\ UNCHANGED <<live, head, next, nbuckets, nentries, answer>>
      /\ walk' = [Step(v) EXCEPT !.prev = v]
  BY DEF WalkOn, Walking
<1>2. PICK C : Table(head, next, live, nbuckets, C) /\ \E j : Position(walk, nbuckets, C, j)
  BY <1>1 DEF HInv, Shape, Walking
<1>3. PICK j : Position(walk, nbuckets, C, j)
  BY <1>2
<1> DEFINE s == C[i]
<1>4. /\ i \in 0..(nbuckets - 1) /\ j \in 1..Len(s) /\ v = s[j] /\ v \in Value
      /\ Index(v, nbuckets) = i /\ next[v] = Behind(s, j)
      /\ j \in Int /\ 1 <= j /\ j <= Len(s) /\ Len(s) \in Nat
  BY <1>1, <1>2, <1>3, AtEntry DEF IsAt
<1>5. /\ walk \in [ph : Phase, i : Nat, entry : Node, prev : Node, seen : SUBSET Value]
      /\ next[v] \in Node /\ v \in Node
  BY <1>2, <1>4 DEF HInv, WalkOK, Table, Node
<1>6. walk' = [ph |-> walk.ph, i |-> i, entry |-> next[v], prev |-> v, seen |-> walk.seen \cup {v}]
  BY <1>1, <1>5 DEF Step
<1>7. WalkOK' /\ walk'.ph # "gone" /\ walk.ph # "gone"
  BY <1>1, <1>4, <1>5, <1>6 DEF WalkOK
<1>8. Position(walk', nbuckets, C, j + 1)
  <2>1. walk'.i = i /\ walk'.entry = next[v] /\ walk'.prev = v /\ walk'.seen = walk.seen \cup {v}
    BY <1>6
  <2>2. j + 1 \in 1..(Len(s) + 1) /\ j + 1 # 1 /\ (j + 1) - 1 = j
    BY <1>4
  <2>3. next[v] = At(s, j + 1) /\ v = Before(s, j + 1)
    BY <1>4, <2>2 DEF At, Before, Behind
  <2>4. ASSUME NEW x \in 0..(nbuckets - 1), NEW m \in 1..Len(C[x])
        PROVE  C[x][m] \in walk.seen \cup {v} <=> x < i \/ (x = i /\ m < j + 1)
    <3>1. C[x][m] \in walk.seen <=> x < i \/ (x = i /\ m < j)
      BY <1>3 DEF Position
    <3>2. C[x][m] = v <=> x = i /\ m = j
      BY <1>2, <1>4 DEF Table, Distinct
    <3>3. m \in Int
      BY <1>2 DEF Table
    <3> QED BY <1>4, <3>1, <3>2, <3>3
  <2> HIDE DEF i, s, v
  <2> QED BY <1>4, <2>1, <2>2, <2>3, <2>4 DEF Position, s
<1> QED BY <1>1, <1>2, <1>7, <1>8, LookStep

LEMMA BucketStep == ASSUME HInv, WalkBucket PROVE HInv'
<1> DEFINE i == walk.i
<1>1. /\ walk.ph \in {"sweep", "each"} /\ walk.entry = NULL
      /\ UNCHANGED <<live, head, next, nbuckets, nentries, answer>>
      /\ walk' = IF i + 1 < nbuckets
                 THEN [walk EXCEPT !.i = @ + 1, !.entry = head[i + 1], !.prev = NULL]
                 ELSE NoWalk("idle")
  BY DEF WalkBucket, Walking
<1>2. PICK C : Table(head, next, live, nbuckets, C) /\ \E j : Position(walk, nbuckets, C, j)
  BY <1>1 DEF HInv, Shape, Walking
<1>3. PICK j : Position(walk, nbuckets, C, j)
  BY <1>2
<1>4. /\ i \in 0..(nbuckets - 1) /\ nbuckets \in Nat
      /\ walk \in [ph : Phase, i : Nat, entry : Node, prev : Node, seen : SUBSET Value]
  BY <1>2, <1>3 DEF HInv, WalkOK, Position, Table
<1>5. j = Len(C[i]) + 1 /\ Len(C[i]) \in Nat
  <2>1. C[i] \in Seq(Value) /\ j \in 1..(Len(C[i]) + 1) /\ At(C[i], j) = NULL
    BY <1>1, <1>2, <1>3, <1>4 DEF Position, Table
  <2>2. ~(j <= Len(C[i]))
    BY <2>1, Constants DEF At
  <2> QED BY <2>1, <2>2
<1>6. CASE ~(i + 1 < nbuckets)
  <2>1. walk' = NoWalk("idle")
    BY <1>1, <1>6
  <2>2. WalkOK' /\ walk'.ph = "idle"
    BY <2>1 DEF WalkOK, NoWalk, Phase, Node
  <2> QED BY <1>1, <1>2, <2>2, LookStep DEF Walking
<1>7. CASE i + 1 < nbuckets
  <2> DEFINE s == C[i + 1]
  <2>1. /\ i + 1 \in 0..(nbuckets - 1) /\ i \in Nat /\ head[i + 1] \in Node
        /\ Linked(next, head[i + 1], s) /\ s \in Seq(Value) /\ Len(s) \in Nat
    <3>1. i + 1 \in 0..(nbuckets - 1) /\ i \in Nat
      BY <1>4, <1>7
    <3> QED BY <1>2, <3>1 DEF Table
  <2>2. walk' = [ph |-> walk.ph, i |-> i + 1, entry |-> head[i + 1], prev |-> NULL,
                 seen |-> walk.seen]
    BY <1>1, <1>4, <1>7
  <2>3. WalkOK' /\ walk'.ph # "gone" /\ walk.ph # "gone"
    BY <1>1, <1>4, <2>1, <2>2 DEF WalkOK, Node
  <2>4. head[i + 1] = At(s, 1) /\ Before(s, 1) = NULL /\ 1 \in 1..(Len(s) + 1)
    BY <2>1 DEF Linked, At, Before
  <2>5. ASSUME NEW x \in 0..(nbuckets - 1), NEW m \in 1..Len(C[x])
        PROVE  C[x][m] \in walk.seen <=> x < i + 1 \/ (x = i + 1 /\ m < 1)
    <3>1. C[x][m] \in walk.seen <=> x < i \/ (x = i /\ m < j)
      BY <1>3 DEF Position
    <3>2. m \in Int /\ 1 <= m /\ m <= Len(C[x]) /\ Len(C[x]) \in Nat
      BY <1>2 DEF Table
    <3>3. x = i => m < j
      BY <1>5, <3>2
    <3> HIDE DEF i
    <3> QED BY <2>1, <3>1, <3>2, <3>3
  <2>6. Position(walk', nbuckets, C, 1)
    <3>1. /\ walk'.i = i + 1 /\ walk'.entry = head[i + 1]
         /\ walk'.prev = NULL /\ walk'.seen = walk.seen
      BY <2>2
    <3> HIDE DEF i, s
    <3> QED BY <2>1, <2>4, <2>5, <3>1 DEF Position, s
  <2> QED BY <1>1, <1>2, <2>3, <2>6, LookStep
<1> QED BY <1>6, <1>7

LEMMA StopStep == ASSUME HInv, EachStop PROVE HInv'
<1>1. /\ walk.ph = "each" /\ walk' = NoWalk("idle")
      /\ UNCHANGED <<live, head, next, nbuckets, nentries, answer>>
  BY DEF EachStop
<1>2. PICK C : Table(head, next, live, nbuckets, C)
  BY DEF HInv, Shape
<1>3. WalkOK' /\ walk'.ph = "idle"
  BY <1>1 DEF WalkOK, NoWalk, Phase, Node
<1> QED BY <1>1, <1>2, <1>3, LookStep DEF Walking

LEMMA DropStep == ASSUME HInv, SweepDrop PROVE HInv'
<1> DEFINE i == walk.i
           v == walk.entry
           t == Unlink(Links, i, walk.prev, v)
<1>1. /\ walk.ph = "sweep" /\ v # NULL
      /\ head' = t.head /\ next' = t.next /\ nbuckets' = nbuckets
      /\ nentries' = nentries - 1 /\ live' = live \ {v}
      /\ walk' = Step(v) /\ answer' = answer
  BY DEF SweepDrop, Become
<1>2. PICK C : Table(head, next, live, nbuckets, C) /\ \E j : Position(walk, nbuckets, C, j)
  BY <1>1 DEF HInv, Shape, Walking
<1>3. PICK j : Position(walk, nbuckets, C, j)
  BY <1>2
<1> DEFINE s == C[i]
           D == Removed(C, i, j)
<1>4. /\ i \in 0..(nbuckets - 1) /\ j \in 1..Len(s) /\ v = s[j] /\ v \in live /\ v \in Value
      /\ Index(v, nbuckets) = i /\ next[v] = Behind(s, j)
      /\ j \in Int /\ 1 <= j /\ j <= Len(s) /\ Len(s) \in Nat
      /\ IsAt(C, nbuckets, i, j, v) /\ walk.prev = Before(s, j)
  BY <1>1, <1>2, <1>3, AtEntry DEF IsAt, Position
<1>5. Table(head', next', live', nbuckets', D)
  <2>1. IsUnlinked(t, head, next, C, i, j, v)
    BY <1>4 DEF Links, IsUnlinked
  <2>2. IsAt(C, nbuckets, i, j, v)
    BY <1>4
  <2> HIDE DEF t, i, v, D
  <2>3. Table(t.head, t.next, live \ {v}, nbuckets, Removed(C, i, j))
    BY <1>2, <2>1, <2>2, UnlinkTable
  <2> QED BY <1>1, <2>3 DEF D
<1>6. /\ walk \in [ph : Phase, i : Nat, entry : Node, prev : Node, seen : SUBSET Value]
      /\ next[v] \in Node /\ nbuckets \in Nat /\ live \subseteq Value
      /\ nentries = Cardinality(live) /\ nentries \in Nat /\ SizeRight
  BY <1>2, <1>4 DEF HInv, WalkOK, Table, TypeOK, Counted
<1>7. walk' = [ph |-> walk.ph, i |-> i, entry |-> next[v], prev |-> walk.prev,
               seen |-> walk.seen \cup {v}]
  BY <1>1, <1>6 DEF Step
<1>8. WalkOK' /\ walk'.ph = "sweep"
  BY <1>1, <1>4, <1>6, <1>7 DEF WalkOK
<1>9. Counted' /\ nentries - 1 \in Nat
  BY <1>1, <1>4, <1>6, Counting DEF Counted
<1>10. SizeRight' /\ GoneEmpty'
  <2>1. walk.ph # "gone" /\ walk'.ph # "gone"
    BY <1>1, <1>8
  <2> HIDE DEF t, v
  <2> QED BY <1>1, <1>6, <1>9, <2>1 DEF SizeRight, GoneEmpty, TooFull
<1>11. answer' \in (Key \cup {NULL}) \X (Value \cup {NULL})
  BY <1>1 DEF HInv, TypeOK
<1> DEFINE r == Without(s, j)
<1>12. /\ C \in [0..(nbuckets - 1) -> Seq(Value)] /\ s \in Seq(Value) /\ Distinct(s)
  BY <1>2, <1>4 DEF Table
<1>13. D[i] = r /\ \A x \in 0..(nbuckets - 1) : x # i => D[x] = C[x]
  <2> HIDE DEF i, r
  <2> QED BY <1>4, <1>12 DEF Removed, r
<1>14. /\ Len(r) = Len(s) - 1
       /\ \A k \in 1..Len(r) : /\ k < j => k \in 1..Len(s) /\ r[k] = s[k]
                               /\ k >= j => k + 1 \in 1..Len(s) /\ r[k] = s[k + 1]
       /\ \A k \in 1..Len(r) : r[k] # s[j]
  <2> HIDE DEF s, r, i, v
  <2>1. s \in Seq(Value) /\ Distinct(s) /\ j \in 1..Len(s)
    BY <1>4, <1>12
  <2> QED BY <2>1, WithoutIs DEF r
<1> HIDE DEF D, r
<1>15. Position(walk', nbuckets, D, j)
  <2>1. walk'.i = i /\ walk'.entry = next[v] /\ walk'.prev = Before(s, j)
        /\ walk'.seen = walk.seen \cup {v}
    BY <1>4, <1>7
  <2>2. j \in 1..(Len(r) + 1)
    BY <1>4, <1>14
  <2>3. next[v] = At(r, j)
    <3>1. CASE j < Len(s)
      <4>1. j \in 1..Len(r) /\ j >= j /\ j <= Len(r)
        BY <1>4, <1>14, <3>1
      <4> QED BY <1>4, <1>14, <3>1, <4>1 DEF At, Behind
    <3>2. CASE ~(j < Len(s))
      <4>1. ~(j <= Len(r))
        BY <1>4, <1>14, <3>2
      <4> QED BY <1>4, <3>2, <4>1 DEF At, Behind
    <3> QED BY <3>1, <3>2
  <2>4. Before(s, j) = Before(r, j)
    <3>1. CASE j = 1
      BY <3>1 DEF Before
    <3>2. CASE j # 1
      <4>1. j - 1 \in 1..Len(r) /\ j - 1 < j
        BY <1>4, <1>14, <3>2
      <4> QED BY <1>14, <3>2, <4>1 DEF Before
    <3> QED BY <3>1, <3>2
  <2>5. ASSUME NEW x \in 0..(nbuckets - 1), NEW m \in 1..Len(D[x])
        PROVE  D[x][m] \in walk.seen \cup {v} <=> x < i \/ (x = i /\ m < j)
    <3>1. CASE x = i
      <4>1. D[x][m] = r[m] /\ m \in 1..Len(r) /\ r[m] # v /\ m \in Int
        BY <1>4, <1>13, <1>14, <3>1
      <4>2. \A k \in 1..Len(s) : s[k] \in walk.seen <=> k < j
        BY <1>3, <1>4 DEF Position
      <4>3. CASE m < j
        BY <1>14, <3>1, <4>1, <4>2, <4>3
      <4>4. CASE m >= j
        <5>1. m + 1 \in 1..Len(s) /\ r[m] = s[m + 1] /\ ~(m + 1 < j) /\ ~(m < j)
          BY <1>4, <1>14, <4>1, <4>4
        <5>2. r[m] \notin walk.seen
          BY <4>2, <5>1
        <5> QED BY <1>4, <3>1, <4>1, <5>1, <5>2
      <4> QED BY <1>4, <4>1, <4>3, <4>4
    <3>2. CASE x # i
      <4>1. D[x] = C[x] /\ m \in 1..Len(C[x])
        BY <1>13, <3>2
      <4>2. C[x][m] # v
        BY <1>2, <1>4, <3>2, <4>1 DEF Table
      <4>3. C[x][m] \in walk.seen <=> x < i
        BY <1>3, <3>2, <4>1 DEF Position
      <4> QED BY <3>2, <4>1, <4>2, <4>3
    <3> QED BY <3>1, <3>2
  <2> HIDE DEF i, s, v
  <2> QED BY <1>4, <1>13, <2>1, <2>2, <2>3, <2>4, <2>5 DEF Position
<1>16. PICK E : Table(head', next', live', nbuckets', E) /\ Position(walk', nbuckets', E, j)
  <2>1. Position(walk', nbuckets', D, j)
    BY <1>1, <1>15
  <2> QED BY <1>5, <2>1
<1>17. Shape(E)'
  BY <1>16 DEF Shape
<1> QED BY <1>8, <1>9, <1>10, <1>11, <1>17, Holds

LEMMA TableNext == HInv /\ [Next]_vars => HInv'
<1> SUFFICES ASSUME HInv, [Next]_vars PROVE HInv'
  OBVIOUS
<1>1. ASSUME NEW v \in Value, Set(v) PROVE HInv'
  BY <1>1, SetStep
<1>2. ASSUME NEW k \in Key, Get(k) PROVE HInv'
  BY <1>2, GetStep
<1>3. ASSUME NEW k \in Key, RemoveKey(k) PROVE HInv'
  BY <1>3, RemoveStep
<1>4. ASSUME WalkBegin PROVE HInv'
  BY <1>4, BeginStep
<1>5. ASSUME SweepDrop PROVE HInv'
  BY <1>5, DropStep
<1>6. ASSUME WalkOn PROVE HInv'
  BY <1>6, OnStep
<1>7. ASSUME WalkBucket PROVE HInv'
  BY <1>7, BucketStep
<1>8. ASSUME EachStop PROVE HInv'
  BY <1>8, StopStep
<1>9. ASSUME Destroy PROVE HInv'
  BY <1>9, DestroyStep
<1>10. ASSUME New PROVE HInv'
  BY <1>10, NewStep
<1>11. ASSUME UNCHANGED vars PROVE HInv'
  <2>1. /\ UNCHANGED <<live, head, next, nbuckets, nentries, answer>>
        /\ walk' = walk
    BY <1>11 DEF vars
  <2>2. PICK C : Shape(C)
    BY DEF HInv
  <2>3. Shape(C)' /\ WalkOK' /\ Counted' /\ SizeRight' /\ GoneEmpty'
    BY <2>1, <2>2 DEF HInv, Shape, WalkOK, Counted, SizeRight, GoneEmpty, Walking
  <2>4. answer' \in (Key \cup {NULL}) \X (Value \cup {NULL})
    BY <2>1 DEF HInv, TypeOK
  <2> QED BY <2>3, <2>4, Holds
<1> QED BY <1>1, <1>2, <1>3, <1>4, <1>5, <1>6, <1>7, <1>8, <1>9, <1>10, <1>11 DEF Next

LEMMA TableAlways == Spec => []HInv
<1> QED BY TableInit, TableNext, PTL DEF Spec

----------------------------------------------------------------------------

LEMMA ChainsFollow == HInv => ChainsRight
<1> SUFFICES ASSUME HInv PROVE ChainsRight
  OBVIOUS
<1>1. PICK C : Table(head, next, live, nbuckets, C)
  BY DEF HInv, Shape
<1>2. Stored = live /\ DOMAIN head = 0..(nbuckets - 1)
  BY <1>1, StoredIs
<1>3. ASSUME NEW i \in 0..(nbuckets - 1)
      PROVE  /\ IsInjective(Chain(i))
             /\ \A v \in ToSet(Chain(i)) : Index(v, nbuckets) = i
  <2>1. /\ Chain(i) = C[i] /\ C[i] \in Seq(Value) /\ Distinct(C[i])
        /\ \A v : v \in ToSet(Chain(i)) <=> \E j \in 1..Len(C[i]) : C[i][j] = v
    BY <1>1, ChainIs
  <2>2. \A j \in 1..Len(C[i]) : Index(C[i][j], nbuckets) = i
    BY <1>1 DEF Table
  <2>3. IsInjective(C[i])
    BY <2>1 DEF IsInjective, Distinct
  <2> QED BY <2>1, <2>2, <2>3
<1> QED BY <1>2, <1>3 DEF ChainsRight, HInv, Counted

\* What the pointers describe is what is allocated: nothing is lost when the
\* buckets are rebuilt, when an entry is unlinked during a walk, or when the
\* table is destroyed.
THEOREM ChainsAlwaysRight == Spec => []ChainsRight
<1> QED BY TableAlways, ChainsFollow, PTL

\* No table that holds something is without buckets or overfull, and every
\* number of buckets is a power of 2, also after a table shrank.
THEOREM SizeAlwaysRight == Spec => []SizeRight
<1>1. HInv => SizeRight
  BY DEF HInv
<1> QED BY <1>1, TableAlways, PTL

LEMMA RestFollows == HInv => SweepRight
<1> SUFFICES ASSUME HInv, Walking PROVE Rest = live \ walk.seen
  BY DEF SweepRight
<1> DEFINE i == walk.i
<1>1. PICK C : Table(head, next, live, nbuckets, C) /\ \E j : Position(walk, nbuckets, C, j)
  BY DEF HInv, Shape
<1>2. PICK j : Position(walk, nbuckets, C, j)
  BY <1>1
<1>3. /\ i \in 0..(nbuckets - 1) /\ nbuckets \in Nat /\ next \in [Value -> Node]
      /\ C[i] \in Seq(Value) /\ Distinct(C[i]) /\ Linked(next, head[i], C[i])
      /\ j \in 1..(Len(C[i]) + 1) /\ walk.entry = At(C[i], j)
  BY <1>1, <1>2 DEF Position, Table
<1>4. \A v : v \in ToSet(From(next, walk.entry))
             <=> \E m \in 1..Len(C[i]) : m >= j /\ C[i][m] = v
  <2> HIDE DEF i
  <2> QED BY <1>3, AfterIs
<1>5. DOMAIN head = 0..(nbuckets - 1)
  BY <1>1, StoredIs
<1>6. \A x \in 0..(nbuckets - 1) : \A v :
        v \in ToSet(Chain(x)) <=> \E m \in 1..Len(C[x]) : C[x][m] = v
  BY <1>1, ChainIs
<1>7. \A v : v \in Rest <=>
        \E x \in 0..(nbuckets - 1) : \E m \in 1..Len(C[x]) :
          C[x][m] = v /\ (x > i \/ (x = i /\ m >= j))
  <2>1. \A v : v \in Rest <=>
          \/ v \in ToSet(From(next, walk.entry))
          \/ \E x \in 0..(nbuckets - 1) : x > i /\ v \in ToSet(Chain(x))
    BY <1>5 DEF Rest
  <2> HIDE DEF i
  <2> QED BY <1>3, <1>4, <1>6, <2>1
<1>8. \A x \in 0..(nbuckets - 1) : \A m \in 1..Len(C[x]) :
        C[x][m] \notin walk.seen <=> x > i \/ (x = i /\ m >= j)
  <2>1. ASSUME NEW x \in 0..(nbuckets - 1), NEW m \in 1..Len(C[x])
        PROVE  C[x][m] \notin walk.seen <=> x > i \/ (x = i /\ m >= j)
    <3>1. C[x][m] \in walk.seen <=> x < i \/ (x = i /\ m < j)
      BY <1>2 DEF Position
    <3>2. x \in Int /\ i \in Int /\ m \in Int /\ j \in Int
      BY <1>1, <1>3 DEF Table
    <3> HIDE DEF i
    <3> QED BY <3>1, <3>2
  <2> QED BY <2>1
<1>9. \A v : v \in live <=> \E x \in 0..(nbuckets - 1) : \E m \in 1..Len(C[x]) : C[x][m] = v
  BY <1>1 DEF Table
<1> HIDE DEF i
<1> QED BY <1>7, <1>8, <1>9

\* A walk has still before it what it has not shown, whatever was unlinked.
THEOREM SweepAlwaysRight == Spec => []SweepRight
<1> QED BY TableAlways, RestFollows, PTL

----------------------------------------------------------------------------
(* The promise of hashtable.h: Stored is what the table holds.             *)

LEMMA StoredLive == HInv => Stored = live
<1> QED BY StoredIs DEF HInv, Shape

LEMMA SetImplements ==
    ASSUME HInv, Stored = live, Stored' = live', NEW v \in Value, Set(v) PROVE Promise!Set(v)
<1>1. /\ walk.ph = "idle" /\ v \notin live
      /\ \/ (SetGrown(v) \/ SetInPlace(v)) /\ answer' = <<KeyOf[v], v>>
         \/ answer' = <<KeyOf[v], NULL>> /\ live' = live
  BY DEF Set, Idle
<1>2. SetGrown(v) \/ SetInPlace(v) => live' = live \cup {v}
  BY <1>1, SetTable
<1> QED BY <1>1, <1>2 DEF Promise!Set

\* What a lookup answers is what it may answer.
LEMMA FindAnswers ==
    ASSUME HInv, Stored = live, NEW k \in Key, nbuckets # 0
    PROVE  /\ Find(k) \in Promise!Answers(k)
           /\ Find(k) # NULL => Find(k) \in live
<1>1. PICK C : Table(head, next, live, nbuckets, C)
  BY DEF HInv, Shape
<1> DEFINE f == Find(k)
<1>2. (f = NULL => \A v \in live : KeyOf[v] # k) /\ (f # NULL => f \in live /\ KeyOf[f] = k)
  BY <1>1, FindStored
<1>3. Promise!Under(k) = {v \in live : KeyOf[v] = k}
  BY DEF Promise!Under
<1> HIDE DEF f
<1>4. f \in Promise!Answers(k)
  BY <1>2, <1>3 DEF Promise!Answers
<1> QED BY <1>2, <1>4 DEF f

LEMMA GetImplements ==
    ASSUME HInv, Stored = live, Stored' = live', NEW k \in Key, Get(k) PROVE Promise!Get(k)
<1>1. nbuckets # 0 /\ answer' = <<k, Find(k)>> /\ live' = live
  BY DEF Get
<1>2. Find(k) \in Promise!Answers(k)
  BY <1>1, FindAnswers
<1> QED BY <1>1, <1>2 DEF Promise!Get

LEMMA RemoveImplements ==
    ASSUME HInv, Stored = live, Stored' = live', NEW k \in Key, RemoveKey(k)
    PROVE  Promise!Remove(k)
<1> DEFINE f == Find(k)
<1>1. /\ walk.ph = "idle" /\ nbuckets # 0 /\ answer' = <<k, f>>
      /\ IF f = NULL THEN live' = live ELSE Unlinked(f)
  BY DEF RemoveKey, Idle
<1>2. f \in Promise!Answers(k) /\ (f # NULL => f \in live)
  BY <1>1, FindAnswers
<1> HIDE DEF f
<1>3. live' = live \ {f}
  <2>1. CASE f = NULL
    <3>1. NULL \notin live
      BY Constants DEF HInv, TypeOK
    <3> QED BY <1>1, <2>1, <3>1
  <2>2. CASE f # NULL
    BY <1>1, <1>2, <2>2, RemoveTable
  <2> QED BY <2>1, <2>2
<1> QED BY <1>1, <1>2, <1>3 DEF Promise!Remove

LEMMA DropImplements ==
    ASSUME HInv, Stored = live, Stored' = live', SweepDrop
    PROVE  \E v \in Value : Promise!Drop(v)
<1>1. /\ walk.ph = "sweep" /\ walk.entry # NULL
      /\ live' = live \ {walk.entry} /\ answer' = answer
  BY DEF SweepDrop, Become
<1>2. walk.entry \in live /\ walk.entry \in Value
  BY <1>1, AtEntry DEF HInv, Shape, Walking
<1> QED BY <1>1, <1>2 DEF Promise!Drop

LEMMA StepImplements ==
    ASSUME HInv, Stored = live, Stored' = live', [Next]_vars
    PROVE  [Promise!Next]_(Promise!vars)
<1>1. ASSUME NEW v \in Value, Set(v) PROVE Promise!Next
  BY <1>1, SetImplements DEF Promise!Next
<1>2. ASSUME NEW k \in Key, Get(k) PROVE Promise!Next
  BY <1>2, GetImplements DEF Promise!Next
<1>3. ASSUME NEW k \in Key, RemoveKey(k) PROVE Promise!Next
  BY <1>3, RemoveImplements DEF Promise!Next
<1>4. ASSUME SweepDrop PROVE Promise!Next
  BY <1>4, DropImplements DEF Promise!Next
<1>5. ASSUME live' = live, answer' = answer PROVE UNCHANGED Promise!vars
  BY <1>5 DEF Promise!vars
<1>6. CASE WalkBegin \/ WalkOn \/ WalkBucket \/ EachStop \/ UNCHANGED vars
  <2>1. live' = live /\ answer' = answer
    BY <1>6 DEF WalkBegin, WalkOn, WalkBucket, EachStop, vars
  <2> QED BY <1>5, <2>1
<1>7. ASSUME Destroy PROVE Promise!Next
  <2>1. live' = {} /\ answer' = Promise!NoAnswer
    BY <1>7, FreesAll DEF Destroy, NoAnswer, Promise!NoAnswer
  <2> QED BY <2>1 DEF Promise!Next, Promise!Destroy
<1>8. ASSUME New PROVE Promise!Next
  <2>1. live' = {} /\ answer' = Promise!NoAnswer
    BY <1>8 DEF New, Become, NoAnswer, Promise!NoAnswer
  <2> QED BY <2>1 DEF Promise!Next, Promise!Destroy
<1> QED BY <1>1, <1>2, <1>3, <1>4, <1>6, <1>7, <1>8 DEF Next

LEMMA InitImplements == Init => Promise!Init
<1> SUFFICES ASSUME Init PROVE Promise!Init
  OBVIOUS
<1>1. Stored = live
  BY TableInit, StoredLive
<1>2. live = {} /\ answer = <<NULL, NULL>>
  BY DEF Init, NoAnswer
<1> QED BY <1>1, <1>2 DEF Promise!Init, Promise!NoAnswer

\* A caller who knows only the header sees nothing else: whatever the buckets,
\* the chains and their rebuilding do, the table is a collection of values in
\* which a lookup finds a value of its key when there is one.
THEOREM PromiseKept == Spec => KeepsPromise
<1>1. HInv /\ Stored = live /\ (Stored = live)' /\ [Next]_vars => [Promise!Next]_(Promise!vars)
  BY StepImplements
<1> QED BY <1>1, InitImplements, TableAlways, StoredLive, PTL DEF Spec, Promise!Spec, KeepsPromise

----------------------------------------------------------------------------
(* What a lookup finds from one call to the next.                          *)

\* A value in front of a list is the first of its key, and of no other key.
LEMMA AddedFirst ==
    ASSUME NEW size \in Nat, NEW C \in [0..(size - 1) -> Seq(Value)], NEW v \in Value,
           NEW i \in 0..(size - 1), NEW b \in 0..(size - 1), NEW k
    PROVE  /\ KeyOf[v] = k /\ b = i => FirstUnder(Added(C, i, v)[b], k, v)
           /\ \A r : KeyOf[v] # k /\ FirstUnder(C[b], k, r) => FirstUnder(Added(C, i, v)[b], k, r)
<1> DEFINE s == C[i]
           t == <<v>> \o s
<1>1. s \in Seq(Value)
  OBVIOUS
<1>2. /\ Len(t) = Len(s) + 1 /\ Len(s) \in Nat /\ t[1] = v
      /\ \A j \in 1..Len(s) : t[j + 1] = s[j]
  <2> HIDE DEF s
  <2> QED BY <1>1
<1>3. Added(C, i, v)[b] = IF b = i THEN t ELSE C[b]
  <2> HIDE DEF t
  <2>1. Added(C, i, v) = [C EXCEPT ![i] = t]
    BY DEF Added, t
  <2> QED BY <2>1
<1> HIDE DEF s, t
<1>4. KeyOf[v] = k => FirstUnder(t, k, v)
  <2>1. 1 \in 1..Len(t) /\ \A m \in 1..Len(t) : ~(m < 1)
    BY <1>2
  <2> QED BY <1>2, <2>1 DEF FirstUnder
<1>5. ASSUME NEW r, KeyOf[v] # k, FirstUnder(s, k, r) PROVE FirstUnder(t, k, r)
  <2>1. \A m \in 1..Len(t) : m = 1 \/ (m - 1 \in 1..Len(s) /\ t[m] = s[m - 1])
    BY <1>2
  <2>2. CASE r = NULL /\ \A m \in 1..Len(s) : KeyOf[s[m]] # k
    <3>1. \A m \in 1..Len(t) : KeyOf[t[m]] # k
      BY <1>2, <1>5, <2>1, <2>2
    <3> QED BY <2>2, <3>1 DEF FirstUnder
  <2>3. CASE \E j \in 1..Len(s) : /\ r = s[j] /\ KeyOf[s[j]] = k
                                  /\ \A m \in 1..Len(s) : m < j => KeyOf[s[m]] # k
    <3>1. PICK j \in 1..Len(s) : /\ r = s[j] /\ KeyOf[s[j]] = k
                                 /\ \A m \in 1..Len(s) : m < j => KeyOf[s[m]] # k
      BY <2>3
    <3>2. j + 1 \in 1..Len(t) /\ t[j + 1] = s[j]
      BY <1>2
    <3>3. ASSUME NEW m \in 1..Len(t), m < j + 1 PROVE KeyOf[t[m]] # k
      <4>1. m # 1 => m - 1 < j
        BY <1>2, <3>3
      <4> QED BY <1>2, <1>5, <2>1, <3>1, <4>1
    <3> QED BY <3>1, <3>2, <3>3 DEF FirstUnder
  <2> QED BY <1>5, <2>2, <2>3 DEF FirstUnder
<1> QED BY <1>3, <1>4, <1>5 DEF s

\* A value taken out was not the first of another key.
LEMMA RemovedFirst ==
    ASSUME NEW size \in Nat, NEW C \in [0..(size - 1) -> Seq(Value)], NEW i, NEW j, NEW v,
           IsAt(C, size, i, j, v), Distinct(C[i]), NEW b \in 0..(size - 1), NEW k, KeyOf[v] # k,
           NEW r, FirstUnder(C[b], k, r)
    PROVE  FirstUnder(Removed(C, i, j)[b], k, r)
<1> DEFINE s == C[i]
           t == Without(s, j)
<1>1. /\ s \in Seq(Value) /\ Distinct(s) /\ i \in 0..(size - 1) /\ j \in 1..Len(s) /\ v = s[j]
      /\ Len(s) \in Nat
  BY DEF IsAt
<1>2. Removed(C, i, j)[b] = IF b = i THEN t ELSE C[b]
  <2> HIDE DEF t
  <2>1. Removed(C, i, j) = [C EXCEPT ![i] = t]
    BY DEF Removed, t
  <2> QED BY <1>1, <2>1
<1>3. /\ Len(t) = Len(s) - 1
      /\ \A m \in 1..Len(t) : /\ m < j => m \in 1..Len(s) /\ t[m] = s[m]
                              /\ m >= j => m + 1 \in 1..Len(s) /\ t[m] = s[m + 1]
  <2> HIDE DEF s, t
  <2> QED BY <1>1, WithoutIs DEF t
<1> HIDE DEF s, t
<1>4. ASSUME b = i PROVE FirstUnder(t, k, r)
  <2>1. FirstUnder(s, k, r)
    BY <1>4 DEF s
  <2>2. CASE r = NULL /\ \A m \in 1..Len(s) : KeyOf[s[m]] # k
    <3>1. ASSUME NEW m \in 1..Len(t) PROVE KeyOf[t[m]] # k
      <4>1. m < j \/ m >= j
        BY <1>1
      <4> QED BY <1>3, <2>2, <4>1
    <3> QED BY <2>2, <3>1 DEF FirstUnder
  <2>3. CASE \E n \in 1..Len(s) : /\ r = s[n] /\ KeyOf[s[n]] = k
                                  /\ \A m \in 1..Len(s) : m < n => KeyOf[s[m]] # k
    <3>1. PICK n \in 1..Len(s) : /\ r = s[n] /\ KeyOf[s[n]] = k
                                 /\ \A m \in 1..Len(s) : m < n => KeyOf[s[m]] # k
      BY <2>3
    <3>2. n # j /\ n \in Int /\ j \in Int /\ 1 <= n /\ n <= Len(s) /\ 1 <= j /\ j <= Len(s)
      BY <1>1, <3>1
    <3>3. CASE n < j
      <4>1. n \in 1..Len(t) /\ t[n] = s[n]
        BY <1>1, <1>3, <3>2, <3>3
      <4>2. ASSUME NEW m \in 1..Len(t), m < n PROVE KeyOf[t[m]] # k
        <5>1. m < j
          BY <3>2, <3>3, <4>2
        <5> QED BY <1>3, <3>1, <4>2, <5>1
      <4> QED BY <3>1, <4>1, <4>2 DEF FirstUnder
    <3>4. CASE n > j
      <4>1. n - 1 \in 1..Len(t) /\ n - 1 >= j /\ (n - 1) + 1 = n
        BY <1>1, <1>3, <3>2, <3>4
      <4>2. t[n - 1] = s[n]
        BY <1>3, <4>1
      <4>3. ASSUME NEW m \in 1..Len(t), m < n - 1 PROVE KeyOf[t[m]] # k
        <5>1. m \in Int /\ m < n /\ m + 1 < n /\ (m < j \/ m >= j)
          BY <3>2, <4>3
        <5> QED BY <1>3, <3>1, <5>1
      <4> QED BY <3>1, <4>1, <4>2, <4>3 DEF FirstUnder
    <3> QED BY <3>2, <3>3, <3>4
  <2> QED BY <2>1, <2>2, <2>3 DEF FirstUnder
<1> QED BY <1>2, <1>4

\* Every lookup finds the first value of its key.
Looks == \A k \in Key : \A C : Table(head, next, live, nbuckets, C) /\ nbuckets # 0
                                 => FirstUnder(C[Bucket(k, nbuckets)], k, Find(k))

LEMMA Looking == Looks
<1> QED BY FindFirst DEF Looks

\* What a step has to keep.
Latest(k) ==
    nbuckets # 0 /\ nbuckets' # 0 =>
      /\ \A v \in live' \ live : KeyOf[v] = k => Find(k)' = v
      /\ nbuckets' = nbuckets /\ Under(k)' = Under(k) => Find(k)' = Find(k)

LEMMA FindKept ==
    ASSUME Looks, Looks', NEW k \in Key, nbuckets # 0, nbuckets' = nbuckets,
           NEW C, Table(head, next, live, nbuckets, C),
           NEW D, Table(head', next', live', nbuckets', D),
           NEW b, b = Bucket(k, nbuckets),
           \A r : FirstUnder(C[b], k, r) => FirstUnder(D[b], k, r)
    PROVE  Find(k)' = Find(k)
<1>1. FirstUnder(D[b], k, Find(k))
  BY DEF Looks
<1>2. FirstUnder(D[b], k, Find(k)')
  BY DEF Looks
<1>3. D[b] \in Seq(Value)
  <2>1. nbuckets \in Nat
    BY DEF Table
  <2>2. b \in 0..(nbuckets - 1)
    BY <2>1, BucketIs
  <2> QED BY <2>2 DEF Table
<1> QED BY <1>1, <1>2, <1>3, FirstUnique

LEMMA LatestSame ==
    ASSUME HInv, Looks, Looks', NEW k \in Key, UNCHANGED <<live, head, next, nbuckets>>
    PROVE  Latest(k)
<1>1. PICK C : Table(head, next, live, nbuckets, C)
  BY DEF HInv, Shape
<1>2. Table(head', next', live', nbuckets', C)
  BY <1>1
<1>3. nbuckets # 0 => Find(k)' = Find(k)
  <2>1. ASSUME nbuckets # 0, NEW b, b = Bucket(k, nbuckets) PROVE Find(k)' = Find(k)
    BY <1>1, <1>2, <2>1, FindKept
  <2> QED BY <2>1
<1> QED BY <1>3 DEF Latest

LEMMA LatestSet ==
    ASSUME HInv, Looks, Looks', NEW v \in Value, Set(v), NEW k \in Key PROVE Latest(k)
<1>1. /\ walk.ph = "idle" /\ v \notin live
      /\ \/ SetGrown(v) \/ SetInPlace(v)
         \/ UNCHANGED <<live, head, next, nbuckets>>
  BY DEF Set, Idle
<1>2. CASE UNCHANGED <<live, head, next, nbuckets>>
  BY <1>2, LatestSame
<1>3. CASE SetGrown(v) \/ SetInPlace(v)
  <2>1. /\ live' = live \cup {v} /\ nbuckets' \in Nat /\ nbuckets' > 0
        /\ \E C : Stores(C, v)
    BY <1>1, <1>3, SetTable
  <2>2. PICK C : Stores(C, v)
    BY <2>1
  <2>3. PICK size : size = nbuckets'
    OBVIOUS
  <2> DEFINE b == Bucket(k, size)
             i == Index(v, size)
             D == Added(C, i, v)
  <2>4. /\ Table(head', next', live', nbuckets', D) /\ C \in [0..(size - 1) -> Seq(Value)]
        /\ nbuckets' = nbuckets => Table(head, next, live, nbuckets, C)
    BY <2>2, <2>3 DEF Stores
  <2>5. size \in Nat /\ size # 0 /\ b \in 0..(size - 1) /\ i \in 0..(size - 1)
    BY <2>1, <2>3, BucketIs, IndexIs
  <2>6. KeyOf[v] = k => b = i
    BY DEF Bucket, Index
  <2> HIDE DEF b, i
  <2>7. /\ KeyOf[v] = k => FirstUnder(D[b], k, v)
        /\ \A r : KeyOf[v] # k /\ FirstUnder(C[b], k, r) => FirstUnder(D[b], k, r)
    BY <2>4, <2>5, <2>6, AddedFirst
  <2> HIDE DEF D
  <2>8. KeyOf[v] = k => Find(k)' = v
    <3>1. FirstUnder(D[b], k, Find(k)')
      BY <2>3, <2>4, <2>5 DEF Looks, b
    <3>2. D[b] \in Seq(Value)
      BY <2>3, <2>4, <2>5 DEF Table
    <3> QED BY <2>7, <3>1, <3>2, FirstUnique
  <2>9. KeyOf[v] # k /\ nbuckets' = nbuckets => Find(k)' = Find(k)
    <3> SUFFICES ASSUME KeyOf[v] # k, nbuckets' = nbuckets PROVE Find(k)' = Find(k)
      OBVIOUS
    <3>1. b = Bucket(k, nbuckets) /\ nbuckets # 0
      BY <2>3, <2>5 DEF b
    <3> QED BY <2>4, <2>7, <3>1, FindKept
  <2>10. Under(k)' = Under(k) => KeyOf[v] # k
    BY <1>1, <2>1 DEF Under
  <2> QED BY <2>1, <2>8, <2>9, <2>10 DEF Latest
<1> QED BY <1>1, <1>2, <1>3

LEMMA LatestOut ==
    ASSUME HInv, Looks, Looks', NEW v \in live, live' = live \ {v},
           nbuckets' = nbuckets => TakesOut(v), NEW k \in Key
    PROVE  Latest(k)
<1>1. ASSUME nbuckets # 0, nbuckets' = nbuckets, Under(k)' = Under(k) PROVE Find(k)' = Find(k)
  <2>1. PICK C, i, j : /\ Table(head, next, live, nbuckets, C) /\ IsAt(C, nbuckets, i, j, v)
                       /\ Table(head', next', live', nbuckets', Removed(C, i, j))
    BY <1>1 DEF TakesOut
  <2>2. KeyOf[v] # k
    BY <1>1 DEF Under
  <2>3. PICK b : b = Bucket(k, nbuckets)
    OBVIOUS
  <2>4. /\ nbuckets \in Nat /\ C \in [0..(nbuckets - 1) -> Seq(Value)]
        /\ b \in 0..(nbuckets - 1) /\ Distinct(C[i])
    BY <1>1, <2>1, <2>3, BucketIs DEF Table, IsAt
  <2>5. \A r : FirstUnder(C[b], k, r) => FirstUnder(Removed(C, i, j)[b], k, r)
    BY <2>1, <2>2, <2>4, RemovedFirst
  <2> QED BY <1>1, <2>1, <2>3, <2>5, FindKept
<1> QED BY <1>1 DEF Latest

LEMMA LatestRemove ==
    ASSUME HInv, Looks, Looks', NEW q \in Key, RemoveKey(q), NEW k \in Key PROVE Latest(k)
<1> DEFINE f == Find(q)
<1>1. /\ walk.ph = "idle" /\ nbuckets # 0
      /\ IF f = NULL THEN UNCHANGED <<live, head, next, nbuckets>> ELSE Unlinked(f)
  BY DEF RemoveKey, Idle
<1>2. f # NULL => f \in live
  BY <1>1, FindAnswers, StoredLive
<1> HIDE DEF f
<1>3. CASE f = NULL
  BY <1>1, <1>3, LatestSame
<1>4. CASE f # NULL
  <2>1. live' = live \ {f} /\ (nbuckets' = nbuckets => TakesOut(f))
    BY <1>1, <1>2, <1>4, RemoveTable
  <2>2. f \in live
    BY <1>2, <1>4
  <2> QED BY <2>1, <2>2, LatestOut
<1> QED BY <1>3, <1>4

LEMMA LatestDrop ==
    ASSUME HInv, Looks, Looks', SweepDrop, NEW k \in Key PROVE Latest(k)
<1> DEFINE i == walk.i
           v == walk.entry
           t == Unlink(Links, i, walk.prev, v)
<1>1. /\ walk.ph = "sweep" /\ v # NULL
      /\ head' = t.head /\ next' = t.next /\ nbuckets' = nbuckets /\ live' = live \ {v}
  BY DEF SweepDrop, Become
<1>2. PICK C : Table(head, next, live, nbuckets, C) /\ \E j : Position(walk, nbuckets, C, j)
  BY <1>1 DEF HInv, Shape, Walking
<1>3. PICK j : Position(walk, nbuckets, C, j)
  BY <1>2
<1>4. IsAt(C, nbuckets, i, j, v) /\ v \in live /\ walk.prev = Before(C[i], j)
  BY <1>1, <1>2, <1>3, AtEntry DEF Position
<1>5. IsUnlinked(t, head, next, C, i, j, v)
  BY <1>4 DEF Links, IsUnlinked
<1> HIDE DEF t, i, v
<1>6. Table(t.head, t.next, live \ {v}, nbuckets, Removed(C, i, j))
  BY <1>2, <1>4, <1>5, UnlinkTable
<1>7. TakesOut(v)
  BY <1>1, <1>2, <1>4, <1>6 DEF TakesOut
<1> QED BY <1>1, <1>4, <1>7, LatestOut

\* Nothing is found before the table is made anew, and nothing after.
LEMMA LatestNew ==
    ASSUME HInv, HInv', Looks, Looks', New, NEW k \in Key PROVE Latest(k)
<1>1. live = {} /\ live' = {}
  BY DEF New, Become, HInv, GoneEmpty
<1>2. ASSUME nbuckets # 0, nbuckets' = nbuckets PROVE Find(k)' = Find(k)
  <2>1. PICK C : Table(head, next, live, nbuckets, C)
    BY DEF HInv, Shape
  <2>2. PICK D : Table(head', next', live', nbuckets', D)
    BY DEF HInv, Shape
  <2>3. PICK b : b = Bucket(k, nbuckets)
    OBVIOUS
  <2>4. nbuckets \in Nat /\ b \in 0..(nbuckets - 1)
    BY <1>2, <2>1, <2>3, BucketIs DEF Table
  <2>5. 1..Len(C[b]) = {} /\ 1..Len(D[b]) = {}
    BY <1>1, <1>2, <2>1, <2>2, <2>4 DEF Table
  <2>6. \A r : FirstUnder(C[b], k, r) => FirstUnder(D[b], k, r)
    BY <2>5 DEF FirstUnder
  <2> QED BY <1>2, <2>1, <2>2, <2>3, <2>6, FindKept
<1> QED BY <1>1, <1>2 DEF Latest

LEMMA LatestStep ==
    ASSUME HInv, HInv', Looks, Looks', [Next]_vars, NEW k \in Key PROVE Latest(k)
<1>1. ASSUME NEW v \in Value, Set(v) PROVE Latest(k)
  BY <1>1, LatestSet
<1>2. ASSUME NEW q \in Key, RemoveKey(q) PROVE Latest(k)
  BY <1>2, LatestRemove
<1>3. ASSUME SweepDrop PROVE Latest(k)
  BY <1>3, LatestDrop
<1>4. ASSUME New PROVE Latest(k)
  BY <1>4, LatestNew
<1>5. ASSUME Destroy PROVE Latest(k)
  BY <1>5 DEF Destroy, Latest
<1>6. ASSUME NEW q \in Key, Get(q) PROVE Latest(k)
  <2>1. UNCHANGED <<live, head, next, nbuckets>>
    BY <1>6 DEF Get
  <2> QED BY <2>1, LatestSame
<1>7. CASE WalkBegin \/ WalkOn \/ WalkBucket \/ EachStop \/ UNCHANGED vars
  <2>1. UNCHANGED <<live, head, next, nbuckets>>
    BY <1>7 DEF WalkBegin, WalkOn, WalkBucket, EachStop, vars
  <2> QED BY <2>1, LatestSame
<1> QED BY <1>1, <1>2, <1>3, <1>4, <1>5, <1>6, <1>7 DEF Next

\* A value just stored is found under its key, and no call on another key, no
\* unlinked value of another key and no walk changes what a key finds.
THEOREM LatestFound == Spec => FoundLatest
<1>1. HInv /\ HInv' /\ Looks /\ Looks' /\ [Next]_vars
        => [\A k \in Key :
              nbuckets # 0 /\ nbuckets' # 0 =>
                /\ \A v \in live' \ live : KeyOf[v] = k => Find(k)' = v
                /\ nbuckets' = nbuckets /\ Under(k)' = Under(k) => Find(k)' = Find(k)]_vars
  BY LatestStep DEF Latest
<1> QED BY <1>1, Looking, TableAlways, PTL DEF Spec, FoundLatest
=============================================================================
