---------------------------- MODULE ScreenProofs ----------------------------
(***************************************************************************)
(* For any lists of processes, any terminal and any pad: what the keys     *)
(* leave of what the last refresh printed, where the cursor is, and what   *)
(* is not shown of a list of connections.                                  *)
(***************************************************************************)
EXTENDS Screen, FoldProofs, SequenceTheorems

Shown == UNION Lists
Conns == UNION {p.conns : p \in Shown}

\* The processes of a sorted list, the rows printed of them, and what may stand in
\* a line of the pad.
Entries == {[p EXCEPT !.conns = cs] : p \in Shown, cs \in Seq(Conns)}
Word == {NoText, AnyText} \cup {p.name : p \in Shown} \cup {c.id : c \in Conns}
NewRow == [of : Word, from : {0}, width : Nat]
Row == [of : Word, from : Int, width : Int]

LEMMA Constants ==
    /\ LINES \in Nat /\ LINES > 6 /\ COLS \in Nat
    /\ MIN_LINES_PAD \in Nat /\ MIN_COLS_PAD \in Nat \ {0}
    /\ MaxScroll \in Nat /\ MaxScroll > 5
    /\ view_conections \in BOOLEAN
    /\ Top = 5 /\ LINE_START = 4
    /\ \A c \in Conns :
         /\ c.stat[1] \in Nat /\ c.stat[2] \in Nat /\ c.stat[3] \in Nat /\ c.stat[4] \in Nat
         /\ c.stat[2] <= c.stat[4] /\ c.stat[1] <= c.stat[3] /\ c.width \in Nat
<1>1. ASSUME NEW c \in Conns
      PROVE  /\ c.width \in Nat
             /\ \A m \in 1..4 : c.stat[m] \in Nat
             /\ c.stat[2] <= c.stat[4] /\ c.stat[1] <= c.stat[3]
  BY ListsAssumption DEF ListsAssumption, Conns, Shown, PPS_TX, PPS_RX, RATE_TX, RATE_RX
<1>2. 1 \in 1..4 /\ 2 \in 1..4 /\ 3 \in 1..4 /\ 4 \in 1..4
  OBVIOUS
<1> QED BY <1>1, <1>2, ScreenAssumption DEF ScreenAssumption, Top, LINE_START

LEMMA EntryIs ==
    ASSUME NEW q \in Entries
    PROVE  q.name \in Word /\ q.width \in Nat \ {0} /\ q.conns \in Seq(Conns)
<1>1. PICK p \in Shown, cs \in Seq(Conns) : q = [p EXCEPT !.conns = cs]
  BY DEF Entries
<1>2. DOMAIN p = {"pid", "name", "width", "stat", "conns"} /\ p.width \in Nat \ {0}
  BY ListsAssumption DEF ListsAssumption, Shown
<1>3. q.name = p.name /\ q.width = p.width /\ q.conns = cs
  BY <1>1, <1>2
<1> QED BY <1>2, <1>3 DEF Word

----------------------------------------------------------------------------
(* sort(): a list in order holds what was given to it.                     *)

LEMMA ListOfSet ==
    ASSUME NEW S, IsFiniteSet(S) PROVE SetToSeq(S) \in Seq(S)
<1> DEFINE n == Cardinality(S)
           Is(f) == f \in [1..n -> S] /\ IsInjective(f)
<1>1. n \in Nat
  BY FS_CardinalityType
<1>2. \E f : Is(f)
  <2>1. PICK f : f \in Bijection(1..n, S)
    BY FS_CardinalityType DEF ExistsBijection
  <2> QED BY <2>1 DEF Bijection, Injection, IsInjective
<1>3. Is(CHOOSE f : Is(f))
  BY <1>2
<1>4. SetToSeq(S) = CHOOSE f \in [1..n -> S] : IsInjective(f)
  BY DEF SetToSeq
<1>5. SetToSeq(S) \in [1..n -> S]
  <2> HIDE DEF n
  <2> QED BY <1>2, <1>4
<1> HIDE DEF n
<1> QED BY <1>1, <1>5

LEMMA ListsOfSet ==
    ASSUME NEW S, IsFiniteSet(S), NEW s \in SetToSeqs(S) PROVE s \in Seq(S)
<1>1. Cardinality(S) \in Nat
  BY FS_CardinalityType
<1>2. s \in [1..Cardinality(S) -> S]
  BY DEF SetToSeqs
<1> QED BY <1>1, <1>2

LEMMA ConnectionsOrdered ==
    ASSUME NEW p \in Shown, NEW mode, NEW cs \in ConnectionOrders(p, mode)
    PROVE  /\ cs \in Seq(Conns)
           /\ view_conections => \A i, j \in 1..Len(cs) :
                i < j => ConnectionColumn(cs[i], mode) >= ConnectionColumn(cs[j], mode)
<1>1. IsFiniteSet(p.conns) /\ p.conns \subseteq Conns
  BY ListsAssumption DEF ListsAssumption, Shown, Conns
<1>2. CASE ~view_conections
  <2>1. cs = SetToSeq(p.conns)
    BY <1>2 DEF ConnectionOrders
  <2>2. cs \in Seq(p.conns)
    BY <1>1, <2>1, ListOfSet
  <2> QED BY <1>1, <1>2, <2>2
<1>3. CASE view_conections
  <2>1. /\ cs \in SetToSeqs(p.conns)
        /\ Descending([i \in DOMAIN cs |-> ConnectionColumn(cs[i], mode)])
    BY <1>3 DEF ConnectionOrders
  <2>2. cs \in Seq(p.conns) /\ DOMAIN cs = 1..Len(cs)
    BY <1>1, <2>1, ListsOfSet
  <2>3. \A i, j \in 1..Len(cs) :
          i < j => ConnectionColumn(cs[i], mode) >= ConnectionColumn(cs[j], mode)
    BY <2>1, <2>2 DEF Descending
  <2> QED BY <1>1, <2>2, <2>3
<1> QED BY <1>2, <1>3

\* A sorted list; the connections of each of its processes are sorted too.
SortedBy(s, mode) ==
    /\ s \in Seq(Entries)
    /\ view_conections => \A n \in 1..Len(s) : \A i, j \in 1..Len(s[n].conns) :
         i < j => ConnectionColumn(s[n].conns[i], mode) >= ConnectionColumn(s[n].conns[j], mode)

LEMMA OrdersSorted ==
    ASSUME NEW ps \in Lists, NEW mode, NEW order \in Orders(ps, mode)
    PROVE  SortedBy(order, mode)
<1>1. PICK s \in ProcessOrders(ps, mode) :
        \E cs \in [DOMAIN s -> UNION {ConnectionOrders(p, mode) : p \in ps}] :
          /\ \A i \in DOMAIN s : cs[i] \in ConnectionOrders(s[i], mode)
          /\ order = [i \in DOMAIN s |-> [s[i] EXCEPT !.conns = cs[i]]]
  BY DEF Orders
<1>2. PICK cs : /\ \A i \in DOMAIN s : cs[i] \in ConnectionOrders(s[i], mode)
                /\ order = [i \in DOMAIN s |-> [s[i] EXCEPT !.conns = cs[i]]]
  BY <1>1
<1>3. s \in Seq(ps) /\ ps \subseteq Shown /\ DOMAIN s = 1..Len(s) /\ Len(s) \in Nat
  <2>1. s \in SetToSeqs(ps) /\ IsFiniteSet(ps)
    BY ListsAssumption DEF ListsAssumption, ProcessOrders
  <2>2. s \in Seq(ps)
    BY <2>1, ListsOfSet
  <2> QED BY <2>2 DEF Shown
<1>4. ASSUME NEW i \in 1..Len(s)
      PROVE  /\ order[i] \in Entries /\ order[i].conns = cs[i]
             /\ view_conections => \A x, y \in 1..Len(cs[i]) :
                  x < y => ConnectionColumn(cs[i][x], mode) >= ConnectionColumn(cs[i][y], mode)
  <2>1. /\ s[i] \in Shown /\ cs[i] \in ConnectionOrders(s[i], mode)
        /\ order[i] = [s[i] EXCEPT !.conns = cs[i]]
    BY <1>2, <1>3
  <2>2. cs[i] \in Seq(Conns)
    BY <2>1, ConnectionsOrdered
  <2>3. DOMAIN s[i] = {"pid", "name", "width", "stat", "conns"}
    BY <2>1, ListsAssumption DEF ListsAssumption, Shown
  <2>4. order[i] \in Entries
    BY <2>1, <2>2 DEF Entries
  <2>5. order[i].conns = cs[i]
    BY <2>1, <2>3
  <2> QED BY <2>1, <2>4, <2>5, ConnectionsOrdered
<1>5. order \in [1..Len(s) -> Entries]
  BY <1>2, <1>3, <1>4
<1>6. order \in Seq(Entries) /\ Len(order) = Len(s)
  BY <1>3, <1>5
<1> QED BY <1>4, <1>6 DEF SortedBy

----------------------------------------------------------------------------
(* show_connections(): what is shown of a list of connections.             *)

\* The list is shown up to its element m, behind which is a silent one.
LEMMA ShownUpTo ==
    ASSUME NEW cs \in Seq(Conns), cs # <<>>
    PROVE  \E m \in 1..Len(cs) : /\ ShownConnections(cs) = SubSeq(cs, 1, m)
                                 /\ ShownConnections(cs) \in Seq(Conns)
                                 /\ Len(ShownConnections(cs)) = m
                                 /\ m = Len(cs) \/ Silent(cs[m + 1])
<1> DEFINE last == {i \in 1..Len(cs) : i = Len(cs) \/ Silent(cs[i + 1])}
           m == Min(last)
<1>1. Len(cs) \in Nat /\ Len(cs) # 0 /\ DOMAIN cs = 1..Len(cs)
  OBVIOUS
<1>2. Len(cs) \in last
  BY <1>1
<1>3. IsFiniteSet(last) /\ last \subseteq Int
  <2>1. IsFiniteSet(1..Len(cs)) /\ last \subseteq 1..Len(cs)
    BY <1>1, FS_Interval
  <2>2. 1..Len(cs) \subseteq Int
    BY <1>1
  <2> HIDE DEF last
  <2>3. IsFiniteSet(last)
    BY <2>1, FS_Subset
  <2> QED BY <2>1, <2>2, <2>3
<1>4. m \in last
  <2> HIDE DEF last
  <2> QED BY <1>2, <1>3, MinIs
<1>5. ShownConnections(cs) = SubSeq(cs, 1, m)
  BY <1>1 DEF ShownConnections
<1> HIDE DEF m
<1>6. m \in 1..Len(cs) /\ (m = Len(cs) \/ Silent(cs[m + 1]))
  BY <1>4
<1>7. SubSeq(cs, 1, m) \in Seq(Conns) /\ Len(SubSeq(cs, 1, m)) = m
  <2> HIDE DEF last
  <2>1. m \in 1..Len(cs) /\ Len(cs) \in Nat
    BY <1>1, <1>6
  <2>2. m \in Int /\ 1 <= m /\ m <= Len(cs)
    BY <2>1
  <2>3. \A i \in 1..m : cs[i] \in Conns
    BY <2>1, <2>2
  <2>4. /\ SubSeq(cs, 1, m) \in Seq(Conns)
        /\ Len(SubSeq(cs, 1, m)) = IF 1 <= m THEN m - 1 + 1 ELSE 0
    BY <2>2, <2>3, SubSeqProperties
  <2> QED BY <2>2, <2>4
<1> QED BY <1>5, <1>6, <1>7

\* What is behind a silent connection has nothing in the column sorted by.
LEMMA BehindSilent ==
    ASSUME NEW cs \in Seq(Conns), NEW mode,
           \A i, j \in 1..Len(cs) :
             i < j => ConnectionColumn(cs[i], mode) >= ConnectionColumn(cs[j], mode),
           NEW j \in (Len(ShownConnections(cs)) + 1)..Len(cs)
    PROVE  ConnectionColumn(cs[j], mode) = 0
<1>1. Len(cs) \in Nat /\ cs # <<>>
  <2>1. ShownConnections(<<>>) = <<>>
    BY DEF ShownConnections
  <2> QED BY <2>1
<1>2. PICK m \in 1..Len(cs) : /\ Len(ShownConnections(cs)) = m
                              /\ m = Len(cs) \/ Silent(cs[m + 1])
  BY <1>1, ShownUpTo
<1>3. j \in 1..Len(cs) /\ m + 1 \in 1..Len(cs) /\ m + 1 <= j /\ Silent(cs[m + 1])
  BY <1>1, <1>2
<1>4. \A c \in Conns : /\ ConnectionColumn(c, mode) \in Nat
                       /\ Silent(c) => ConnectionColumn(c, mode) = 0
  BY Constants DEF ConnectionColumn, ConnectionMode, Silent, PPS_TX, PPS_RX, RATE_TX, RATE_RX
<1>5. /\ ConnectionColumn(cs[j], mode) \in Nat
      /\ ConnectionColumn(cs[m + 1], mode) = 0
  BY <1>3, <1>4
<1>6. m + 1 = j \/ ConnectionColumn(cs[m + 1], mode) >= ConnectionColumn(cs[j], mode)
  BY <1>2, <1>3
<1> QED BY <1>5, <1>6

----------------------------------------------------------------------------
(* The rows.                                                               *)

LEMMA TextIsRow ==
    ASSUME NEW of \in Word, NEW width \in Nat PROVE Text(of, width) \in NewRow
BY DEF Text, NewRow

LEMMA BlankIsRow == Blank \in NewRow /\ Mixed \in NewRow /\ NewRow \subseteq Row
<1>1. Blank \in NewRow /\ Mixed \in NewRow
  BY TextIsRow DEF Blank, Mixed, Word
<1>2. NewRow \subseteq Row
  BY DEF NewRow, Row
<1> QED BY <1>1, <1>2

LEMMA RowsOfIs ==
    ASSUME NEW q \in Entries
    PROVE  /\ RowsOf(q) \in Seq(NewRow)
           /\ RowsOf(q) # <<>> =>
                /\ Head(RowsOf(q)) \in NewRow /\ Tail(RowsOf(q)) \in Seq(NewRow)
                /\ RowsOf(q) = <<Head(RowsOf(q))>> \o Tail(RowsOf(q))
                /\ Len(RowsOf(q)) = 1 + Len(Tail(RowsOf(q)))
<1> DEFINE self == Text(q.name, q.width - 1)
<1>1. self \in NewRow /\ q.conns \in Seq(Conns) /\ Blank \in NewRow
  <2>1. q.name \in Word /\ q.width - 1 \in Nat /\ q.conns \in Seq(Conns)
    BY EntryIs
  <2> QED BY <2>1, TextIsRow, BlankIsRow
<1>2. RowsOf(q) \in Seq(NewRow)
  <2>1. CASE ~Listed(q)
    BY <2>1 DEF RowsOf
  <2>2. CASE Listed(q) /\ (~Opened(q) \/ q.conns = <<>>)
    <3>1. RowsOf(q) = <<self>>
      BY <2>2 DEF RowsOf
    <3> HIDE DEF self
    <3> QED BY <1>1, <3>1
  <2>3. CASE Listed(q) /\ Opened(q) /\ q.conns # <<>>
    <3> DEFINE cs == ShownConnections(q.conns)
               of == [i \in DOMAIN cs |-> Text(q.conns[i].id, q.conns[i].width)]
    <3>1. RowsOf(q) = <<self>> \o of \o <<Blank>>
      BY <2>3 DEF RowsOf
    <3>2. PICK m \in 1..Len(q.conns) : cs \in Seq(Conns) /\ Len(cs) = m
      BY <1>1, <2>3, ShownUpTo
    <3>3. of \in Seq(NewRow)
      <4>1. DOMAIN cs = 1..m /\ m \in Nat
        BY <1>1, <3>2
      <4>2. ASSUME NEW i \in 1..m PROVE Text(q.conns[i].id, q.conns[i].width) \in NewRow
        <5>1. i \in 1..Len(q.conns)
          BY <1>1, <3>2
        <5>2. q.conns[i] \in Conns
          BY <1>1, <5>1
        <5>3. q.conns[i].id \in Word /\ q.conns[i].width \in Nat
          BY <5>2, Constants DEF Word
        <5> QED BY <5>3, TextIsRow
      <4>3. of \in [1..m -> NewRow]
        BY <4>1, <4>2
      <4> HIDE DEF of
      <4> QED BY <4>1, <4>3
    <3> HIDE DEF self, of
    <3> QED BY <1>1, <3>1, <3>3
  <2> QED BY <2>1, <2>2, <2>3
<1>3. \A s \in Seq(NewRow) : s # <<>> => /\ Head(s) \in NewRow /\ Tail(s) \in Seq(NewRow)
                                         /\ s = <<Head(s)>> \o Tail(s)
                                         /\ Len(s) = 1 + Len(Tail(s))
  <2>1. ASSUME NEW s \in Seq(NewRow), s # <<>>
        PROVE  /\ Head(s) \in NewRow /\ Tail(s) \in Seq(NewRow) /\ Len(s) = 1 + Len(Tail(s))
               /\ s = <<Head(s)>> \o Tail(s)
    <3>1. /\ Head(s) \in NewRow /\ Tail(s) \in Seq(NewRow) /\ Len(s) = 1 + Len(Tail(s))
          /\ Len(s) \in Nat
      BY <2>1
    <3>2. s = <<Head(s)>> \o Tail(s)
      BY <2>1
    <3> QED BY <3>1, <3>2
  <2> QED BY <2>1
<1> QED BY <1>2, <1>3

\* What rows look like that go on in the next line.
LEMMA WrappedIs ==
    ASSUME NEW t \in NewRow, NEW cols \in Nat \ {0}
    PROVE  Wrapped(t, cols) \in Seq(Row) /\ (t.width < cols => Wrapped(t, cols) = <<t>>)
<1> DEFINE line(k) == [of |-> t.of, from |-> (k - 1) * cols,
                       width |-> Smaller(cols, t.width - (k - 1) * cols)]
           n == t.width \div cols + 1
<1>1. /\ t = [of |-> t.of, from |-> 0, width |-> t.width]
      /\ t.of \in Word /\ t.width \in Nat /\ t \in Row
  BY DEF NewRow, Row
<1>2. n \in Nat
  <2>1. t.width \div cols \in Nat
    BY <1>1, SMTT(30)
  <2> QED BY <2>1
<1>3. ASSUME NEW k \in 1..n PROVE line(k) \in Row
  <2>1. (k - 1) * cols \in Int
    BY <1>2
  <2>2. Smaller(cols, t.width - (k - 1) * cols) \in Int
    BY <1>1, <2>1 DEF Smaller
  <2> QED BY <1>1, <2>1, <2>2 DEF Row
<1>4. Wrapped(t, cols) = [k \in 1..n |-> line(k)]
  BY DEF Wrapped
<1>5. Wrapped(t, cols) \in Seq(Row)
  <2> HIDE DEF n, line
  <2>1. [k \in 1..n |-> line(k)] \in [1..n -> Row]
    BY <1>3
  <2> QED BY <1>2, <1>4, <2>1
<1>6. ASSUME t.width < cols PROVE Wrapped(t, cols) = <<t>>
  <2>1. t.width \div cols = 0
    BY <1>1, <1>6, SMTT(30)
  <2>2. n = 1
    BY <2>1
  <2>3. (1 - 1) * cols = 0
    OBVIOUS
  <2>4. Smaller(cols, t.width - 0) = t.width
    BY <1>1, <1>6 DEF Smaller
  <2>5. line(1) = t
    BY <1>1, <2>3, <2>4
  <2> HIDE DEF n, line
  <2>6. \A k \in 1..n : line(k) = t
    BY <2>2, <2>5
  <2>7. Wrapped(t, cols) = [k \in 1..1 |-> t]
    BY <1>4, <2>2, <2>6
  <2> QED BY <2>7
<1> QED BY <1>5, <1>6

\* Joining sequences of one element each.
LEMMA FlattenOne ==
    ASSUME NEW E, NEW s \in Seq(E), NEW seqs \in Seq(Seq(E)), Len(seqs) = Len(s),
           \A i \in 1..Len(s) : seqs[i] = <<s[i]>>
    PROVE  FlattenSeq(seqs) = s
<1>1. PICK f : Joined(f, seqs, E) /\ FlattenSeq(seqs) = f[Len(seqs)]
  BY FlattenIs
<1> DEFINE n == Len(s)
           Q == {k \in 0..n : f[k] = SubSeq(s, 1, k)}
<1>2. n \in Nat /\ f[0] = <<>> /\ \A k \in 1..n : f[k] = f[k - 1] \o seqs[k]
  <2>1. Len(seqs) = n /\ n \in Nat
    OBVIOUS
  <2> HIDE DEF n
  <2> QED BY <1>1, <2>1 DEF Joined
<1>3. 0 \in Q
  <2>1. SubSeq(s, 1, 0) = <<>>
    OBVIOUS
  <2>2. 0 \in 0..n /\ f[0] = SubSeq(s, 1, 0)
    BY <1>2, <2>1
  <2> HIDE DEF n
  <2> QED BY <2>2
<1>4. ASSUME NEW k \in 1..n, k - 1 \in Q PROVE k \in Q
  <2>1. f[k] = SubSeq(s, 1, k - 1) \o <<s[k]>>
    BY <1>2, <1>4
  <2>2. SubSeq(s, 1, k - 1) \o <<s[k]>> = SubSeq(s, 1, k)
    BY <1>2
  <2> QED BY <1>2, <2>1, <2>2
<1>5. n \in Q
  <2> HIDE DEF Q, n
  <2>1. 0..n \subseteq Q
    BY <1>2, <1>3, <1>4, UpTo
  <2> QED BY <1>2, <2>1
<1>6. SubSeq(s, 1, n) = s
  BY SubSeqFull
<1> QED BY <1>1, <1>5, <1>6

\* The lines that rows take.
LEMMA LinesOf ==
    ASSUME NEW new \in Seq(NewRow), NEW cols \in Nat \ {0},
           NEW lines, lines = FlattenSeq([i \in DOMAIN new |-> Wrapped(new[i], cols)])
    PROVE  /\ lines \in Seq(Row)
           /\ (\A i \in DOMAIN new : new[i].width < cols) => lines = new
<1> DEFINE seqs == [i \in DOMAIN new |-> Wrapped(new[i], cols)]
<1>1. Len(new) \in Nat /\ DOMAIN new = 1..Len(new) /\ \A i \in 1..Len(new) : new[i] \in NewRow
  OBVIOUS
<1>2. seqs \in Seq(Seq(Row)) /\ Len(seqs) = Len(new)
  <2>1. seqs \in [1..Len(new) -> Seq(Row)]
    BY <1>1, WrappedIs
  <2> HIDE DEF seqs
  <2> QED BY <1>1, <2>1
<1>3. lines = FlattenSeq(seqs)
  OBVIOUS
<1>4. lines \in Seq(Row)
  <2> HIDE DEF seqs
  <2>1. PICK f : Joined(f, seqs, Row) /\ FlattenSeq(seqs) = f[Len(seqs)]
    BY <1>2, FlattenIs
  <2>2. f[Len(seqs)] \in Seq(Row)
    BY <1>1, <1>2, <2>1 DEF Joined
  <2> QED BY <1>3, <2>1, <2>2
<1>5. ASSUME \A i \in DOMAIN new : new[i].width < cols PROVE lines = new
  <2>1. \A i \in 1..Len(new) : seqs[i] = <<new[i]>>
    BY <1>1, <1>5, WrappedIs
  <2>2. new \in Seq(Row)
    BY <1>1, BlankIsRow
  <2> HIDE DEF seqs
  <2> QED BY <1>2, <1>3, <2>1, <2>2, FlattenOne
<1> QED BY <1>4, <1>5

----------------------------------------------------------------------------
(* Printing.                                                               *)

Printing == [rows : Seq(Row), count : Nat, fresh : BOOLEAN, stuck : BOOLEAN, whole : BOOLEAN,
             lines : Nat, cols : Nat \ {0}]
Sound(at) == at \in Printing /\ (at.whole => ~at.stuck)

\* What is printed is on the pad as it is, as long as each row has its line.
Adds(at, new, b) ==
    /\ Sound(b) /\ b.lines = at.lines /\ b.cols = at.cols /\ b.count = at.count + Len(new)
    /\ b.whole => at.whole /\ b.rows = at.rows \o new

LEMMA PrintedAdds ==
    ASSUME NEW at, Sound(at), NEW new \in Seq(NewRow), NEW b, b = Printed(at, new)
    PROVE  Adds(at, new, b)
<1> DEFINE lines == FlattenSeq([i \in DOMAIN new |-> Wrapped(new[i], at.cols)])
           limit == IF at.fresh THEN at.lines - Top ELSE Len(at.rows)
           all == at.rows \o lines
           n == at.count + Len(new)
           narrow == at.whole /\ \A i \in DOMAIN new : new[i].width < at.cols
<1>1. /\ at.rows \in Seq(Row) /\ at.count \in Nat /\ at.fresh \in BOOLEAN /\ at.stuck \in BOOLEAN
      /\ at.whole \in BOOLEAN /\ at.lines \in Nat /\ at.cols \in Nat \ {0} /\ Top = 5
      /\ Len(at.rows) \in Nat /\ Len(new) \in Nat /\ n \in Nat /\ narrow \in BOOLEAN
      /\ at.whole => ~at.stuck
  BY Constants DEF Sound, Printing
<1>2. at = [rows |-> at.rows, count |-> at.count, fresh |-> at.fresh, stuck |-> at.stuck,
            whole |-> at.whole, lines |-> at.lines, cols |-> at.cols]
  BY DEF Sound, Printing
<1>3. lines \in Seq(Row) /\ (narrow => lines = new)
  <2>1. lines \in Seq(Row)
    BY <1>1, LinesOf
  <2>2. (\A i \in DOMAIN new : new[i].width < at.cols) => lines = new
    BY <1>1, LinesOf
  <2> HIDE DEF lines
  <2> QED BY <2>1, <2>2
<1>4. limit \in Int /\ all \in Seq(Row)
  <2> HIDE DEF lines
  <2> QED BY <1>1, <1>3
<1>5. CASE new = <<>>
  <2>1. b = at /\ Len(new) = 0 /\ at.rows \o new = at.rows
    BY <1>1, <1>5 DEF Printed
  <2> QED BY <1>1, <2>1 DEF Adds
<1>6. CASE new # <<>> /\ at.stuck
  <2>1. b = [at EXCEPT !.count = @ + Len(new)]
    BY <1>6 DEF Printed
  <2>2. b = [rows |-> at.rows, count |-> n, fresh |-> at.fresh, stuck |-> at.stuck,
             whole |-> at.whole, lines |-> at.lines, cols |-> at.cols]
    BY <1>2, <2>1
  <2> HIDE DEF n
  <2>3. Sound(b)
    BY <1>1, <2>2 DEF Sound, Printing
  <2> QED BY <1>1, <1>6, <2>2, <2>3 DEF Adds, n
<1>7. CASE new # <<>> /\ ~at.stuck /\ Len(all) > limit
  <2> DEFINE part == SubSeq(all, 1, limit - 1)
  <2>1. b = [at EXCEPT !.count = @ + Len(new), !.rows = part, !.stuck = TRUE, !.whole = FALSE]
    BY <1>7 DEF Printed
  <2>2. part \in Seq(Row)
    <3> HIDE DEF limit, all
    <3>1. Len(all) \in Nat /\ limit - 1 \in Int /\ limit - 1 <= Len(all)
      BY <1>4, <1>7
    <3>2. \A i \in 1..(limit - 1) : all[i] \in Row
      BY <1>4, <3>1
    <3> QED BY <3>1, <3>2, SubSeqProperties
  <2> HIDE DEF part
  <2>3. b = [rows |-> part, count |-> n, fresh |-> at.fresh, stuck |-> TRUE,
             whole |-> FALSE, lines |-> at.lines, cols |-> at.cols]
    BY <1>2, <2>1
  <2> HIDE DEF n
  <2>4. Sound(b)
    BY <1>1, <2>2, <2>3 DEF Sound, Printing
  <2> QED BY <1>1, <2>3, <2>4 DEF Adds, n
<1>8. CASE new # <<>> /\ ~at.stuck /\ ~(Len(all) > limit)
  <2> DEFINE fresh == Len(all) < limit
  <2>1. b = [at EXCEPT !.count = @ + Len(new), !.rows = all, !.fresh = fresh,
                       !.whole = @ /\ \A i \in DOMAIN new : new[i].width < at.cols]
    BY <1>8 DEF Printed
  <2>2. b = [rows |-> all, count |-> n, fresh |-> fresh, stuck |-> at.stuck,
             whole |-> narrow, lines |-> at.lines, cols |-> at.cols]
    <3> HIDE DEF all, fresh
    <3> QED BY <1>2, <2>1
  <2>3. fresh \in BOOLEAN
    OBVIOUS
  <2>4. narrow => at.whole
    OBVIOUS
  <2>5. narrow => all = at.rows \o new
    <3> HIDE DEF lines, narrow
    <3> QED BY <1>3
  <2> HIDE DEF n, all, fresh, narrow
  <2>6. Sound(b)
    BY <1>1, <1>4, <1>8, <2>2, <2>3 DEF Sound, Printing
  <2> QED BY <1>1, <2>2, <2>4, <2>5, <2>6 DEF Adds, n
<1> QED BY <1>5, <1>6, <1>7, <1>8

\* What one process adds: the pad may become larger for it.
AddsRows(at, new, b) ==
    /\ Sound(b) /\ b.lines >= at.lines /\ b.cols >= at.cols /\ b.count = at.count + Len(new)
    /\ b.whole => at.whole /\ b.rows = at.rows \o new

LEMMA ProcessAdds ==
    ASSUME NEW at, Sound(at), NEW q \in Entries, NEW b, b = PrintedProcess(at, q)
    PROVE  AddsRows(at, RowsOf(q), b)
<1> DEFINE rows == RowsOf(q)
           cols == Larger(at.cols, q.width)
           wider == [at EXCEPT !.cols = cols]
           self == Printed(wider, <<Head(rows)>>)
           lines == IF Opened(q) THEN Larger(at.lines, Len(q.conns) + LINE_START + self.count)
                                 ELSE at.lines
           larger == [self EXCEPT !.lines = lines]
<1>1. at.rows \in Seq(Row) /\ at.lines \in Nat /\ at.cols \in Nat \ {0} /\ at.count \in Nat
  BY DEF Sound, Printing
<1>2. CASE rows = <<>>
  <2>1. b = at /\ Len(rows) = 0 /\ at.rows \o rows = at.rows
    BY <1>1, <1>2 DEF PrintedProcess
  <2> QED BY <1>1, <1>2, <2>1 DEF AddsRows
<1>3. CASE rows # <<>>
  <2>1. /\ Head(rows) \in NewRow /\ Tail(rows) \in Seq(NewRow)
        /\ rows = <<Head(rows)>> \o Tail(rows) /\ Len(rows) = 1 + Len(Tail(rows))
    BY <1>3, RowsOfIs
  <2>2. b = Printed(larger, Tail(rows))
    BY <1>3 DEF PrintedProcess
  <2> HIDE DEF rows
  <2>3. /\ <<Head(rows)>> \in Seq(NewRow) /\ Len(<<Head(rows)>>) = 1 /\ Len(Tail(rows)) \in Nat
        /\ <<Head(rows)>> \in Seq(Row) /\ Tail(rows) \in Seq(Row)
    BY <2>1, BlankIsRow
  <2>4. cols \in Nat \ {0} /\ cols >= at.cols
    <3>1. q.width \in Nat \ {0}
      BY EntryIs
    <3> QED BY <1>1, <3>1 DEF Larger
  <2> HIDE DEF cols
  <2>5. /\ Sound(wider) /\ wider.lines = at.lines /\ wider.cols = cols /\ wider.count = at.count
        /\ wider.rows = at.rows /\ wider.whole = at.whole
    BY <2>4 DEF Sound, Printing
  <2> HIDE DEF wider
  <2>6. Adds(wider, <<Head(rows)>>, self)
    BY <2>3, <2>5, PrintedAdds
  <2> HIDE DEF self
  <2>7. /\ Sound(self) /\ self.lines = at.lines /\ self.cols = cols /\ self.count = at.count + 1
        /\ self.whole => at.whole /\ self.rows = at.rows \o <<Head(rows)>>
    BY <2>3, <2>5, <2>6 DEF Adds
  <2>8. lines \in Nat /\ lines >= at.lines
    <3>1. Len(q.conns) \in Nat
      BY EntryIs
    <3>2. Len(q.conns) + LINE_START + self.count \in Nat
      BY <1>1, <2>7, <3>1, Constants
    <3> QED BY <1>1, <3>2 DEF Larger
  <2> HIDE DEF lines
  <2>9. /\ Sound(larger) /\ larger.lines = lines /\ larger.cols = cols
        /\ larger.count = self.count /\ larger.rows = self.rows /\ larger.whole = self.whole
    BY <2>7, <2>8 DEF Sound, Printing
  <2> HIDE DEF larger
  <2>10. Adds(larger, Tail(rows), b)
    BY <2>1, <2>2, <2>9, PrintedAdds
  <2>11. Sound(b) /\ b.lines >= at.lines /\ b.cols >= at.cols /\ b.count = at.count + Len(rows)
    BY <1>1, <2>1, <2>3, <2>4, <2>7, <2>8, <2>9, <2>10 DEF Adds
  <2>12. ASSUME b.whole PROVE at.whole /\ b.rows = at.rows \o rows
    <3>1. at.whole /\ b.rows = (at.rows \o <<Head(rows)>>) \o Tail(rows)
      BY <2>7, <2>9, <2>10, <2>12 DEF Adds
    <3>2. (at.rows \o <<Head(rows)>>) \o Tail(rows) = at.rows \o (<<Head(rows)>> \o Tail(rows))
      BY <1>1, <2>3
    <3> QED BY <2>1, <3>1, <3>2
  <2> QED BY <2>11, <2>12 DEF AddsRows, rows
<1> QED BY <1>2, <1>3

\* What is printed of a whole list; it is the rows of the list, if each had its line.
Prints(s, at) ==
    /\ Sound(at) /\ at.lines >= cur_lines /\ at.cols >= cur_cols /\ at.count = Len(Rows(s))
    /\ at.whole => at.rows = Rows(s)

LEMMA RowsAre ==
    ASSUME NEW s \in Seq(Entries)
    PROVE  \E f : /\ f \in [0..Len(s) -> Seq(NewRow)] /\ f[0] = <<>> /\ Rows(s) = f[Len(s)]
                  /\ \A k \in 1..Len(s) : f[k] = f[k - 1] \o RowsOf(s[k])
<1> DEFINE seqs == [i \in DOMAIN s |-> RowsOf(s[i])]
<1>1. Len(s) \in Nat /\ DOMAIN s = 1..Len(s) /\ \A i \in 1..Len(s) : RowsOf(s[i]) \in Seq(NewRow)
  <2>1. Len(s) \in Nat /\ DOMAIN s = 1..Len(s) /\ \A i \in 1..Len(s) : s[i] \in Entries
    OBVIOUS
  <2>2. \A q \in Entries : RowsOf(q) \in Seq(NewRow)
    BY RowsOfIs
  <2> QED BY <2>1, <2>2
<1>2. seqs \in [1..Len(s) -> Seq(NewRow)] /\ \A i \in 1..Len(s) : seqs[i] = RowsOf(s[i])
  BY <1>1
<1>3. seqs \in Seq(Seq(NewRow)) /\ Len(seqs) = Len(s)
  <2> HIDE DEF seqs
  <2> QED BY <1>1, <1>2
<1>4. Rows(s) = FlattenSeq(seqs)
  BY DEF Rows
<1> HIDE DEF seqs
<1>5. PICK f : Joined(f, seqs, NewRow) /\ FlattenSeq(seqs) = f[Len(seqs)]
  BY <1>3, FlattenIs
<1> QED BY <1>2, <1>3, <1>4, <1>5 DEF Joined

LEMMA ListPrinted ==
    ASSUME NEW s \in Seq(Entries), cur_lines \in Nat, cur_cols \in Nat \ {0}
    PROVE  Prints(s, PrintedList(s))
<1> DEFINE n == Len(s)
           start == [rows |-> <<>>, count |-> 0, fresh |-> TRUE, stuck |-> FALSE, whole |-> TRUE,
                     lines |-> cur_lines, cols |-> cur_cols]
           Good == {at \in Printing : Sound(at)}
           step == [k \in 1..n |-> [at \in Good |-> PrintedProcess(at, s[k])]]
           Eq(g) == g = [k \in 0..n |-> IF k = 0 THEN start ELSE PrintedProcess(g[k - 1], s[k])]
           upto == CHOOSE g : Eq(g)
<1>1. n \in Nat /\ \A k \in 1..n : s[k] \in Entries /\ k - 1 \in 0..n /\ k # 0
  OBVIOUS
<1>2. start \in Good
  <2>1. <<>> \in Seq(Row)
    OBVIOUS
  <2>2. start \in Printing
    BY <2>1 DEF Printing
  <2>3. start.whole => ~start.stuck
    OBVIOUS
  <2> HIDE DEF start
  <2> QED BY <2>2, <2>3 DEF Sound
<1>3. /\ Steps(step, n, Good)
      /\ \A k \in 1..n, at \in Good : step[k][at] = PrintedProcess(at, s[k])
  <2>1. \A k \in 1..n, at \in Good : PrintedProcess(at, s[k]) \in Good
    BY <1>1, ProcessAdds DEF AddsRows, Sound
  <2> HIDE DEF n, Good
  <2> QED BY <2>1 DEF Steps
<1>4. PICK g : Recursion(g, n, Good, start, step)
  <2> HIDE DEF n, start, step, Good
  <2> QED BY <1>1, <1>2, <1>3, RecursionExists
<1>5. /\ g \in [0..n -> Good] /\ g[0] = start
      /\ \A k \in 1..n : g[k] = PrintedProcess(g[k - 1], s[k])
  <2> HIDE DEF n, start, step, Good
  <2> QED BY <1>1, <1>3, <1>4 DEF Recursion
<1>6. Eq(g)
  <2>1. ASSUME NEW k \in 0..n PROVE g[k] = IF k = 0 THEN start ELSE PrintedProcess(g[k - 1], s[k])
    <3>1. k = 0 \/ k \in 1..n
      BY <1>1
    <3> HIDE DEF n, start
    <3> QED BY <1>5, <3>1
  <2> HIDE DEF n, start, Good
  <2> QED BY <1>5, <2>1
<1>7. Eq(upto)
  <2> HIDE DEF Eq
  <2> QED BY <1>6
<1>8. PrintedList(s) = upto[n]
  BY DEF PrintedList
<1> HIDE DEF upto
<1>9. PICK f : /\ f \in [0..n -> Seq(NewRow)] /\ f[0] = <<>> /\ Rows(s) = f[n]
               /\ \A k \in 1..n : f[k] = f[k - 1] \o RowsOf(s[k])
  BY RowsAre
<1> DEFINE So(at, rows) == /\ Sound(at) /\ at.lines >= cur_lines /\ at.cols >= cur_cols
                           /\ at.count = Len(rows) /\ (at.whole => at.rows = rows)
           Q == {k \in 0..n : So(upto[k], f[k])}
<1>10. 0 \in Q
  <2>1. 0 \in 0..n /\ Len(<<>>) = 0
    BY <1>1
  <2>2. upto[0] = start
    <3> HIDE DEF n, start
    <3> QED BY <1>7, <2>1
  <2>3. So(start, <<>>)
    BY <1>2, <2>1
  <2> HIDE DEF So, start, n
  <2> QED BY <1>9, <2>1, <2>2, <2>3
<1>11. ASSUME NEW k \in 1..n, k - 1 \in Q PROVE k \in Q
  <2> DEFINE at == upto[k - 1]
             new == RowsOf(s[k])
             b == upto[k]
  <2>1. /\ k \in 0..n /\ k - 1 \in 0..n /\ k # 0 /\ s[k] \in Entries
        /\ f[k] = f[k - 1] \o new /\ f[k - 1] \in Seq(NewRow) /\ new \in Seq(NewRow)
    <3>1. k \in 0..n
      BY <1>1
    <3> QED BY <1>1, <1>9, <3>1, RowsOfIs
  <2>2. b = PrintedProcess(at, s[k])
    <3> HIDE DEF n, start
    <3> QED BY <1>7, <2>1
  <2>3. So(at, f[k - 1])
    BY <1>11
  <2>4. AddsRows(at, new, b)
    <3> HIDE DEF b, at
    <3> QED BY <2>1, <2>2, <2>3, ProcessAdds
  <2>5. Len(f[k]) = Len(f[k - 1]) + Len(new)
    BY <2>1
  <2>6. /\ at.lines \in Nat /\ b.lines \in Nat /\ at.cols \in Nat /\ b.cols \in Nat
    BY <2>3, <2>4 DEF AddsRows, Printing, Sound
  <2> HIDE DEF at, new, b
  <2>7. So(b, f[k])
    <3>1. b.lines >= cur_lines /\ b.cols >= cur_cols
      BY <2>3, <2>4, <2>6 DEF AddsRows
    <3>2. b.count = Len(f[k])
      BY <2>3, <2>4, <2>5 DEF AddsRows
    <3>3. b.whole => b.rows = f[k]
      BY <2>1, <2>3, <2>4 DEF AddsRows
    <3> QED BY <2>4, <3>1, <3>2, <3>3 DEF AddsRows
  <2> HIDE DEF So, n
  <2> QED BY <2>1, <2>7 DEF b
<1>12. n \in Q
  <2> HIDE DEF Q, n
  <2>1. 0..n \subseteq Q
    BY <1>1, <1>10, <1>11, UpTo
  <2> QED BY <1>1, <2>1
<1>13. So(upto[n], f[n])
  BY <1>12
<1> QED BY <1>8, <1>9, <1>13 DEF Prints

----------------------------------------------------------------------------
(* The inductive invariant.                                                *)

TypeOK ==
    /\ list \in Seq(Entries) /\ sort_by \in 0..6
    /\ cur_lines \in Nat /\ cur_lines > Top /\ cur_cols \in Nat \ {0}
    /\ pad \in [Top..(cur_lines - 1) -> Row] /\ line_original \in Row
    /\ sheet \in [Top..(cur_lines - 1) -> Row]
    /\ tot_rows \in Nat /\ selected \in Nat /\ selected >= Top
    /\ scroll_y \in Nat /\ scroll_y <= MaxScroll /\ scroll_x \in Nat
    /\ whole \in BOOLEAN /\ stray \in Nat /\ pulled \in Nat

\* Behind what the keys do to the lines: the copy is what the refresh has printed in
\* the selected one, unless the cursor has not moved since a refresh that left it
\* where there is nothing to choose from.
CopyTrue ==
    /\ stray # 0 => tot_rows <= Top /\ selected <= stray
    /\ Fits /\ selected # stray /\ (tot_rows > Top \/ stray # 0) =>
         line_original = Cut(sheet[selected], cur_cols)

SInv == TypeOK /\ CursorSeen /\ HiddenIdle /\ RowsTrue /\ OnePainted /\ CopyTrue

\* A copy of a copy is the copy.
LEMMA CutTwice ==
    ASSUME NEW t \in Row, NEW cols \in Nat \ {0}
    PROVE  Cut(t, cols) \in Row /\ Cut(Cut(t, cols), cols) = Cut(t, cols)
<1> DEFINE width == Smaller(t.width, cols - 1)
<1>1. t = [of |-> t.of, from |-> t.from, width |-> t.width]
      /\ t.of \in Word /\ t.from \in Int /\ t.width \in Int
  BY DEF Row
<1>2. width \in Int /\ Smaller(width, cols - 1) = width
  BY <1>1 DEF Smaller
<1> HIDE DEF width
<1>3. Cut(t, cols) = [of |-> t.of, from |-> t.from, width |-> width]
  BY <1>1 DEF Cut, width
<1>4. Cut(t, cols) \in Row
  BY <1>1, <1>2, <1>3 DEF Row
<1>5. Cut(Cut(t, cols), cols) = Cut(t, cols)
  <2>1. PICK u : u = Cut(t, cols)
    OBVIOUS
  <2>2. u = [of |-> t.of, from |-> t.from, width |-> width] /\ u.width = width
    BY <1>3, <2>1
  <2>3. Cut(u, cols) = [u EXCEPT !.width = width]
    BY <1>2, <2>2 DEF Cut
  <2>4. Cut(u, cols) = u
    BY <2>2, <2>3
  <2> QED BY <2>1, <2>4
<1> QED BY <1>4, <1>5

LEMMA InitInv == Init => SInv
<1> SUFFICES ASSUME Init PROVE SInv
  OBVIOUS
<1>1. Blank \in Row /\ Mixed \in Row /\ list = <<>> /\ RATE_RX \in 0..6
  BY BlankIsRow DEF Init, RATE_RX
<1>2. cur_lines \in Nat /\ cur_lines > Top /\ cur_cols \in Nat \ {0}
  BY Constants DEF Init, Larger
<1>3. TypeOK
  BY <1>1, <1>2, Constants DEF Init, TypeOK
<1>4. CursorSeen
  BY <1>2, Constants DEF Init, CursorSeen, Larger
<1>5. HiddenIdle
  BY <1>1 DEF HiddenIdle
<1>6. RowsTrue
  <2>1. Rows(<<>>) = <<>>
    <3>1. <<>> \in Seq(Entries) /\ Len(<<>>) = 0
      OBVIOUS
    <3> QED BY <3>1, RowsAre
  <2>2. DOMAIN Rows(list) = {}
    BY <1>1, <2>1
  <2>3. pad = sheet /\ \A r \in DOMAIN sheet : sheet[r] = Blank
    BY DEF Init
  <2> QED BY <2>2, <2>3 DEF RowsTrue
<1>7. OnePainted
  BY Constants DEF Init, OnePainted, Larger
<1>8. CopyTrue
  BY <1>2, Constants DEF Init, CopyTrue
<1> QED BY <1>3, <1>4, <1>5, <1>6, <1>7, <1>8 DEF SInv

\* What keys leave alone as long as they do not touch the rows.
LEMMA RowsKept ==
    ASSUME SInv, UNCHANGED <<list, sorted_by, cur_lines, cur_cols, tot_rows, sheet, whole, stray>>,
           UNCHANGED <<pad, painted, line_original, selected>>
    PROVE  HiddenIdle' /\ RowsTrue' /\ OnePainted' /\ CopyTrue'
BY DEF SInv, HiddenIdle, RowsTrue, OnePainted, CopyTrue, Fits, Opened, Busy

LEMMA SortKeyKeeps == SInv /\ SortKey => SInv'
<1> SUFFICES ASSUME SInv, SortKey PROVE SInv'
  OBVIOUS
<1>1. UNCHANGED <<list, sorted_by, cur_lines, cur_cols, tot_rows, sheet, whole, stray>>
  BY DEF SortKey, shown, size, past
<1>2. /\ UNCHANGED <<pad, painted, line_original, selected>>
      /\ UNCHANGED <<scroll_y, scroll_x, pulled>>
  BY DEF SortKey, shown, size, past
<1>3. sort_by' \in 0..6
  <2>1. sort_by \in Nat
    BY DEF SInv, TypeOK
  <2> QED BY <2>1, SMTT(30) DEF SortKey, COLS_TO_SORT
<1>4. TypeOK'
  BY <1>1, <1>2, <1>3 DEF SInv, TypeOK
<1>5. CursorSeen'
  BY <1>1, <1>2 DEF SInv, CursorSeen
<1> QED BY <1>1, <1>2, <1>4, <1>5, RowsKept DEF SInv

\* KEY_RIGHT and KEY_LEFT move by some of the columns there are.
LEMMA StepXIs ==
    ASSUME NEW room \in Int, StepX(room) # {}, NEW m, m = Max(StepX(room))
    PROVE  m \in 1..5 /\ m <= room
<1> DEFINE S == StepX(room)
<1>1. S \subseteq 1..5 /\ S \subseteq Int /\ \A i \in S : i <= room
  BY DEF StepX
<1>2. IsFiniteSet(S)
  <2> HIDE DEF S
  <2>1. IsFiniteSet(1..5)
    <3>1. \A n \in Nat : IsFiniteSet(1..n)
      BY FS_Interval
    <3> QED BY <3>1
  <2> QED BY <1>1, <2>1, FS_Subset
<1>3. m \in S
  <2>1. S # {} /\ m = Max(S)
    OBVIOUS
  <2> HIDE DEF S
  <2> QED BY <1>1, <1>2, <2>1, MaxIs
<1> QED BY <1>1, <1>3

LEMMA SlideKeeps ==
    ASSUME SInv, NEW x \in Nat, Slide(x), x <= Larger(0, cur_cols - COLS) PROVE SInv'
<1>1. UNCHANGED <<list, sorted_by, cur_lines, cur_cols, tot_rows, sheet, whole, stray>>
  BY DEF Slide, shown, size, past
<1>2. /\ UNCHANGED <<pad, painted, line_original, selected>>
      /\ UNCHANGED <<scroll_y, sort_by, pulled>> /\ scroll_x' = x
  BY DEF Slide, shown, size, past
<1>4. TypeOK'
  BY <1>1, <1>2 DEF SInv, TypeOK
<1>5. CursorSeen'
  <2>1. cur_cols - COLS \in Int
    BY Constants DEF SInv, TypeOK
  <2>2. x \in 0..Larger(0, cur_cols - COLS)
    BY <2>1 DEF Larger
  <2> QED BY <1>1, <1>2, <2>2 DEF SInv, CursorSeen
<1> QED BY <1>1, <1>2, <1>4, <1>5, RowsKept DEF SInv

LEMMA RightKeeps == SInv /\ Right => SInv'
<1> SUFFICES ASSUME SInv, Right PROVE SInv'
  OBVIOUS
<1> DEFINE room == cur_cols - COLS - scroll_x
           m == Max(StepX(room))
<1>1. cur_cols \in Nat /\ COLS \in Nat /\ scroll_x \in Nat
  BY Constants DEF SInv, TypeOK
<1>2. StepX(room) # {} /\ Slide(scroll_x + m)
  BY DEF Right
<1>3. m \in 1..5 /\ m <= room
  <2>1. room \in Int
    BY <1>1
  <2> HIDE DEF room
  <2> QED BY <1>2, <2>1, StepXIs
<1> HIDE DEF m
<1>4. scroll_x + m \in Nat /\ scroll_x + m <= Larger(0, cur_cols - COLS)
  BY <1>1, <1>3 DEF Larger
<1> QED BY <1>2, <1>4, SlideKeeps

LEMMA LeftKeeps == SInv /\ Left => SInv'
<1> SUFFICES ASSUME SInv, Left PROVE SInv'
  OBVIOUS
<1> DEFINE m == Max(StepX(scroll_x))
<1>1. cur_cols \in Nat /\ COLS \in Nat /\ scroll_x \in Nat
  BY Constants DEF SInv, TypeOK
<1>2. StepX(scroll_x) # {} /\ Slide(scroll_x - m)
  BY DEF Left
<1>3. m \in 1..5 /\ m <= scroll_x
  BY <1>1, <1>2, StepXIs
<1> HIDE DEF m
<1>4. scroll_x - m \in Nat /\ scroll_x - m <= Larger(0, cur_cols - COLS)
  BY <1>1, <1>3 DEF SInv, CursorSeen, Larger
<1> QED BY <1>2, <1>4, SlideKeeps

\* The cursor goes one row up or down, to a line a refresh has printed.
LEMMA MoveKeeps ==
    ASSUME SInv, NEW to \in Nat, to >= Top, to # selected, to # stray, Move(selected, to),
           stray # 0 => to <= stray,
           Fits => (tot_rows > Top \/ stray # 0) /\ to <= Larger(Top, Larger(tot_rows, stray))
    PROVE  /\ pad' \in [Top..(cur_lines - 1) -> Row] /\ line_original' \in Row
           /\ HiddenIdle' /\ RowsTrue' /\ OnePainted' /\ CopyTrue'
<1> DEFINE w == Restore(Paper, selected, cur_lines)
           v == Paint(w, to, cur_lines, cur_cols)
<1>1. /\ UNCHANGED <<list, sorted_by, cur_lines, cur_cols, tot_rows, sheet, whole, stray>>
      /\ selected' = to /\ pad' = v.pad /\ painted' = v.painted /\ line_original' = v.copy
  BY DEF Move, shown, size, past, Becomes
<1>2. /\ pad \in [Top..(cur_lines - 1) -> Row] /\ line_original \in Row
      /\ sheet \in [Top..(cur_lines - 1) -> Row] /\ cur_lines \in Nat /\ cur_lines > Top
      /\ cur_cols \in Nat \ {0} /\ stray \in Nat
      /\ tot_rows \in Nat /\ selected \in Nat /\ selected >= Top /\ Top = 5 /\ Mixed \in Row
  BY Constants, BlankIsRow DEF SInv, TypeOK
<1>3. /\ w.pad = IF OnPad(selected, cur_lines) THEN [pad EXCEPT ![selected] = line_original]
                                               ELSE pad
      /\ w.painted = IF OnPad(selected, cur_lines) THEN painted \ {selected} ELSE painted
      /\ w.copy = line_original
  <2>1. CASE OnPad(selected, cur_lines)
    <3>1. w = [pad |-> [pad EXCEPT ![selected] = line_original],
               painted |-> painted \ {selected}, copy |-> line_original]
      BY <2>1 DEF Restore, Paper
    <3> HIDE DEF w
    <3> QED BY <2>1, <3>1
  <2>2. CASE ~OnPad(selected, cur_lines)
    <3>1. w = [pad |-> pad, painted |-> painted, copy |-> line_original]
      BY <2>2 DEF Restore, Paper
    <3> HIDE DEF w
    <3> QED BY <2>2, <3>1
  <2> QED BY <2>1, <2>2
<1> HIDE DEF w
<1>4. w.pad \in [Top..(cur_lines - 1) -> Row] /\ w.copy \in Row
  BY <1>2, <1>3
<1>5. CASE OnPad(to, cur_lines)
  <2>1. v = [pad |-> [w.pad EXCEPT ![to] = Cut(w.pad[to], cur_cols)],
             painted |-> w.painted \cup {to}, copy |-> Cut(w.pad[to], cur_cols)]
    BY <1>5 DEF Paint
  <2> HIDE DEF v
  <2>2. /\ pad' = [w.pad EXCEPT ![to] = Cut(w.pad[to], cur_cols)]
        /\ painted' = w.painted \cup {to} /\ line_original' = Cut(w.pad[to], cur_cols)
    BY <1>1, <2>1
  <2>3. to \in Top..(cur_lines - 1) /\ w.pad[to] \in Row
    BY <1>4, <1>5 DEF OnPad
  <2>4. Cut(w.pad[to], cur_cols) \in Row
    BY <1>2, <2>3, CutTwice
  <2>5. pad' \in [Top..(cur_lines - 1) -> Row] /\ line_original' \in Row
    BY <1>4, <2>2, <2>4
  <2>6. ASSUME Fits
        PROVE  /\ \A r \in DOMAIN pad' \ {stray} : pad'[r] \in {sheet[r], Cut(sheet[r], cur_cols)}
               /\ line_original' = Cut(sheet[to], cur_cols) /\ painted' = {to}
    <3>1. OnPad(selected, cur_lines) /\ painted \subseteq {selected}
          /\ \A r \in DOMAIN pad \ {stray} : pad[r] \in {sheet[r], Cut(sheet[r], cur_cols)}
      <4>1. selected <= Larger(Top, Larger(tot_rows, stray)) /\ painted \subseteq {selected}
        BY <1>2, <2>6 DEF SInv, OnePainted, Larger
      <4>2. selected < cur_lines
        BY <1>2, <2>6, <4>1 DEF Fits, Larger
      <4> QED BY <1>2, <2>6, <4>1, <4>2 DEF SInv, RowsTrue, OnPad
    <3>2. w.pad = [pad EXCEPT ![selected] = line_original] /\ w.painted = {}
      BY <1>3, <3>1
    <3>3. w.pad[to] = pad[to] /\ pad[to] \in {sheet[to], Cut(sheet[to], cur_cols)}
          /\ sheet[to] \in Row
      BY <1>2, <2>3, <3>1, <3>2
    <3>4. Cut(w.pad[to], cur_cols) = Cut(sheet[to], cur_cols)
      BY <1>2, <3>3, CutTwice
    <3>5. selected # stray => line_original = Cut(sheet[selected], cur_cols)
      BY <2>6 DEF SInv, CopyTrue
    <3>6. ASSUME NEW r \in DOMAIN pad' \ {stray}
          PROVE  pad'[r] \in {sheet[r], Cut(sheet[r], cur_cols)}
      <4>1. r \in Top..(cur_lines - 1) /\ r \in DOMAIN pad \ {stray}
        BY <1>2, <2>5, <3>6
      <4>2. CASE r = to
        BY <1>4, <2>2, <2>3, <3>4, <4>2
      <4>3. CASE r # to /\ r = selected
        <5>1. pad'[r] = line_original /\ selected # stray
          BY <1>2, <2>2, <3>2, <4>1, <4>3
        <5> QED BY <3>5, <4>3, <5>1
      <4>4. CASE r # to /\ r # selected
        <5>1. pad'[r] = pad[r]
          BY <1>2, <2>2, <3>2, <4>1, <4>4
        <5> QED BY <3>1, <4>1, <5>1
      <4> QED BY <4>2, <4>3, <4>4
    <3> QED BY <2>2, <3>2, <3>4, <3>6
  <2> QED BY <1>1, <1>2, <2>5, <2>6
          DEF SInv, HiddenIdle, RowsTrue, OnePainted, CopyTrue, Fits, Opened, Busy, Larger
<1>6. CASE ~OnPad(to, cur_lines)
  <2>1. v = [pad |-> [s \in DOMAIN w.pad |-> Mixed], painted |-> DOMAIN w.pad, copy |-> w.copy]
    BY <1>6 DEF Paint
  <2> HIDE DEF v
  <2>2. pad' \in [Top..(cur_lines - 1) -> Row] /\ line_original' \in Row
    BY <1>1, <1>2, <1>4, <2>1
  <2>3. ~Fits
    <3>1. Fits => to < cur_lines
      BY <1>2 DEF Fits, Larger
    <3> QED BY <1>2, <1>6, <3>1 DEF OnPad
  <2> QED BY <1>1, <1>2, <2>2, <2>3
          DEF SInv, HiddenIdle, RowsTrue, OnePainted, CopyTrue, Fits, Opened, Busy
<1> QED BY <1>5, <1>6

LEMMA DownKeeps == SInv /\ Down => SInv'
<1> SUFFICES ASSUME SInv, Down PROVE SInv'
  OBVIOUS
<1>1. TypeOK /\ Top = 5 /\ LINES \in Nat /\ LINES > 6
  BY Constants DEF SInv
<1>2. selected + 1 \in Nat /\ selected + 1 >= Top /\ selected + 1 <= tot_rows /\ tot_rows > Top
  BY <1>1 DEF TypeOK, Down
<1>3. /\ Move(selected, selected + 1) /\ scroll_y' <= MaxScroll
      /\ scroll_y' = IF selected + 1 >= LINES - 1 THEN scroll_y + 1 ELSE scroll_y
  BY DEF Down
<1>4. stray = 0
  BY <1>1, <1>2 DEF TypeOK, SInv, CopyTrue
<1>5. /\ pad' \in [Top..(cur_lines - 1) -> Row] /\ line_original' \in Row
      /\ HiddenIdle' /\ RowsTrue' /\ OnePainted' /\ CopyTrue'
  <2>1. selected + 1 # selected /\ selected + 1 # stray
    BY <1>1, <1>2, <1>4 DEF TypeOK
  <2>2. selected + 1 <= Larger(Top, Larger(tot_rows, stray))
    BY <1>1, <1>2, <1>4 DEF TypeOK, Larger
  <2> QED BY <1>2, <1>3, <1>4, <2>1, <2>2, MoveKeeps
<1>6. /\ UNCHANGED <<list, cur_lines, cur_cols, tot_rows, scroll_x, sort_by>>
      /\ UNCHANGED <<sheet, whole, stray, pulled>> /\ selected' = selected + 1
  BY <1>3 DEF Move, shown, size, past
<1>7. scroll_y' \in Nat
  BY <1>1, <1>3 DEF TypeOK
<1>8. TypeOK'
  BY <1>1, <1>2, <1>3, <1>5, <1>6, <1>7 DEF TypeOK
<1>9. CursorSeen'
  <2> DEFINE first(y) == Top + Larger(0, y - (LINES - 2))
  <2>1. /\ scroll_y >= first(selected) /\ scroll_y <= first(selected) + pulled
        /\ scroll_x \in 0..Larger(0, cur_cols - COLS)
    BY <1>1 DEF SInv, CursorSeen, TypeOK, Larger
  <2>2. scroll_y' \in first(selected + 1)..(first(selected + 1) + pulled)
    BY <1>1, <1>3, <2>1 DEF TypeOK, Larger
  <2> QED BY <1>6, <2>1, <2>2 DEF CursorSeen
<1> QED BY <1>5, <1>8, <1>9 DEF SInv

LEMMA UpKeeps == SInv /\ Up => SInv'
<1> SUFFICES ASSUME SInv, Up PROVE SInv'
  OBVIOUS
<1>1. TypeOK /\ Top = 5 /\ LINE_START = 4 /\ LINES \in Nat /\ LINES > 6
  BY Constants DEF SInv
<1>2. selected - 1 \in Nat /\ selected - 1 >= Top /\ selected > Top
  BY <1>1 DEF TypeOK, Up
<1>3. /\ Move(selected, selected - 1)
      /\ scroll_y' = IF scroll_y > 5 THEN scroll_y - 1 ELSE scroll_y
  BY <1>1 DEF Up
<1>4. stray # 0 => selected <= stray
  BY DEF SInv, CopyTrue
<1>5. /\ pad' \in [Top..(cur_lines - 1) -> Row] /\ line_original' \in Row
      /\ HiddenIdle' /\ RowsTrue' /\ OnePainted' /\ CopyTrue'
  <2>1. /\ selected - 1 # selected /\ selected - 1 # stray
        /\ stray # 0 => selected - 1 <= stray
    BY <1>1, <1>2, <1>4 DEF TypeOK
  <2>2. ASSUME Fits PROVE selected <= Larger(Top, Larger(tot_rows, stray))
    BY <1>1, <2>2 DEF SInv, OnePainted, TypeOK, Larger
  <2>3. ASSUME Fits
        PROVE  /\ tot_rows > Top \/ stray # 0
               /\ selected - 1 <= Larger(Top, Larger(tot_rows, stray))
    BY <1>1, <1>2, <2>2, <2>3 DEF TypeOK, Larger
  <2> QED BY <1>2, <1>3, <2>1, <2>3, MoveKeeps
<1>6. /\ UNCHANGED <<list, cur_lines, cur_cols, tot_rows, scroll_x, sort_by>>
      /\ UNCHANGED <<sheet, whole, stray, pulled>> /\ selected' = selected - 1
  BY <1>3 DEF Move, shown, size, past
<1>7. scroll_y' \in Nat /\ scroll_y' <= MaxScroll
  BY <1>1, <1>3, Constants DEF TypeOK
<1>8. TypeOK'
  BY <1>1, <1>2, <1>5, <1>6, <1>7 DEF TypeOK
<1>9. CursorSeen'
  <2> DEFINE first(y) == Top + Larger(0, y - (LINES - 2))
  <2>1. /\ scroll_y >= first(selected) /\ scroll_y <= first(selected) + pulled
        /\ scroll_x \in 0..Larger(0, cur_cols - COLS)
    BY <1>1 DEF SInv, CursorSeen, TypeOK, Larger
  <2>2. scroll_y' \in first(selected - 1)..(first(selected - 1) + pulled)
    BY <1>1, <1>3, <2>1 DEF TypeOK, Larger
  <2> QED BY <1>6, <2>1, <2>2 DEF CursorSeen
<1> QED BY <1>5, <1>8, <1>9 DEF SInv

\* show_connections() hides only what has nothing in the column sorted by.
LEMMA HidesIdle ==
    ASSUME NEW order, NEW mode, SortedBy(order, mode), NEW i \in DOMAIN order, Opened(order[i]),
           NEW j \in (Len(ShownConnections(order[i].conns)) + 1)..Len(order[i].conns)
    PROVE  ConnectionColumn(order[i].conns[j], ConnectionMode(mode)) = 0
<1> DEFINE cs == order[i].conns
<1>1. i \in 1..Len(order) /\ order[i] \in Entries /\ view_conections
  BY DEF SortedBy, Opened
<1>2. cs \in Seq(Conns)
  BY <1>1, EntryIs
<1>3. \A x, y \in 1..Len(cs) :
        x < y => ConnectionColumn(cs[x], mode) >= ConnectionColumn(cs[y], mode)
  BY <1>1 DEF SortedBy
<1>4. ConnectionColumn(cs[j], mode) = 0
  <2> HIDE DEF cs
  <2>1. j \in (Len(ShownConnections(cs)) + 1)..Len(cs)
    BY DEF cs
  <2> QED BY <1>2, <1>3, <2>1, BehindSilent
<1>5. ConnectionMode(ConnectionMode(mode)) = ConnectionMode(mode)
  BY DEF ConnectionMode, PPS_TX, PPS_RX, RATE_TX, RATE_RX
<1> QED BY <1>4, <1>5 DEF ConnectionColumn

LEMMA ShowKeeps ==
    ASSUME SInv, NEW order, SortedBy(order, sort_by), Show(order) PROVE SInv'
<1>1. PICK at : at = PrintedList(order)
  OBVIOUS
<1>2. /\ TypeOK /\ Top = 5 /\ LINE_START = 4 /\ LINES \in Nat /\ LINES > 6
      /\ order \in Seq(Entries) /\ Blank \in Row /\ Mixed \in Row
  BY Constants, BlankIsRow DEF SInv, SortedBy
<1>3. Prints(order, at)
  BY <1>1, <1>2, ListPrinted DEF TypeOK
<1>4. /\ at.rows \in Seq(Row) /\ at.count \in Nat /\ at.whole \in BOOLEAN /\ at.lines \in Nat
      /\ at.lines > Top /\ at.cols \in Nat \ {0} /\ at.cols >= cur_cols
      /\ at.whole => ~at.stuck
  BY <1>2, <1>3 DEF Prints, Sound, Printing, TypeOK
<1>5. PICK rows : rows = 4 + at.count
  OBVIOUS
<1>6. PICK within : within = IF rows > 5 /\ selected > rows THEN rows ELSE selected
  OBVIOUS
<1>7. PICK new : new = Sheet(at)
  OBVIOUS
<1>8. PICK copy : copy = IF at.cols = cur_cols THEN line_original ELSE Mixed
  OBVIOUS
<1> DEFINE printed == [pad |-> new, painted |-> {}, copy |-> copy]
           v == IF rows > 5 THEN Paint(printed, within, at.lines, at.cols) ELSE printed
<1>9. /\ list' = order /\ sorted_by' = ConnectionMode(sort_by) /\ tot_rows' = rows
      /\ cur_lines' = at.lines /\ cur_cols' = at.cols /\ sheet' = new
      /\ selected' = within /\ whole' = at.whole
      /\ stray' = (IF rows <= 5 /\ selected > 5 THEN selected ELSE 0)
      /\ pulled' = Smaller(pulled + (selected - within), MaxScroll - 5)
      /\ UNCHANGED <<scroll_y, scroll_x, sort_by>>
  BY <1>1, <1>2, <1>5, <1>6, <1>7 DEF Show
<1>10. pad' = v.pad /\ painted' = v.painted /\ line_original' = v.copy
  BY <1>1, <1>2, <1>5, <1>6, <1>7, <1>8 DEF Show, Becomes
<1>11. /\ new \in [Top..(at.lines - 1) -> Row] /\ copy \in Row
       /\ \A r \in DOMAIN new : new[r] = IF r - LINE_START \in DOMAIN at.rows
                                         THEN at.rows[r - LINE_START]
                                         ELSE IF at.stuck THEN Mixed ELSE Blank
  <2>1. \A r \in DOMAIN at.rows : at.rows[r] \in Row
    BY <1>4
  <2> QED BY <1>2, <1>7, <1>8, <2>1 DEF Sheet, TypeOK
<1>12. /\ rows \in Nat /\ selected \in Nat /\ selected >= 5 /\ within \in Nat /\ within >= 5
       /\ within <= selected /\ (rows > 5 => within <= rows)
  <2>1. rows \in Nat /\ selected \in Nat /\ selected >= 5
    BY <1>2, <1>4, <1>5 DEF TypeOK
  <2>2. within \in Nat /\ within >= 5 /\ within <= selected /\ (rows > 5 => within <= rows)
    BY <1>6, <2>1
  <2> QED BY <2>1, <2>2
<1>13. /\ pad' \in [Top..(at.lines - 1) -> Row] /\ line_original' \in Row
       /\ rows > 5 /\ OnPad(within, at.lines) =>
            /\ pad' = [new EXCEPT ![within] = Cut(new[within], at.cols)]
            /\ painted' = {within} /\ line_original' = Cut(new[within], at.cols)
       /\ ~(rows > 5) => pad' = new /\ painted' = {}
  <2>1. CASE rows > 5 /\ OnPad(within, at.lines)
    <3>1. v = [pad |-> [new EXCEPT ![within] = Cut(new[within], at.cols)],
               painted |-> {within}, copy |-> Cut(new[within], at.cols)]
      BY <2>1 DEF Paint
    <3> HIDE DEF v, printed
    <3>2. /\ pad' = [new EXCEPT ![within] = Cut(new[within], at.cols)] /\ painted' = {within}
          /\ line_original' = Cut(new[within], at.cols)
      BY <1>10, <3>1
    <3>3. within \in DOMAIN new /\ new[within] \in Row
      BY <1>11, <2>1 DEF OnPad
    <3>4. Cut(new[within], at.cols) \in Row
      BY <1>4, <3>3, CutTwice
    <3> QED BY <1>11, <2>1, <3>2, <3>3, <3>4
  <2>2. CASE rows > 5 /\ ~OnPad(within, at.lines)
    <3>1. v = [pad |-> [s \in DOMAIN new |-> Mixed], painted |-> DOMAIN new, copy |-> copy]
      BY <2>2 DEF Paint
    <3> HIDE DEF v, printed
    <3> QED BY <1>2, <1>10, <1>11, <2>2, <3>1
  <2>3. CASE ~(rows > 5)
    <3>1. v = printed
      BY <2>3
    <3> HIDE DEF v
    <3> QED BY <1>10, <1>11, <2>3, <3>1
  <2> QED BY <2>1, <2>2, <2>3
<1> HIDE DEF v, printed
<1>14. TypeOK'
  <2>1. stray' \in Nat
    BY <1>9, <1>12
  <2>2. pulled' \in Nat
    <3>1. pulled \in Nat /\ MaxScroll - 5 \in Nat /\ selected - within \in Nat
      BY <1>2, <1>12, Constants DEF TypeOK
    <3> QED BY <1>9, <3>1 DEF Smaller
  <2> QED BY <1>2, <1>4, <1>9, <1>11, <1>12, <1>13, <2>1, <2>2 DEF TypeOK
<1>15. CursorSeen'
  <2> DEFINE first(y) == Top + Larger(0, y - (LINES - 2))
  <2>1. /\ scroll_y >= first(selected) /\ scroll_y <= first(selected) + pulled
        /\ scroll_y <= MaxScroll /\ scroll_x \in 0..Larger(0, cur_cols - COLS)
    BY <1>2 DEF SInv, CursorSeen, TypeOK, Larger
  <2>2. PICK p : p = pulled'
    OBVIOUS
  <2>3. scroll_y \in first(within)..(first(within) + p)
    <3>1. p = Smaller(pulled + (selected - within), MaxScroll - 5)
      BY <1>9, <2>2
    <3>2. /\ pulled \in Nat /\ MaxScroll \in Nat /\ MaxScroll > 5 /\ scroll_y \in Nat
          /\ LINES \in Nat
      BY <1>2, Constants DEF TypeOK
    <3> QED BY <1>2, <1>12, <2>1, <3>1, <3>2 DEF Larger, Smaller
  <2>4. scroll_x \in 0..Larger(0, at.cols - COLS)
    <3>1. cur_cols \in Nat /\ COLS \in Nat /\ scroll_x \in Nat
      BY <1>2, Constants DEF TypeOK
    <3> QED BY <1>4, <2>1, <3>1 DEF Larger
  <2> QED BY <1>9, <2>2, <2>3, <2>4 DEF CursorSeen
<1>16. HiddenIdle'
  <2>1. ASSUME NEW i \in DOMAIN order, Opened(order[i]),
               NEW j \in (Len(ShownConnections(order[i].conns)) + 1)..Len(order[i].conns)
        PROVE  ConnectionColumn(order[i].conns[j], ConnectionMode(sort_by)) = 0
    BY <2>1, HidesIdle
  <2> QED BY <1>9, <2>1 DEF HiddenIdle, Opened, Busy
<1>17. ASSUME Fits'
       PROVE  /\ rows < at.lines /\ (rows > 5 => OnPad(within, at.lines))
              /\ rows <= 5 /\ selected > 5 => selected < at.lines
  <2>1. PICK s : s = stray'
    OBVIOUS
  <2>2. Larger(rows, s) < at.lines /\ s = (IF rows <= 5 /\ selected > 5 THEN selected ELSE 0)
    BY <1>9, <1>17, <2>1 DEF Fits
  <2>3. rows < at.lines /\ (rows <= 5 /\ selected > 5 => selected < at.lines)
    BY <1>4, <1>12, <2>2 DEF Larger
  <2> QED BY <1>2, <1>4, <1>12, <2>3 DEF OnPad
<1>18. RowsTrue'
  <2>1. ASSUME Fits', NEW r \in DOMAIN pad' \ {stray'}
        PROVE  pad'[r] \in {new[r], Cut(new[r], at.cols)}
    <3>1. r \in DOMAIN new
      BY <1>11, <1>13, <2>1
    <3>2. CASE rows > 5
      BY <1>11, <1>13, <1>17, <2>1, <3>1, <3>2
    <3>3. CASE ~(rows > 5)
      BY <1>13, <3>3
    <3> QED BY <3>2, <3>3
  <2>2. ASSUME at.whole, NEW r \in DOMAIN new
        PROVE  new[r] = IF r - LINE_START \in DOMAIN Rows(order)
                        THEN Rows(order)[r - LINE_START] ELSE Blank
    <3>1. at.rows = Rows(order) /\ ~at.stuck
      BY <1>3, <1>4, <2>2 DEF Prints
    <3> QED BY <1>11, <2>2, <3>1
  <2> QED BY <1>9, <2>1, <2>2 DEF RowsTrue
<1>19. OnePainted'
  <2>1. ASSUME Fits'
        PROVE  /\ painted' \subseteq {within} /\ (rows > Top => painted' = {within})
               /\ within \in Top..Larger(Top, Larger(rows, stray'))
    <3>1. PICK s : s = stray'
      OBVIOUS
    <3>2. s = (IF rows <= 5 /\ selected > 5 THEN selected ELSE 0)
      BY <1>9, <3>1
    <3>3. within \in Top..Larger(Top, Larger(rows, s))
      BY <1>2, <1>6, <1>12, <3>2 DEF Larger
    <3>4. painted' \subseteq {within} /\ (rows > Top => painted' = {within})
      BY <1>2, <1>12, <1>13, <1>17, <2>1
    <3> QED BY <3>1, <3>3, <3>4
  <2> QED BY <1>9, <2>1 DEF OnePainted
<1>20. CopyTrue'
  <2>1. PICK s : s = stray'
    OBVIOUS
  <2>2. s = (IF rows <= 5 /\ selected > 5 THEN selected ELSE 0)
    BY <1>9, <2>1
  <2>3. s # 0 => rows <= Top /\ within <= s
    BY <1>2, <1>6, <1>12, <2>2
  <2>4. ASSUME Fits', within # s, rows > Top \/ s # 0
        PROVE  line_original' = Cut(new[within], at.cols)
    <3>1. rows > 5
      BY <1>2, <1>6, <1>12, <2>2, <2>4
    <3> QED BY <1>13, <1>17, <2>4, <3>1
  <2> QED BY <1>9, <2>1, <2>3, <2>4 DEF CopyTrue
<1> QED BY <1>14, <1>15, <1>16, <1>18, <1>19, <1>20 DEF SInv

----------------------------------------------------------------------------
THEOREM InvariantHolds == Spec => []SInv
<1>1. ASSUME SInv, NEW ps \in Lists, NEW order \in Sortings[ps][sort_by], Show(order) PROVE SInv'
  <2>1. sort_by \in 0..(COLS_TO_SORT - 1)
    BY <1>1 DEF SInv, TypeOK, COLS_TO_SORT
  <2>2. Sortings[ps][sort_by] = Orders(ps, sort_by)
    BY <2>1 DEF Sortings
  <2>3. SortedBy(order, sort_by)
    BY <2>2, OrdersSorted
  <2> QED BY <1>1, <2>3, ShowKeeps
<1>2. SInv /\ Next => SInv'
  BY <1>1, DownKeeps, UpKeeps, RightKeeps, LeftKeeps, SortKeyKeeps DEF Next
<1>3. SInv /\ UNCHANGED vars => SInv'
  <2> SUFFICES ASSUME SInv, UNCHANGED vars PROVE SInv'
    OBVIOUS
  <2>1. TypeOK' /\ CursorSeen'
    BY DEF SInv, vars, TypeOK, CursorSeen
  <2> QED BY <2>1, RowsKept DEF SInv, vars
<1> QED BY InitInv, <1>2, <1>3, PTL DEF Spec

\* For any terminal, pad and lists, with rows of any width: moving the cursor puts
\* each line back as the refresh printed it but for its last column, save one where
\* a refresh has left the cursor below its list; and where each row had a line of
\* its own these lines are the list (tui.c, paint_selected() and restore_line()).
THEOREM RowsAlwaysTrue == Spec => []RowsTrue
<1>1. SInv => RowsTrue
  BY DEF SInv
<1> QED BY <1>1, InvariantHolds, PTL

\* And the line of the cursor is the one painted, as soon as there is a choice.
THEOREM AlwaysOnePainted == Spec => []OnePainted
<1>1. SInv => OnePainted
  BY DEF SInv
<1> QED BY <1>1, InvariantHolds, PTL

\* The cursor never leaves the terminal downwards, and upwards only by as many rows
\* as refreshes have pulled it up (tui.c, tui_handle_input() and tui_show()).
THEOREM CursorAlwaysSeen == Spec => []CursorSeen
<1>1. SInv => CursorSeen
  BY DEF SInv
<1> QED BY <1>1, InvariantHolds, PTL

\* show_connections() hides only connections that have nothing in the column the
\* list was sorted by, whichever that is.
THEOREM HiddenAlwaysIdle == Spec => []HiddenIdle
<1>1. SInv => HiddenIdle
  BY DEF SInv
<1> QED BY <1>1, InvariantHolds, PTL
=============================================================================
