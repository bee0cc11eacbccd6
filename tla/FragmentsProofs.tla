-------------------------- MODULE FragmentsProofs --------------------------
(***************************************************************************)
(* For any number of slots and datagrams, any lifetime and any schedule of *)
(* fragments: the counter of packet.c is the number of live slots, stale   *)
(* slots do not survive a parse, and fragments get their own ports.        *)
(***************************************************************************)
EXTENDS Fragments, FiniteSetTheorems, WellFoundedInduction, TLAPS

LEMMA SlotFinite ==
    /\ IsFiniteSet(Slot)
    /\ \A S \in SUBSET Slot : /\ IsFiniteSet(S)
                              /\ Cardinality(S) \in 0..MAX_REASSEMBLIES
                              /\ Cardinality(S) = MAX_REASSEMBLIES => S = Slot
<1>1. IsFiniteSet(Slot) /\ Cardinality(Slot) = MAX_REASSEMBLIES
  BY FS_Interval, FragmentsAssumption DEF Slot, FragmentsAssumption
<1> QED BY <1>1, FS_Subset, FS_CardinalityType, FragmentsAssumption DEF FragmentsAssumption

\* The lowest element of a nonempty set of slots exists.
LEMMA LowestIn == \A S \in SUBSET Slot : S # {} => Lowest(S) \in S
<1> SUFFICES ASSUME NEW S \in SUBSET Slot, S # {} PROVE Lowest(S) \in S
  OBVIOUS
<1>1. S \subseteq Nat
  BY FragmentsAssumption DEF Slot, FragmentsAssumption
<1>2. PICK s \in S : \A r \in S : ~ (<<r, s>> \in OpToRel(<, Nat))
  BY <1>1, NatLessThanWellFounded, WFMin
<1>3. \A r \in S : s <= r
  <2> SUFFICES ASSUME NEW r \in S, r < s PROVE FALSE
    BY <1>1
  <2>1. <<r, s>> \in Nat \X Nat /\ <<r, s>>[1] < <<r, s>>[2]
    BY <1>1
  <2>2. <<r, s>> \in OpToRel(<, Nat)
    BY <2>1, Zenon DEF OpToRel
  <2> QED BY <1>2, <2>2
<1> QED BY <1>3 DEF Lowest

\* clear_frag() when the counter it is given is exact: it clears every expired
\* slot, however early it may stop, and leaves the counter exact.
LEMMA ClearExact ==
    ASSUME now \in 1..MaxTime,
           NEW t \in [Slot -> 0..MaxTime],
           NEW n, n = Cardinality({s \in Slot : t[s] # 0}),
           Clear(t, n)
    PROVE  /\ ttl' \in [Slot -> 0..MaxTime]
           /\ \A s \in Slot : ttl'[s] # 0 => ttl'[s] = t[s] /\ now - t[s] < LIFETIME_FRAG
           /\ count' = Cardinality({s \in Slot : ttl'[s] # 0})
           /\ count' \in 0..MAX_REASSEMBLIES
           /\ parsed' = now
<1> DEFINE L == {s \in Slot : t[s] # 0}
           E == Expired(t)
           Before(s) == {r \in E : r < s}
           gone == {s \in E : Cardinality(Before(s)) < n}
<1>1. E \subseteq L /\ L \subseteq Slot /\ n \in Nat /\ IsFiniteSet(E) /\ IsFiniteSet(L)
      /\ Cardinality(E) \in Nat /\ Cardinality(L) = n /\ Cardinality(E) <= n
  <2>1. E \subseteq L /\ L \subseteq Slot
    BY DEF Expired
  <2>2. IsFiniteSet(L) /\ IsFiniteSet(E) /\ Cardinality(L) \in Nat /\ Cardinality(E) \in Nat
    BY <2>1, SlotFinite, FragmentsAssumption DEF FragmentsAssumption
  <2> QED BY <2>1, <2>2, FS_Subset
<1>2. gone = E
  <2> SUFFICES ASSUME NEW s \in E PROVE Cardinality(Before(s)) < n
    OBVIOUS
  <2>1. Before(s) \in SUBSET (E \ {s})
    BY <1>1 DEF Slot
  <2>2. IsFiniteSet(E \ {s}) /\ Cardinality(E \ {s}) = Cardinality(E) - 1
    BY <1>1, FS_RemoveElement
  <2>3. Cardinality(Before(s)) <= Cardinality(E \ {s}) /\ Cardinality(Before(s)) \in Nat
    BY <2>1, <2>2, FS_Subset, FS_CardinalityType
  <2> QED BY <1>1, <2>2, <2>3
<1>3. /\ ttl' = [s \in Slot |-> IF s \in E THEN 0 ELSE t[s]]
      /\ count' = Minus(n, Cardinality(E))
      /\ parsed' = now
  BY <1>2 DEF Clear
<1>4. ttl' \in [Slot -> 0..MaxTime]
  BY <1>3, FragmentsAssumption DEF FragmentsAssumption
<1>5. \A s \in Slot : ttl'[s] # 0 => ttl'[s] = t[s] /\ now - t[s] < LIFETIME_FRAG
  BY <1>3, FragmentsAssumption DEF Expired, FragmentsAssumption
<1>6. {s \in Slot : ttl'[s] # 0} = L \ E
  BY <1>3 DEF Expired
<1>7. Cardinality(L \ E) = n - Cardinality(E)
  <2>1. L \cap E = E
    BY <1>1
  <2> HIDE DEF L, E
  <2>2. Cardinality(L \ E) = Cardinality(L) - Cardinality(L \cap E)
    BY <1>1, FS_Difference
  <2> QED BY <1>1, <2>1, <2>2
<1>8. count' = Cardinality({s \in Slot : ttl'[s] # 0})
  BY <1>1, <1>3, <1>6, <1>7 DEF Minus
<1>9. count' \in 0..MAX_REASSEMBLIES
  BY <1>8, SlotFinite
<1> QED BY <1>3, <1>4, <1>5, <1>8, <1>9

----------------------------------------------------------------------------
\* Every live slot was stored by the first fragment of some datagram.
SlotsOwned ==
    \A s \in Live : \E d \in Datagram : key[s] = KeyOf[d] /\ ports[s] = PortsOf[d]

IInv == TypeOK /\ CountExact /\ SlotsFresh /\ SlotsOwned /\ RightPorts

LEMMA InitIInv == Init => IInv
<1> SUFFICES ASSUME Init PROVE IInv
  OBVIOUS
<1>1. Live = {}
  BY DEF Init, Live
<1>2. TypeOK
  BY FragmentsAssumption DEF Init, TypeOK, Refuse, Result, NoPorts, PktType, FragmentsAssumption
<1> QED
  BY <1>1, <1>2, FS_EmptySet
     DEF Init, IInv, CountExact, SlotsFresh, SlotsOwned, RightPorts, Refuse

\* What every parse has in common: the slots left for clear_frag() are counted
\* and owned, and the result is right.
LEMMA ParseIInv ==
    ASSUME IInv, now' = now,
           NEW t \in [Slot -> 0..MaxTime],
           NEW n, n = Cardinality({s \in Slot : t[s] # 0}), Clear(t, n),
           key' \in [Slot -> Key \cup {NoKey}],
           ports' \in [Slot -> (Port \X Port) \cup {NoPorts}],
           \A s \in Slot : t[s] # 0 =>
               \E d \in Datagram : key'[s] = KeyOf[d] /\ ports'[s] = PortsOf[d],
           result' \in Result, RightPorts'
    PROVE  IInv'
<1>1. now \in 1..MaxTime
  BY DEF IInv, TypeOK
<1>2. /\ ttl' \in [Slot -> 0..MaxTime]
      /\ \A s \in Slot : ttl'[s] # 0 => ttl'[s] = t[s] /\ now - t[s] < LIFETIME_FRAG
      /\ count' = Cardinality({s \in Slot : ttl'[s] # 0})
      /\ count' \in 0..MAX_REASSEMBLIES
      /\ parsed' = now
  BY <1>1, ClearExact
<1>3. TypeOK'
  BY <1>1, <1>2, FragmentsAssumption DEF TypeOK, FragmentsAssumption
<1>4. CountExact'
  BY <1>2 DEF CountExact, Live
<1>5. SlotsFresh'
  BY <1>2 DEF SlotsFresh, Live
<1>6. SlotsOwned'
  BY <1>1, <1>2 DEF SlotsOwned, Live
<1> QED BY <1>3, <1>4, <1>5, <1>6 DEF IInv

\* A parse that neither takes nor gives back a slot.
LEMMA KeptIInv ==
    ASSUME IInv, now' = now, key' = key, ports' = ports, Clear(ttl, count),
           result' \in Result, RightPorts'
    PROVE  IInv'
<1>1. /\ ttl \in [Slot -> 0..MaxTime]
      /\ key' \in [Slot -> Key \cup {NoKey}]
      /\ ports' \in [Slot -> (Port \X Port) \cup {NoPorts}]
  BY DEF IInv, TypeOK
<1>2. count = Cardinality({s \in Slot : ttl[s] # 0})
  BY DEF IInv, CountExact, Live
<1>3. \A s \in Slot : ttl[s] # 0 =>
          \E d \in Datagram : key'[s] = KeyOf[d] /\ ports'[s] = PortsOf[d]
  BY DEF IInv, SlotsOwned, Live
<1> QED BY <1>1, <1>2, <1>3, ParseIInv

\* The ports of a datagram, in either direction, are a right result for it.
LEMMA PacketRight ==
    ASSUME NEW d \in Datagram, NEW type \in PktType, NEW e \in Datagram,
           KeyOf[d] = KeyOf[e], result' = Packet(d, type, PortsOf[e])
    PROVE  result' \in Result /\ RightPorts'
<1>1. PortsOf[e] \in Port \X Port
  BY FragmentsAssumption DEF FragmentsAssumption
<1>2. result' \in Result
  BY <1>1 DEF Packet, Result, Local
<1>3. RightPorts'
  <2> SUFFICES ASSUME KeysDistinct, result'.got # NoPorts
               PROVE  result'.got = Local(type, PortsOf[d])
    BY DEF RightPorts, Packet, KeysDistinct
  <2>1. PortsOf[d] = PortsOf[e]
    BY DEF KeysDistinct
  <2> QED BY <2>1 DEF Packet
<1> QED BY <1>2, <1>3

LEMMA RefuseRight ==
    ASSUME NEW d \in Datagram, NEW type \in PktType, result' = Refuse(d, type)
    PROVE  result' \in Result /\ RightPorts'
  BY DEF Refuse, Result, RightPorts, NoPorts

\* A slot that is taken now or given back leaves the times in their range.
LEMMA SlotSet ==
    ASSUME IInv, NEW s \in Slot, NEW v \in {0, now}
    PROVE  /\ now \in 1..MaxTime
           /\ [ttl EXCEPT ![s] = v] \in [Slot -> 0..MaxTime]
           /\ \A r \in Slot : [ttl EXCEPT ![s] = v][r] = IF r = s THEN v ELSE ttl[r]
<1>1. now \in 1..MaxTime /\ ttl \in [Slot -> 0..MaxTime]
  BY DEF IInv, TypeOK
<1>2. v \in 0..MaxTime
  BY <1>1, FragmentsAssumption DEF FragmentsAssumption
<1>3. \A r \in Slot : [ttl EXCEPT ![s] = v][r] = IF r = s THEN v ELSE ttl[r]
  BY <1>1
<1>4. [ttl EXCEPT ![s] = v] \in [Slot -> 0..MaxTime]
  BY <1>1, <1>2
<1> QED BY <1>1, <1>3, <1>4

LEMMA WholeIInv ==
    ASSUME IInv, NEW d \in Datagram, NEW type \in PktType, Whole(d, type) PROVE IInv'
<1>1. result' \in Result /\ RightPorts'
  BY PacketRight DEF Whole
<1> QED BY <1>1, KeptIInv DEF Whole

LEMMA FirstIInv ==
    ASSUME IInv, NEW d \in Datagram, NEW type \in PktType, First(d, type) PROVE IInv'
<1>1. CASE result' = Refuse(d, type) /\ Clear(ttl, count) /\ UNCHANGED <<key, ports, now>>
  BY <1>1, RefuseRight, KeptIInv
<1>2. CASE ~Full
  <2> DEFINE s == Lowest(Slot \ Live)
             t == [ttl EXCEPT ![s] = now]
  <2>1. Live # Slot
    <3>1. Cardinality(Slot) = MAX_REASSEMBLIES
      BY FS_Interval, FragmentsAssumption DEF Slot, FragmentsAssumption
    <3> QED BY <1>2, <3>1 DEF Full, IInv, CountExact
  <2>2. s \in Slot /\ s \notin Live
    BY <2>1, LowestIn DEF Live
  <2>3. Store(d, type, s) /\ now' = now
    BY <1>2, <2>1 DEF First
  <2> HIDE DEF s
  <2>4. /\ now \in 1..MaxTime
        /\ t \in [Slot -> 0..MaxTime]
        /\ \A r \in Slot : t[r] = IF r = s THEN now ELSE ttl[r]
    BY <2>2, SlotSet
  <2>5. {r \in Slot : t[r] # 0} = Live \cup {s}
    <3> HIDE DEF t
    <3> QED BY <2>2, <2>4 DEF Live
  <2>6. count + 1 = Cardinality({r \in Slot : t[r] # 0})
    <3>1. IsFiniteSet(Live)
      BY SlotFinite DEF Live
    <3> QED BY <2>2, <2>5, <3>1, FS_AddElement DEF IInv, CountExact
  <2>7. result' \in Result /\ RightPorts'
    BY <2>3, PacketRight DEF Store
  <2>8. /\ key' \in [Slot -> Key \cup {NoKey}]
        /\ ports' \in [Slot -> (Port \X Port) \cup {NoPorts}]
    BY <2>2, <2>3, FragmentsAssumption DEF Store, IInv, TypeOK, FragmentsAssumption
  <2>9. \A r \in Slot : t[r] # 0 =>
            \E e \in Datagram : key'[r] = KeyOf[e] /\ ports'[r] = PortsOf[e]
    BY <2>2, <2>3 DEF Store, IInv, TypeOK, SlotsOwned, Live
  <2>10. Clear(t, count + 1)
    BY <2>3 DEF Store
  <2> HIDE DEF t
  <2> QED BY <2>3, <2>4, <2>6, <2>7, <2>8, <2>9, <2>10, ParseIInv
<1>3. ASSUME Full
      PROVE  result' = Refuse(d, type) /\ Clear(ttl, count) /\ UNCHANGED <<key, ports, now>>
  BY <1>3 DEF First
<1> QED BY <1>1, <1>2, <1>3

LEMMA LaterIInv ==
    ASSUME IInv, NEW d \in Datagram, NEW type \in PktType, NEW last \in BOOLEAN,
           Later(d, type, last)
    PROVE  IInv'
<1>1. CASE Same(d) = {}
  BY <1>1, RefuseRight, KeptIInv DEF Later
<1>2. CASE Same(d) # {}
  <2> DEFINE s == Lowest(Same(d))
             t == [ttl EXCEPT ![s] = 0]
  <2>1. s \in Same(d)
    BY <1>2, LowestIn DEF Same
  <2>2. s \in Slot /\ s \in Live /\ key[s] = KeyOf[d]
    BY <2>1 DEF Same, Live
  <2>3. PICK e \in Datagram : key[s] = KeyOf[e] /\ ports[s] = PortsOf[e]
    BY <2>2 DEF IInv, SlotsOwned
  <2>4. /\ result' = Packet(d, type, PortsOf[e])
        /\ Give(s, last)
        /\ UNCHANGED <<now, key, ports>>
    BY <1>2, <2>3 DEF Later
  <2>5. now - ttl[s] \in Int
    BY <2>2 DEF IInv, TypeOK
  <2>6. result' \in Result /\ RightPorts'
    BY <2>2, <2>3, <2>4, <2>5, PacketRight
  <2> HIDE DEF s
  <2>7. CASE ~last
    BY <2>4, <2>6, <2>7, KeptIInv DEF Give
  <2>8. CASE last
    <3>1. /\ now \in 1..MaxTime
          /\ t \in [Slot -> 0..MaxTime]
          /\ \A r \in Slot : t[r] = IF r = s THEN 0 ELSE ttl[r]
      BY <2>2, SlotSet
    <3>2. {r \in Slot : t[r] # 0} = Live \ {s}
      <4> HIDE DEF t
      <4> QED BY <2>2, <3>1 DEF Live
    <3>3. Minus(count, 1) = Cardinality({r \in Slot : t[r] # 0})
      <4>1. IsFiniteSet(Live) /\ Cardinality(Live) \in Nat
        BY SlotFinite, FragmentsAssumption DEF Live, FragmentsAssumption
      <4>2. Cardinality(Live \ {s}) = Cardinality(Live) - 1
        BY <2>2, <4>1, FS_RemoveElement
      <4>3. Cardinality(Live \ {s}) \in Nat
        BY <4>1, FS_RemoveElement, FS_CardinalityType
      <4>4. count = Cardinality(Live)
        BY DEF IInv, CountExact
      <4>5. Minus(count, 1) = Cardinality(Live \ {s})
        BY <4>1, <4>2, <4>3, <4>4 DEF Minus
      <4> HIDE DEF t
      <4> QED BY <3>2, <4>5
    <3>4. Clear(t, Minus(count, 1))
      BY <2>4, <2>8 DEF Give
    <3>5. \A r \in Slot : t[r] # 0 =>
              \E f \in Datagram : key'[r] = KeyOf[f] /\ ports'[r] = PortsOf[f]
      BY <2>2, <2>4, <3>2 DEF IInv, SlotsOwned, Live
    <3>6. /\ key' \in [Slot -> Key \cup {NoKey}]
          /\ ports' \in [Slot -> (Port \X Port) \cup {NoPorts}]
      BY <2>4 DEF IInv, TypeOK
    <3> HIDE DEF t
    <3> QED BY <2>4, <2>6, <3>1, <3>3, <3>4, <3>5, <3>6, ParseIInv
  <2> QED BY <2>7, <2>8
<1> QED BY <1>1, <1>2

LEMMA NextIInv == IInv /\ [Next]_vars => IInv'
<1>1. ASSUME IInv, Tick PROVE IInv'
  BY <1>1, FragmentsAssumption
     DEF Tick, IInv, TypeOK, CountExact, SlotsFresh, SlotsOwned, RightPorts, Live,
         FragmentsAssumption
<1>2. ASSUME IInv, SetBack PROVE IInv'
  <2>1. /\ ttl' = ttl /\ key' = key /\ ports' = ports
        /\ count' = count /\ result' = result /\ parsed' = parsed
    BY <1>2 DEF SetBack
  <2>2. now' \in 1..MaxTime
    BY <1>2, FragmentsAssumption DEF SetBack, IInv, TypeOK, FragmentsAssumption
  <2>3. TypeOK'
    <3>1. TypeOK
      BY <1>2 DEF IInv
    <3> QED BY <2>1, <2>2, <3>1 DEF TypeOK
  <2>4. CountExact' /\ SlotsFresh' /\ SlotsOwned' /\ RightPorts'
    BY <1>2, <2>1 DEF IInv, CountExact, SlotsFresh, SlotsOwned, RightPorts, Live
  <2> QED BY <2>3, <2>4 DEF IInv
<1>3. ASSUME IInv, UNCHANGED vars PROVE IInv'
  BY <1>3 DEF vars, IInv, TypeOK, CountExact, SlotsFresh, SlotsOwned, RightPorts, Live
<1> QED BY <1>1, <1>2, <1>3, WholeIInv, FirstIInv, LaterIInv DEF Next

LEMMA Inductive == Spec => []IInv
  BY InitIInv, NextIInv, PTL DEF Spec

----------------------------------------------------------------------------
\* The slots, the counter and the result stay in their ranges.
THEOREM TypeCorrect == Spec => []TypeOK
  BY Inductive, PTL DEF IInv

\* count_reassemblies is the number of live slots: the refusal in
\* store_fragment and the early stop of clear_frag are both right.
THEOREM CounterRight == Spec => []CountExact
  BY Inductive, PTL DEF IInv

\* A slot whose lifetime is over does not survive the next packet.
THEOREM NoStaleSlot == Spec => []SlotsFresh
  BY Inductive, PTL DEF IInv

\* Datagrams with keys of their own are never mixed up.
THEOREM PortsRight == Spec => []RightPorts
  BY Inductive, PTL DEF IInv

\* store_fragment never turns a datagram away while a slot is free: its loop
\* finds one whenever the counter lets it look.
THEOREM OnlyWhenFull == Spec => RefusedOnlyFull
<1> DEFINE Refused == \A d \in Datagram, type \in PktType \ {"other"} :
                         First(d, type) /\ result'.got = NoPorts => Live = Slot
<1>1. IInv => Refused
  <2> SUFFICES ASSUME IInv, NEW d \in Datagram, NEW type \in PktType \ {"other"},
                      First(d, type), result'.got = NoPorts, Live # Slot
               PROVE  FALSE
    OBVIOUS
  <2>1. count # MAX_REASSEMBLIES
    BY SlotFinite DEF IInv, CountExact, Live
  <2>2. Store(d, type, Lowest(Slot \ Live))
    BY <2>1 DEF First, Full
  <2>3. result'.got = Local(type, PortsOf[d]) /\ PortsOf[d] \in Port \X Port
    BY <2>2, FragmentsAssumption DEF Store, Packet, FragmentsAssumption
  <2> QED BY <2>3 DEF Local, NoPorts
<1> QED BY <1>1, Inductive, PTL DEF RefusedOnlyFull
=============================================================================
