----------------------------- MODULE Fragments -----------------------------
(***************************************************************************)
(* packet.c: only the first fragment of an IP datagram carries the ports.  *)
(* parse_packet() keeps them in one of MAX_REASSEMBLIES slots and looks    *)
(* them up for the fragments that follow, which may be lost, duplicated or *)
(* out of order.  A slot is given back by the last fragment or, at the end *)
(* of some later parse, when its lifetime is over.                         *)
(***************************************************************************)
EXTENDS Integers, FiniteSets

CONSTANTS
    MAX_REASSEMBLIES,   \* slots
    LIFETIME_FRAG,      \* seconds
    Datagram,           \* datagrams on the wire
    Key, NoKey,         \* (saddr, daddr, id); what a slot never used holds
    KeyOf,              \* the key of each datagram
    Port, PortsOf,      \* <<source, dest>> of each datagram
    MaxTime             \* bound on time(NULL), for TLC

ASSUME FragmentsAssumption ==
    /\ MAX_REASSEMBLIES \in Nat \ {0}
    /\ LIFETIME_FRAG \in Nat \ {0}
    /\ KeyOf \in [Datagram -> Key]
    /\ PortsOf \in [Datagram -> Port \X Port]
    /\ MaxTime \in Nat \ {0}

Slot == 1..MAX_REASSEMBLIES
PktType == {"outgoing", "host", "other"}    \* ll->sll_pkttype

VARIABLES
    now,                \* time(NULL), never 0
    ttl,                \* pkt_ip_frag[i].ttl, 0 for a free slot
    key, ports,         \* the other fields of a slot
    count,              \* count_reassemblies
    result,             \* what the last parse_packet() returned
    parsed              \* history: when that was

vars == <<now, ttl, key, ports, count, result, parsed>>

\* The packet's datagram and direction, and the <<local, remote>> ports it was
\* given (NoPorts with return value 0).
NoPorts == <<>>
Result == [of : Datagram, type : PktType, got : (Port \X Port) \cup {NoPorts}]

Live == {s \in Slot : ttl[s] # 0}

TypeOK ==
    /\ now \in 1..MaxTime
    /\ ttl \in [Slot -> 0..MaxTime]
    /\ key \in [Slot -> Key \cup {NoKey}]
    /\ ports \in [Slot -> (Port \X Port) \cup {NoPorts}]
    /\ count \in 0..MAX_REASSEMBLIES
    /\ result \in Result
    /\ parsed \in 0..MaxTime

----------------------------------------------------------------------------
\* <<local, remote>> from <<source, dest>>, by direction (insert_data_packet).
Local(type, p) == IF type = "outgoing" THEN p ELSE <<p[2], p[1]>>

Packet(d, type, p) ==
    [of |-> d, type |-> type, got |-> IF type = "other" THEN NoPorts ELSE Local(type, p)]

Refuse(d, type) == [of |-> d, type |-> type, got |-> NoPorts]

\* DEC_REASSEMBLE: never below zero.
Minus(n, k) == IF k > n THEN 0 ELSE n - k

\* clear_frag() on the slots left by the parse: it walks them in order and
\* stops when the counter says that no live slot remains.
Expired(t) == {s \in Slot : t[s] # 0 /\ now - t[s] >= LIFETIME_FRAG}

Clear_Late(t, n) ==                 \* faulty: one second late
    LET gone == {s \in Slot : t[s] # 0 /\ now - t[s] > LIFETIME_FRAG} IN
    /\ ttl' = [s \in Slot |-> IF s \in gone THEN 0 ELSE t[s]]
    /\ count' = Minus(n, Cardinality(gone))
    /\ parsed' = now

Clear(t, n) ==
    LET gone == {s \in Expired(t) : Cardinality({r \in Expired(t) : r < s}) < n} IN
    /\ ttl' = [s \in Slot |-> IF s \in gone THEN 0 ELSE t[s]]
    /\ count' = Minus(n, Cardinality(gone))
    /\ parsed' = now

\* Not a fragment (DF, or MF clear and offset 0): the packet's own ports.
Whole(d, type) ==
    /\ result' = Packet(d, type, PortsOf[d])
    /\ Clear(ttl, count)
    /\ UNCHANGED <<now, key, ports>>

\* store_fragment(): MF set, offset 0.  The counter decides whether there is
\* room, and is incremented before the slot is looked for.
Lowest(S) == CHOOSE s \in S : \A r \in S : s <= r

Store(d, type, s) ==
    /\ key' = [key EXCEPT ![s] = KeyOf[d]]
    /\ ports' = [ports EXCEPT ![s] = PortsOf[d]]
    /\ result' = Packet(d, type, PortsOf[d])
    /\ Clear([ttl EXCEPT ![s] = now], count + 1)

Full_Late == count > MAX_REASSEMBLIES   \* faulty: off by one

Full == count = MAX_REASSEMBLIES

First(d, type) ==
    /\ IF Full
       THEN /\ result' = Refuse(d, type)
            /\ Clear(ttl, count)
            /\ UNCHANGED <<key, ports>>
       ELSE IF Live = Slot
       THEN /\ result' = Refuse(d, type)
            /\ Clear(ttl, count + 1)
            /\ UNCHANGED <<key, ports>>
       ELSE Store(d, type, Lowest(Slot \ Live))
    /\ UNCHANGED now

\* search_fragment(): offset not 0.  The lowest live slot with the same key
\* answers, and is given back if this is the last fragment (MF clear).
Same_Address(d) ==                  \* faulty: any live slot answers
    {s \in Slot : ttl[s] # 0}

Same(d) == {s \in Slot : ttl[s] # 0 /\ key[s] = KeyOf[d]}

Give_Uncounted(s, last) ==          \* faulty: the counter is not decremented
    IF last THEN Clear([ttl EXCEPT ![s] = 0], count) ELSE Clear(ttl, count)

Give(s, last) ==
    IF last THEN Clear([ttl EXCEPT ![s] = 0], Minus(count, 1)) ELSE Clear(ttl, count)

Later(d, type, last) ==
    /\ IF Same(d) = {}
       THEN /\ result' = Refuse(d, type)
            /\ Clear(ttl, count)
       ELSE LET s == Lowest(Same(d)) IN
            /\ result' = Packet(d, type, ports[s])
            /\ Give(s, last)
    /\ UNCHANGED <<now, key, ports>>

\* Seconds pass between two packets ...
Tick ==
    /\ now < MaxTime
    /\ now' = now + 1
    /\ UNCHANGED <<ttl, key, ports, count, result, parsed>>

\* ... and time() is the wall clock, which may be set back.
SetBack ==
    /\ now' \in 1..(now - 1)
    /\ UNCHANGED <<ttl, key, ports, count, result, parsed>>

Init ==
    /\ now = 1
    /\ ttl = [s \in Slot |-> 0]
    /\ key = [s \in Slot |-> NoKey]
    /\ ports = [s \in Slot |-> NoPorts]
    /\ count = 0
    /\ result \in {Refuse(d, "other") : d \in Datagram}
    /\ parsed = 0

Next ==
    \/ \E d \in Datagram, type \in PktType :
        \/ Whole(d, type)
        \/ First(d, type)
        \/ \E last \in BOOLEAN : Later(d, type, last)
    \/ Tick
    \/ SetBack

Spec == Init /\ [][Next]_vars

----------------------------------------------------------------------------
\* count_reassemblies is trusted three times: to refuse a first fragment, to
\* stop the clearing early, and never to wrap.  It is the number of live slots.
CountExact == count = Cardinality(Live)

\* What a parse leaves behind is within its lifetime, so a datagram whose last
\* fragment is lost holds its slot for at most LIFETIME_FRAG seconds of traffic
\* by the clock; a clock that was set back has to catch up first.
SlotsFresh == \A s \in Live : parsed - ttl[s] < LIFETIME_FRAG

\* A fragment is given the ports of its own datagram, the local one first, or
\* none, as long as no two datagrams in flight share addresses and identification.
KeysDistinct == \A d, e \in Datagram : KeyOf[d] = KeyOf[e] => PortsOf[d] = PortsOf[e]

RightPorts ==
    KeysDistinct /\ result.got # NoPorts =>
        result.got = Local(result.type, PortsOf[result.of])

\* A first fragment of ours gets no ports only when every slot is taken.
RefusedOnlyFull ==
    [][\A d \in Datagram, type \in PktType \ {"other"} :
        First(d, type) /\ result'.got = NoPorts => Live = Slot]_vars
=============================================================================
