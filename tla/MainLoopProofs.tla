--------------------------- MODULE MainLoopProofs ---------------------------
(***************************************************************************)
(* For any number of blocks, any refresh interval and any delay: the       *)
(* program and the kernel keep to their own blocks of the ring, in order,  *)
(* and traffic that was nobody's is not forgotten before the update.       *)
(***************************************************************************)
EXTENDS MainLoop, TLAPS

\* What % does to the sums that occur: one turn around the ring at most.
LEMMA OneTurn ==
    \A b \in Block, k \in 0..tp_block_nr :
        (b + k) % tp_block_nr = IF b + k < tp_block_nr THEN b + k ELSE b + k - tp_block_nr
<1> DEFINE N == tp_block_nr
<1>1. N \in Nat /\ N > 0
  BY MainLoopAssumption DEF MainLoopAssumption
<1>2. ASSUME NEW x \in 0..2 * N - 1
      PROVE  x % N = IF x < N THEN x ELSE x - N
  <2> DEFINE q == x \div N
             r == x % N
  <2>1. q \in Int /\ r \in 0..N - 1 /\ x = N * q + r
    BY <1>1
  <2> QED BY <1>1, <2>1
<1>3. ASSUME NEW b \in Block, NEW k \in 0..N
      PROVE  (b + k) % N = IF b + k < N THEN b + k ELSE b + k - N
  <2> DEFINE x == b + k
  <2>1. x \in 0..2 * N - 1
    BY <1>1 DEF Block
  <2> HIDE DEF x
  <2>2. x % N = IF x < N THEN x ELSE x - N
    BY <1>2, <2>1
  <2>3. b \in Int /\ k \in Int
    BY <1>1 DEF Block
  <2> QED BY <1>1, <2>2, <2>3 DEF x
<1> QED BY <1>3

\* How many places block b is ahead of block a.
Offset(a, b) == IF b >= a THEN b - a ELSE b - a + tp_block_nr

LEMMA OffsetInverse ==
    ASSUME NEW a \in Block
    PROVE  /\ \A b \in Block : /\ Offset(a, b) \in 0..tp_block_nr - 1
                               /\ (a + Offset(a, b)) % tp_block_nr = b
           /\ \A k \in 0..tp_block_nr - 1 : /\ (a + k) % tp_block_nr \in Block
                                            /\ Offset(a, (a + k) % tp_block_nr) = k
<1>1. tp_block_nr \in Nat \ {0} /\ a \in 0..tp_block_nr - 1
  BY MainLoopAssumption DEF MainLoopAssumption, Block
<1>2. ASSUME NEW b \in Block
      PROVE  Offset(a, b) \in 0..tp_block_nr - 1 /\ (a + Offset(a, b)) % tp_block_nr = b
  <2>1. b \in 0..tp_block_nr - 1
    BY DEF Block
  <2>2. Offset(a, b) \in 0..tp_block_nr - 1
    BY <1>1, <2>1 DEF Offset
  <2>3. a + Offset(a, b) = IF b >= a THEN b ELSE b + tp_block_nr
    BY <1>1, <2>1 DEF Offset
  <2>4. (a + Offset(a, b)) % tp_block_nr =
            IF a + Offset(a, b) < tp_block_nr THEN a + Offset(a, b)
                                              ELSE a + Offset(a, b) - tp_block_nr
    BY <1>1, <2>2, OneTurn
  <2> QED BY <1>1, <2>1, <2>2, <2>3, <2>4
<1>3. ASSUME NEW k \in 0..tp_block_nr - 1
      PROVE  (a + k) % tp_block_nr \in Block /\ Offset(a, (a + k) % tp_block_nr) = k
  <2>1. (a + k) % tp_block_nr = IF a + k < tp_block_nr THEN a + k ELSE a + k - tp_block_nr
    BY <1>1, OneTurn
  <2> QED BY <1>1, <2>1 DEF Offset, Block
<1> QED BY <1>2, <1>3

\* The next block, and the one before it.
LEMMA NextBlock ==
    ASSUME NEW b \in Block
    PROVE  /\ After(b) \in Block
           /\ After(b) = IF b = tp_block_nr - 1 THEN 0 ELSE b + 1
<1>1. tp_block_nr \in Nat \ {0} /\ b \in 0..tp_block_nr - 1
  BY MainLoopAssumption DEF MainLoopAssumption, Block
<1>2. After(b) = IF b + 1 < tp_block_nr THEN b + 1 ELSE b + 1 - tp_block_nr
  BY <1>1, OneTurn DEF After
<1> QED BY <1>1, <1>2 DEF Block

----------------------------------------------------------------------------
\* The first n blocks from block_num on are the program's, and no other.
Handed(n) ==
    /\ filling = (block_num + n) % tp_block_nr
    /\ \A b \in Block : block_status[b] = "user" <=> Offset(block_num, b) < n

RingInv == \E n \in 0..tp_block_nr : Handed(n)

ReadsOwn == pc = "frames" => block_status[block_num] = "user"

IInv == TypeOK /\ RingInv /\ ReadsOwn /\ MissRemembered

LEMMA RingOrdered == IInv => RingInOrder
<1> SUFFICES ASSUME IInv PROVE RingInOrder
  OBVIOUS
<1>1. PICK n \in 0..tp_block_nr : Handed(n)
  BY DEF IInv, RingInv
<1>2. block_num \in Block
  BY DEF IInv, TypeOK
<1>3. ASSUME NEW k \in 0..tp_block_nr - 1
      PROVE  block_status[(block_num + k) % tp_block_nr] = "user" <=> k < n
  BY <1>1, <1>2, OffsetInverse DEF Handed
<1>4. (block_num + n) % tp_block_nr = filling
  BY <1>1 DEF Handed
<1> QED BY <1>3, <1>4 DEF RingInOrder, IInv, ReadsOwn

LEMMA InitIInv == Init => IInv
<1> SUFFICES ASSUME Init PROVE IInv
  OBVIOUS
<1>1. tp_block_nr \in Nat \ {0} /\ 0 \in Block
  BY MainLoopAssumption DEF MainLoopAssumption, Block
<1>2. TypeOK
  <2>1. /\ block_status \in [Block -> {"kernel", "user"}]
        /\ num_pkts \in [Block -> 0..MaxPkts]
        /\ filling \in Block /\ block_num \in Block
    BY <1>1, MainLoopAssumption DEF MainLoopAssumption, Init
  <2>2. /\ i \in 0..MaxPkts
        /\ diff_time \in 0..MaxElapsed - T_REFRESH
        /\ elapsed \in T_REFRESH - MaxElapsed..MaxElapsed
        /\ left \in 0..T_REFRESH
    BY MainLoopAssumption DEF MainLoopAssumption, Init, MaxElapsed
  <2> QED BY <2>1, <2>2 DEF Init, TypeOK, Pc
<1>3. Handed(0)
  <2>1. (0 + 0) % tp_block_nr = 0
    BY <1>1, OneTurn
  <2>2. \A b \in Block : Offset(0, b) \in 0..tp_block_nr - 1
    BY <1>1, OffsetInverse
  <2>3. (block_num + 0) % tp_block_nr = filling /\ block_num = 0
    BY <2>1 DEF Init
  <2>4. \A b \in Block : block_status[b] # "user" /\ ~ (Offset(0, b) < 0)
    BY <1>1, <2>2 DEF Init
  <2> QED BY <2>3, <2>4 DEF Handed
<1>4. RingInv
  BY <1>1, <1>3 DEF RingInv
<1> QED BY <1>2, <1>4 DEF Init, IInv, ReadsOwn, MissRemembered

----------------------------------------------------------------------------
\* The kernel, the clock and the signal.
LEMMA HandOverIInv ==
    ASSUME IInv, NEW m \in 1..MaxPkts, HandOver(m) PROVE IInv'
<1>1. tp_block_nr \in Nat \ {0} /\ filling \in Block /\ block_num \in Block
      /\ block_status \in [Block -> {"kernel", "user"}]
  BY MainLoopAssumption DEF MainLoopAssumption, IInv, TypeOK
<1>2. PICK n \in 0..tp_block_nr : Handed(n)
  BY DEF IInv, RingInv
<1>3. block_status[filling] = "kernel"
  BY DEF HandOver
<1>4. n < tp_block_nr
  <2>1. SUFFICES ASSUME n = tp_block_nr PROVE FALSE
    BY <1>1
  <2>2. Offset(block_num, filling) < n
    BY <1>1, <2>1, OffsetInverse
  <2> QED BY <1>1, <1>2, <1>3, <2>2 DEF Handed
<1>5. n \in 0..tp_block_nr - 1 /\ n + 1 \in 0..tp_block_nr
  BY <1>1, <1>4
<1>6. Offset(block_num, filling) = n
  BY <1>1, <1>2, <1>5, OffsetInverse DEF Handed
<1>7. filling' = (block_num + (n + 1)) % tp_block_nr
  <2>1. filling = IF block_num + n < tp_block_nr THEN block_num + n
                                               ELSE block_num + n - tp_block_nr
    BY <1>1, <1>2, OneTurn DEF Handed
  <2>2. (block_num + (n + 1)) % tp_block_nr =
            IF block_num + (n + 1) < tp_block_nr THEN block_num + (n + 1)
                                                 ELSE block_num + (n + 1) - tp_block_nr
    BY <1>1, <1>5, OneTurn
  <2>3. filling' = IF filling = tp_block_nr - 1 THEN 0 ELSE filling + 1
    BY <1>1, NextBlock DEF HandOver
  <2> QED BY <1>1, <1>5, <2>1, <2>2, <2>3 DEF Block
<1>8. \A b \in Block : block_status'[b] = "user" <=> Offset(block_num, b) < n + 1
  <2> SUFFICES ASSUME NEW b \in Block
               PROVE  block_status'[b] = "user" <=> Offset(block_num, b) < n + 1
    OBVIOUS
  <2>1. CASE b = filling
    BY <1>1, <1>5, <1>6, <2>1 DEF HandOver
  <2>2. CASE b # filling
    <3>1. block_status'[b] = block_status[b]
      BY <1>1, <2>2 DEF HandOver
    <3>2. Offset(block_num, b) # n
      BY <1>1, <1>2, <2>2, OffsetInverse DEF Handed
    <3>3. Offset(block_num, b) \in 0..tp_block_nr - 1
      BY <1>1, OffsetInverse
    <3> QED BY <1>1, <1>2, <1>5, <3>1, <3>2, <3>3 DEF Handed
  <2> QED BY <2>1, <2>2
<1>9. RingInv'
  <2>1. block_num' = block_num
    BY DEF HandOver
  <2> QED BY <1>5, <1>7, <1>8, <2>1 DEF RingInv, Handed
<1>10. TypeOK'
  <2>1. block_status' \in [Block -> {"kernel", "user"}]
    BY <1>1 DEF HandOver
  <2>2. num_pkts' \in [Block -> 0..MaxPkts] /\ filling' \in Block
    BY <1>1, NextBlock, MainLoopAssumption DEF MainLoopAssumption, HandOver, IInv, TypeOK
  <2> QED BY <2>1, <2>2 DEF HandOver, time, IInv, TypeOK
<1>11. ReadsOwn' /\ MissRemembered'
  BY <1>1 DEF HandOver, time, IInv, ReadsOwn, MissRemembered
<1> QED BY <1>9, <1>10, <1>11 DEF IInv

\* Steps that leave the ring and the place in it alone, and begin no block.
LEMMA RingKept ==
    ASSUME IInv, block_status' = block_status, filling' = filling, block_num' = block_num,
           pc' = "frames" => pc = "frames"
    PROVE  RingInv' /\ ReadsOwn'
<1>1. RingInv'
  <2>1. PICK n \in 0..tp_block_nr : Handed(n)
    BY DEF IInv, RingInv
  <2> QED BY <2>1 DEF RingInv, Handed
<1>2. ReadsOwn'
  BY DEF IInv, ReadsOwn
<1> QED BY <1>1, <1>2

LEMMA TickIInv == ASSUME IInv, Tick PROVE IInv'
<1>1. RingInv' /\ ReadsOwn'
  BY RingKept DEF Tick, ring
<1>2. MissRemembered'
  BY DEF Tick, IInv, MissRemembered
<1>3. elapsed' \in T_REFRESH - MaxElapsed..MaxElapsed /\ left' \in {Infinite} \cup 0..T_REFRESH
  BY MainLoopAssumption DEF MainLoopAssumption, MaxElapsed, Infinite, Tick, IInv, TypeOK
<1>4. TypeOK'
  BY <1>3 DEF Tick, ring, IInv, TypeOK
<1> QED BY <1>1, <1>2, <1>4 DEF IInv

LEMMA TimeoutType == IInv => Timeout \in {Infinite} \cup 0..T_REFRESH
  BY MainLoopAssumption DEF MainLoopAssumption, MaxElapsed, Infinite, Timeout, IInv, TypeOK

LEMMA SignalIInv == ASSUME IInv, Signal PROVE IInv'
<1>1. RingInv' /\ ReadsOwn'
  BY RingKept DEF Signal, ring
<1>2. left' \in {Infinite} \cup 0..T_REFRESH
  BY TimeoutType DEF Signal, IInv, TypeOK
<1> QED BY <1>1, <1>2 DEF Signal, ring, IInv, TypeOK, MissRemembered

----------------------------------------------------------------------------
\* The program reads blocks.
LEMMA ReadBlockIInv == ASSUME IInv, ReadBlock PROVE IInv'
<1>1. RingInv'
  <2>1. PICK n \in 0..tp_block_nr : Handed(n)
    BY DEF IInv, RingInv
  <2> QED BY <2>1 DEF ReadBlock, ring, RingInv, Handed
<1> QED
  BY <1>1 DEF ReadBlock, ring, time, IInv, TypeOK, Pc, ReadsOwn, MissRemembered

LEMMA ReadPacketIInv ==
    ASSUME IInv, NEW outcome \in {"unwatched", "nobody's", "counted"}, ReadPacket(outcome)
    PROVE  IInv'
<1>1. RingInv' /\ ReadsOwn'
  BY RingKept DEF ReadPacket, ring
<1>2. i' \in 0..MaxPkts
  BY MainLoopAssumption DEF MainLoopAssumption, ReadPacket, IInv, TypeOK
<1>3. /\ need_update_processes' = (need_update_processes \/ outcome = "nobody's")
      /\ missed' = (missed \/ outcome = "nobody's")
      /\ packtes_reads' = (packtes_reads \/ outcome = "counted")
  BY DEF ReadPacket, Note
<1>4. need_update_processes' \in BOOLEAN /\ missed' \in BOOLEAN /\ packtes_reads' \in BOOLEAN
  BY <1>3
<1>5. MissRemembered'
  BY <1>3 DEF IInv, MissRemembered
<1>6. TypeOK'
  BY <1>2, <1>4 DEF ReadPacket, ring, time, IInv, TypeOK
<1> QED BY <1>1, <1>5, <1>6 DEF IInv

LEMMA BlockDoneIInv == ASSUME IInv, BlockDone PROVE IInv'
<1>1. tp_block_nr \in Nat \ {0} /\ block_num \in Block
      /\ block_status \in [Block -> {"kernel", "user"}]
  BY MainLoopAssumption DEF MainLoopAssumption, IInv, TypeOK
<1>2. PICK n \in 0..tp_block_nr : Handed(n)
  BY DEF IInv, RingInv
<1>3. /\ block_status' = [block_status EXCEPT ![block_num] = "kernel"]
      /\ block_num' = After(block_num) /\ filling' = filling
  BY DEF BlockDone, HandBack, Rotate
<1>4. n - 1 \in 0..tp_block_nr - 1
  <2>1. block_status[block_num] = "user"
    BY DEF BlockDone, IInv, ReadsOwn
  <2>2. Offset(block_num, block_num) = 0
    BY <1>1 DEF Offset, Block
  <2> QED BY <1>1, <1>2, <2>1, <2>2 DEF Handed
<1>5. block_num' \in Block
      /\ block_num' = IF block_num = tp_block_nr - 1 THEN 0 ELSE block_num + 1
  BY <1>1, <1>3, NextBlock
<1>6. \A b \in Block : Offset(block_num', b) =
          IF b = block_num THEN tp_block_nr - 1 ELSE Offset(block_num, b) - 1
  BY <1>1, <1>5 DEF Offset, Block
<1>7. \A b \in Block : block_status'[b] = "user" <=> Offset(block_num', b) < n - 1
  <2> SUFFICES ASSUME NEW b \in Block
               PROVE  block_status'[b] = "user" <=> Offset(block_num', b) < n - 1
    OBVIOUS
  <2>1. CASE b = block_num
    BY <1>1, <1>3, <1>4, <1>6, <2>1
  <2>2. CASE b # block_num
    <3>1. block_status'[b] = block_status[b]
      BY <1>1, <1>3, <2>2
    <3>2. Offset(block_num, b) \in 0..tp_block_nr - 1
      BY <1>1, OffsetInverse
    <3> QED BY <1>1, <1>2, <1>4, <1>6, <2>2, <3>1, <3>2 DEF Handed
  <2> QED BY <2>1, <2>2
<1>8. filling' = (block_num' + (n - 1)) % tp_block_nr
  <2>1. filling = IF block_num + n < tp_block_nr THEN block_num + n
                                               ELSE block_num + n - tp_block_nr
    BY <1>1, <1>2, OneTurn DEF Handed
  <2> DEFINE b == block_num'
             k == n - 1
  <2>2. b \in Block /\ k \in 0..tp_block_nr
    BY <1>1, <1>4, <1>5
  <2>3. filling' = IF b + k < tp_block_nr THEN b + k ELSE b + k - tp_block_nr
    BY <1>1, <1>3, <1>4, <1>5, <2>1 DEF Block
  <2> HIDE DEF b, k
  <2>4. filling' = (b + k) % tp_block_nr
    BY <2>2, <2>3, OneTurn
  <2> QED BY <2>4 DEF b, k
<1>9. RingInv'
  BY <1>1, <1>4, <1>7, <1>8 DEF RingInv, Handed
<1>10. TypeOK'
  <2>1. block_status' \in [Block -> {"kernel", "user"}]
    BY <1>1, <1>3
  <2>2. 0 \in 0..MaxPkts
    BY MainLoopAssumption DEF MainLoopAssumption
  <2> QED BY <1>3, <1>5, <2>1, <2>2 DEF BlockDone, time, IInv, TypeOK, Pc
<1>11. ReadsOwn' /\ MissRemembered'
  BY DEF BlockDone, time, IInv, ReadsOwn, MissRemembered
<1> QED BY <1>9, <1>10, <1>11 DEF IInv

----------------------------------------------------------------------------
\* The rest of the loop: the place in the ring does not change.
LEMMA WaitIInv ==
    ASSUME IInv, Outer \/ DrainDone \/ Poll \/ PollReturns \/ Key \/ Leave \/ TooEarly \/ Exit
    PROVE  IInv'
<1>1. RingInv' /\ ReadsOwn'
  BY RingKept DEF Outer, DrainDone, Poll, PollReturns, Key, Leave, TooEarly, Exit, Again, ring
<1>2. MissRemembered'
  BY DEF Outer, DrainDone, Poll, PollReturns, Key, Leave, TooEarly, Exit, IInv, MissRemembered
<1>3. 0 \in 0..T_REFRESH
  BY MainLoopAssumption DEF MainLoopAssumption
<1>4. TypeOK'
  <2>1. CASE Outer \/ DrainDone \/ TooEarly \/ Exit
    BY <2>1 DEF Outer, DrainDone, TooEarly, Exit, Again, ring, time, IInv, TypeOK, Pc
  <2>2. CASE Poll
    BY <2>2, TimeoutType DEF Poll, ring, IInv, TypeOK, Pc
  <2>3. CASE PollReturns \/ Key
    <3>1. stop' \in BOOLEAN
      BY <2>3 DEF PollReturns, Key, Heed, Readable, IInv, TypeOK
    <3> QED BY <2>3, <3>1, <1>3 DEF PollReturns, Key, ring, IInv, TypeOK, Pc
  <2>4. CASE Leave
    BY <2>4, <1>3 DEF Leave, ring, IInv, TypeOK, Pc
  <2> QED BY <2>1, <2>2, <2>3, <2>4
<1> QED BY <1>1, <1>2, <1>4 DEF IInv

LEMMA RefreshIInv == ASSUME IInv, NotDue \/ Refresh \/ RefreshFails PROVE IInv'
<1>1. RingInv' /\ ReadsOwn'
  BY RingKept DEF NotDue, Refresh, RefreshFails, Again, ring
<1>2. MissRemembered' /\ missed' \in BOOLEAN /\ need_update_processes' \in BOOLEAN
  <2>1. missed \in BOOLEAN /\ need_update_processes \in BOOLEAN
        /\ (missed => need_update_processes)
    BY DEF IInv, TypeOK, MissRemembered
  <2>2. CASE NotDue \/ RefreshFails
    BY <2>1, <2>2 DEF NotDue, RefreshFails, MissRemembered
  <2>3. CASE Refresh
    <3>1. ~need_update_processes' /\ missed' = (missed /\ ~need_update_processes)
          /\ need_update_processes' \in BOOLEAN
      BY <2>3 DEF Refresh, UpdateIfNeeded
    <3>2. ~missed' /\ missed' \in BOOLEAN
      BY <2>1, <3>1
    <3> QED BY <3>1, <3>2 DEF MissRemembered
  <2> QED BY <2>2, <2>3
<1>3. /\ diff_time' \in 0..MaxElapsed - T_REFRESH
      /\ elapsed' \in T_REFRESH - MaxElapsed..MaxElapsed
  BY MainLoopAssumption
     DEF MainLoopAssumption, MaxElapsed, NotDue, Refresh, RefreshFails, Overshoot, IInv, TypeOK
<1>4. TypeOK'
  BY <1>2, <1>3 DEF NotDue, Refresh, RefreshFails, Again, ring, IInv, TypeOK, Pc
<1> QED BY <1>1, <1>2, <1>4 DEF IInv

LEMMA NextIInv == IInv /\ [Next]_vars => IInv'
<1>1. ASSUME IInv, UNCHANGED vars PROVE IInv'
  <2>1. RingInv' /\ ReadsOwn'
    BY <1>1, RingKept DEF vars, ring
  <2> QED BY <1>1, <2>1 DEF vars, ring, time, IInv, TypeOK, MissRemembered
<1> QED
  BY <1>1, HandOverIInv, TickIInv, SignalIInv, ReadBlockIInv, ReadPacketIInv, BlockDoneIInv,
     WaitIInv, RefreshIInv DEF Next, Loop, Terminated

LEMMA Inductive == Spec => []IInv
  BY InitIInv, NextIInv, PTL DEF Spec

----------------------------------------------------------------------------
\* Neither side ever works on a block out of turn and no block is left behind,
\* whatever the size of the ring (main.c:152, ring.c).
THEOREM RingRight == Spec => []RingInOrder
  BY Inductive, RingOrdered, PTL

\* A packet that was nobody's leads to the next update: the note survives the
\* other packets of the block and every pass of the loop (main.c:178).
THEOREM NothingForgotten == Spec => []MissRemembered
  BY Inductive, PTL DEF IInv
=============================================================================
