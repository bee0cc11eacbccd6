----------------------------- MODULE Accounting -----------------------------
(***************************************************************************)
(* rate.c and log.c: the bytes of each process in a circle of samples, one *)
(* per refresh, from which the rate of the last SAMPLE_SPACE_SIZE refreshes*)
(* is shown, and the totals per program that are written to the log file.  *)
(* One counter stands for the four a process has (rx and tx, bytes and     *)
(* packets).                                                               *)
(*                                                                         *)
(* processes_update() replaces the list now and then.  The list and the    *)
(* log are vectors: a vector keeps what it held beyond its end, and grows  *)
(* when it is full.  The two are used as if a null followed the list and   *)
(* there always were room in the log; what comes of that when it is not so *)
(* may be anything.                                                        *)
(***************************************************************************)
EXTENDS Integers, Sequences, SequencesExt

CONSTANTS
    Proc,                   \* process identifiers
    Program, NameOf,        \* the name of each
    SAMPLE_SPACE_SIZE,
    LEN_INIT_VECTOR,        \* elements a new vector has room for
    ZeroedHeap,             \* does memory that was never used read as zero?
    \* bounds, for TLC: processes listed at a time, packets counted and logged
    MaxListed, MaxPackets, MaxLogged

ASSUME AccountingAssumption ==
    /\ IsFiniteSet(Proc) /\ IsFiniteSet(Program)
    /\ NameOf \in [Proc -> Program]
    /\ SAMPLE_SPACE_SIZE \in Nat \ {0} /\ LEN_INIT_VECTOR \in Nat \ {0}
    /\ ZeroedHeap \in BOOLEAN
    /\ MaxListed \in Nat /\ MaxPackets \in Nat /\ MaxLogged \in Nat /\ MaxLogged > MaxPackets

Sample == 0..SAMPLE_SPACE_SIZE - 1
Absent  == -1            \* not in the log
Garbage == -2            \* anything: memory was used that was freed or never given

VARIABLES
    known,              \* the processes allocated
    proc, total,        \* procs->proc, stale elements included, and procs->total
    idx_cir,
    fresh,              \* are we between rate_update() and processes_update()?
    Bps, bytes_last_sec, tot_Bps, avg_Bps,      \* net_stat of each process
    log_processes,      \* tot_Bps of each program in the log
    \* history
    packets,            \* packets counted
    periods,            \* of each process: its packets, in this refresh and before it
    charged,            \* packets of each program while its processes were listed
    overrun             \* has a walk over the list ever gone on behind its end?

stats == <<idx_cir, Bps, bytes_last_sec, tot_Bps, avg_Bps>>
vars  == <<known, proc, total, fresh, stats, log_processes, packets, periods, charged, overrun>>

Listed == ToSet(SubSeq(proc, 1, total))
Count  == 0..MaxPackets

TypeOK ==
    /\ known \subseteq Proc /\ Listed \subseteq known
    /\ proc \in Seq(Proc) /\ total \in 0..Len(proc)
    /\ idx_cir \in Sample
    /\ fresh \in BOOLEAN /\ overrun \in BOOLEAN
    /\ Bps \in [Proc -> [Sample -> Count]]
    /\ bytes_last_sec \in [Proc -> Count]
    /\ tot_Bps \in [Proc -> Count]
    /\ avg_Bps \in [Proc -> Count]
    /\ log_processes \in [Program -> 0..MaxLogged \cup {Absent, Garbage}]
    /\ packets \in Count
    /\ periods \in [Proc -> [0..SAMPLE_SPACE_SIZE -> Count]]
    /\ charged \in [Program -> Count]

Total(f, n) == FoldFunctionOnSet(+, 0, f, n)

----------------------------------------------------------------------------
\* rate_add_rx(): a packet of a process that is allocated, listed or not.
Add(p) ==
    /\ packets < MaxPackets
    /\ p \in known
    /\ Bps' = [Bps EXCEPT ![p][idx_cir] = @ + 1]
    /\ bytes_last_sec' = [bytes_last_sec EXCEPT ![p] = @ + 1]
    /\ tot_Bps' = [tot_Bps EXCEPT ![p] = @ + 1]
    /\ packets' = packets + 1
    /\ periods' = [periods EXCEPT ![p][0] = @ + 1]
    /\ fresh' = FALSE
    /\ charged' = IF p \in Listed THEN [charged EXCEPT ![NameOf[p]] = @ + 1] ELSE charged
    /\ UNCHANGED <<known, proc, total, idx_cir, avg_Bps, log_processes, overrun>>

\* rate_net_stat() with m_round(): halves go up.
Mean(sum) == (2 * sum + SAMPLE_SPACE_SIZE) \div (2 * SAMPLE_SPACE_SIZE)

Rate(p) == Mean(Total(Bps[p], Sample))

\* update_log_process(): a program is entered with the total of the first of
\* its processes, to which the bytes of every refresh are added.
Plus(a, b) == IF a = Garbage THEN Garbage
              ELSE IF a + b > MaxLogged THEN MaxLogged ELSE a + b

Logged(log) == {n \in Program : log[n] # Absent}
AllGarbage  == [n \in Program |-> Garbage]

LogProcess_Total(log, p) ==         \* faulty: the total again and again
    IF log[NameOf[p]] # Absent
    THEN [log EXCEPT ![NameOf[p]] = Plus(@, tot_Bps[p])]
    ELSE [log EXCEPT ![NameOf[p]] = tot_Bps[p]]

\* A new program is written behind the last one before vector_push() looks
\* whether the memory goes that far.
LogProcess(log, p) ==
    IF log[NameOf[p]] # Absent
    THEN [log EXCEPT ![NameOf[p]] = Plus(@, bytes_last_sec[p])]
    ELSE IF Cardinality(Logged(log)) < LEN_INIT_VECTOR
    THEN [log EXCEPT ![NameOf[p]] = tot_Bps[p]]
    ELSE AllGarbage

LogAll(list) ==
    IF ToSet(list) \subseteq known THEN FoldLeft(LogProcess, log_processes, list)
    ELSE AllGarbage

\* The walk stops at a null, not at procs->total, and nobody writes one: what
\* follows the elements ever written is memory nobody used, if there is any.
VectorFull == \E k \in 0..Len(proc) : Len(proc) = LEN_INIT_VECTOR * 2^k

LogWalk(null) ==
    /\ null \/ ~ZeroedHeap \/ VectorFull
    /\ log_processes' = IF null THEN LogAll(proc') ELSE AllGarbage
    /\ overrun' = (overrun \/ ~null \/ total < Len(proc))

\* rate_update(): the next sample is used for the coming refresh, and the
\* counters of the listed processes start over.
NextSample_Past(i) == i + 1         \* faulty: the circle does not close
NextSample(i) == (i + 1) % SAMPLE_SPACE_SIZE

Cleared_Last(p) ==                  \* faulty: the sample that just ended
    [Bps[p] EXCEPT ![idx_cir] = 0]
Cleared(p) == [Bps[p] EXCEPT ![NextSample(idx_cir)] = 0]

\* What happens at every refresh, in this order: rate_calc(), the sort in
\* tui_show(), log_file() and rate_update().
Refresh(order) ==
    /\ ToSet(order) = Listed /\ Len(order) = total
    /\ avg_Bps' = [p \in Proc |-> IF p \in Listed THEN Rate(p) ELSE avg_Bps[p]]
    /\ proc' = order \o SubSeq(proc, total + 1, Len(proc))
    /\ \E null \in BOOLEAN : LogWalk(null)
    /\ fresh' = TRUE
    /\ idx_cir' = NextSample(idx_cir)
    /\ Bps' = [p \in Proc |-> IF p \in Listed THEN Cleared(p) ELSE Bps[p]]
    /\ bytes_last_sec' = [p \in Proc |-> IF p \in Listed THEN 0 ELSE bytes_last_sec[p]]
    /\ periods' = [p \in Proc |-> [k \in 0..SAMPLE_SPACE_SIZE |->
                    IF k = 0 THEN 0 ELSE periods[p][k - 1]]]
    /\ UNCHANGED <<known, total, tot_Bps, packets, charged>>

\* processes_update(), at the start and after a refresh if a packet was
\* nobody's (main.c:254): processes that were not found by the last update are
\* freed, those that are found now and are not allocated start from nothing.
Survivors_All == known              \* faulty: nobody is freed
Survivors == Listed

Update(list) ==
    LET found == ToSet(list)
        born == found \ Survivors
    IN  /\ fresh /\ Len(list) <= MaxListed
        /\ fresh' = FALSE
        /\ known' = Survivors \cup found
        /\ proc' = list \o SubSeq(proc, Len(list) + 1, Len(proc))
        /\ total' = Len(list)
        /\ Bps' = [p \in Proc |-> IF p \in born THEN [s \in Sample |-> 0] ELSE Bps[p]]
        /\ bytes_last_sec' = [p \in Proc |-> IF p \in born THEN 0 ELSE bytes_last_sec[p]]
        /\ tot_Bps' = [p \in Proc |-> IF p \in born THEN 0 ELSE tot_Bps[p]]
        /\ avg_Bps' = [p \in Proc |-> IF p \in born THEN 0 ELSE avg_Bps[p]]
        /\ periods' = [p \in Proc |->
                        IF p \in found \ Listed THEN [k \in 0..SAMPLE_SPACE_SIZE |-> 0]
                        ELSE periods[p]]
        /\ UNCHANGED <<idx_cir, log_processes, packets, charged, overrun>>

----------------------------------------------------------------------------
Init ==
    /\ known = {}
    /\ proc = <<>>
    /\ total = 0
    /\ idx_cir = 0
    /\ fresh = TRUE
    /\ overrun = FALSE
    /\ Bps = [p \in Proc |-> [s \in Sample |-> 0]]
    /\ bytes_last_sec = [p \in Proc |-> 0]
    /\ tot_Bps = [p \in Proc |-> 0]
    /\ avg_Bps = [p \in Proc |-> 0]
    /\ log_processes = [n \in Program |-> Absent]
    /\ packets = 0
    /\ periods = [p \in Proc |-> [k \in 0..SAMPLE_SPACE_SIZE |-> 0]]
    /\ charged = [n \in Program |-> 0]

Next ==
    \/ \E p \in Proc : Add(p)
    \/ \E order \in SetToSeqs(Listed) : Refresh(order)
    \/ \E found \in SUBSET Proc : \E list \in SetToSeqs(found) : Update(list)

Spec == Init /\ [][Next]_vars

----------------------------------------------------------------------------
\* The circle holds the last SAMPLE_SPACE_SIZE refreshes of every process that
\* is shown, the current one at idx_cir, whenever it was found and lost.
\* So the rate shown is the mean of the refreshes that had ended by then.
WindowExact ==
    /\ TypeOK
    /\ \A p \in Listed, k \in Sample :
        Bps[p][(idx_cir + SAMPLE_SPACE_SIZE - k) % SAMPLE_SPACE_SIZE] = periods[p][k]
    /\ \A p \in Listed : avg_Bps[p] = Mean(Total(periods[p], 1..SAMPLE_SPACE_SIZE))

\* What is logged of a program, together with what its listed processes have
\* received since the last refresh, is what they were charged with: "assim
\* podemos ter no arquivo de log, os dados total sobre um programa" (log.c:91).
Unlogged(n) == Total(bytes_last_sec, {p \in Listed : NameOf[p] = n})
Log(n) == IF log_processes[n] = Absent THEN 0 ELSE log_processes[n]

LogExact == \A n \in Program : Log(n) + Unlogged(n) = charged[n]

\* It is, however processes of one program follow and join each other, as long
\* as no walk has gone on behind the end of the list (log.c:99) and the log has
\* no more programs than its vector had room for at first (log.c:121).
LogExactInBounds ==
    ~overrun /\ Cardinality(Logged(log_processes)) <= LEN_INIT_VECTOR => LogExact

\* Without that proviso the log says more of a program than was ever counted,
\* be the memory as kind as it may.
LogNotInflated == \A n \in Program : Log(n) \in 0..packets
=============================================================================
