------------------------------ MODULE MainLoop ------------------------------
(***************************************************************************)
(* main.c: one thread drains the blocks of the packet ring that the kernel *)
(* has handed over, then waits in poll(2) for the next block, for a key or *)
(* for the next refresh of the screen, due every T_REFRESH.                *)
(*                                                                         *)
(* Time is kept relative to cur_time: elapsed stands for                   *)
(* get_time() - cur_time, which is negative while cur_time lies ahead.     *)
(***************************************************************************)
EXTENDS Integers

CONSTANTS
    tp_block_nr,        \* blocks of the ring
    MaxPkts,            \* bound on the packets of a block, for TLC
    T_REFRESH,          \* in ticks of the clock
    MaxAway             \* the age of cur_time up to which the program is kept from polling

ASSUME MainLoopAssumption ==
    /\ tp_block_nr \in Nat \ {0}
    /\ MaxPkts \in Nat \ {0}
    /\ T_REFRESH \in Nat \ {0}
    /\ MaxAway \in Nat

Block == 0..tp_block_nr - 1
Infinite == -1          \* poll: any negative timeout

\* What elapsed can grow to: a whole timeout is waited for after MaxAway, and once
\* more after a signal.  An endless wait is told from that by no property.
MaxElapsed == MaxAway + 2 * T_REFRESH

VARIABLES
    \* the ring, shared with the kernel
    block_status, num_pkts,     \* of each block: its owner and its packets
    filling,                    \* the block the kernel hands over next
    \* main()
    pc,
    block_num, i,               \* the block being read and the next packet in it
    packtes_reads, need_update_processes, stop,
    diff_time, elapsed,
    left,                       \* what is left of the timeout of poll
    prog_exit,
    missed                      \* history: a packet was nobody's since the last update

ring == <<block_status, num_pkts, filling>>
time == <<diff_time, elapsed, left>>
vars == <<ring, pc, block_num, i, packtes_reads, need_update_processes, stop, time,
          prog_exit, missed>>

Pc == {"outer", "drain", "frames", "inner", "poll", "timed", "exit", "done"}

TypeOK ==
    /\ block_status \in [Block -> {"kernel", "user"}]
    /\ num_pkts \in [Block -> 0..MaxPkts]
    /\ filling \in Block
    /\ pc \in Pc
    /\ block_num \in Block
    /\ i \in 0..MaxPkts
    /\ packtes_reads \in BOOLEAN /\ need_update_processes \in BOOLEAN /\ stop \in BOOLEAN
    /\ diff_time \in 0..MaxElapsed - T_REFRESH
    /\ elapsed \in T_REFRESH - MaxElapsed..MaxElapsed
    /\ left \in {Infinite} \cup 0..T_REFRESH
    /\ prog_exit \in BOOLEAN
    /\ missed \in BOOLEAN

----------------------------------------------------------------------------
(* The kernel, the clock and the user.                                     *)

After(b) == (b + 1) % tp_block_nr
Before(b) == (b + tp_block_nr - 1) % tp_block_nr

\* A block is filled, or times out, and goes to the program; while the next one
\* is still the program's the kernel drops packets.
HandOver(n) ==
    /\ block_status[filling] = "kernel"
    /\ block_status' = [block_status EXCEPT ![filling] = "user"]
    /\ num_pkts' = [num_pkts EXCEPT ![filling] = n]
    /\ filling' = After(filling)
    /\ UNCHANGED <<pc, block_num, i, packtes_reads, need_update_processes, stop, time,
                   prog_exit, missed>>

\* What poll looks at (packet_poll): the block handed over last.
Readable == block_status[Before(filling)] = "user"

Tick ==
    /\ pc \notin {"exit", "done"}
    /\ (pc = "poll" /\ left # 0) \/ elapsed < MaxAway
    /\ elapsed' = IF elapsed < MaxElapsed THEN elapsed + 1 ELSE elapsed
    /\ left' = IF pc = "poll" /\ left > 0 THEN left - 1 ELSE left
    /\ UNCHANGED <<ring, pc, block_num, i, packtes_reads, need_update_processes, stop,
                   diff_time, prog_exit, missed>>

\* T_REFRESH - diff_time is unsigned, but handed to poll as an int.
Timeout == IF diff_time > T_REFRESH THEN Infinite ELSE T_REFRESH - diff_time

\* sig_handler(): SIGINT or SIGTERM.  A poll it interrupts is begun anew.
Signal ==
    /\ pc \notin {"exit", "done"}
    /\ ~prog_exit
    /\ prog_exit' = TRUE
    /\ left' = IF pc = "poll" THEN Timeout ELSE left
    /\ UNCHANGED <<ring, pc, block_num, i, packtes_reads, need_update_processes, stop,
                   diff_time, elapsed, missed>>

----------------------------------------------------------------------------
(* The main loop.                                                          *)

Outer_Unchecked ==                  \* faulty: while ( 1 )
    /\ pc = "outer"
    /\ pc' = "drain"
    /\ packtes_reads' = FALSE
    /\ UNCHANGED <<ring, block_num, i, need_update_processes, stop, time, prog_exit, missed>>

Outer ==
    /\ pc = "outer"
    /\ pc' = IF prog_exit THEN "exit" ELSE "drain"
    /\ packtes_reads' = FALSE
    /\ UNCHANGED <<ring, block_num, i, need_update_processes, stop, time, prog_exit, missed>>

ReadBlock ==
    /\ pc = "drain"
    /\ block_status[block_num] = "user"
    /\ pc' = "frames"
    /\ UNCHANGED <<ring, block_num, i, packtes_reads, need_update_processes, stop, time,
                   prog_exit, missed>>

\* parse_packet and statistics_add decide what a packet was: of a kind that is
\* not watched, nobody's so far, or counted.
Note_Last(outcome) == need_update_processes' = (outcome = "nobody's")   \* faulty: overwritten
Note(outcome) ==
    need_update_processes' = (need_update_processes \/ outcome = "nobody's")

ReadPacket(outcome) ==
    /\ pc = "frames"
    /\ i < num_pkts[block_num]
    /\ i' = i + 1
    /\ Note(outcome)
    /\ missed' = (missed \/ outcome = "nobody's")
    /\ packtes_reads' = (packtes_reads \/ outcome = "counted")
    /\ UNCHANGED <<ring, pc, block_num, stop, time, prog_exit>>

\* The block goes back to the kernel and the next one is looked at.
Rotate_Past == block_num' = block_num + 1   \* faulty: the ring is not closed
Rotate == block_num' = After(block_num)

HandBack_Forgotten == UNCHANGED block_status    \* faulty: TP_STATUS_KERNEL is not set
HandBack == block_status' = [block_status EXCEPT ![block_num] = "kernel"]

BlockDone ==
    /\ pc = "frames"
    /\ i = num_pkts[block_num]
    /\ HandBack
    /\ Rotate
    /\ i' = 0
    /\ pc' = "drain"
    /\ UNCHANGED <<num_pkts, filling, packtes_reads, need_update_processes, stop, time,
                   prog_exit, missed>>

\* As long as packets were counted, the blocks are looked at again.
DrainDone ==
    /\ pc = "drain"
    /\ block_status[block_num] # "user"
    /\ pc' = IF packtes_reads THEN "outer" ELSE "inner"
    /\ stop' = FALSE
    /\ UNCHANGED <<ring, block_num, i, packtes_reads, need_update_processes, time,
                   prog_exit, missed>>

Poll ==
    /\ pc = "inner"
    /\ pc' = "poll"
    /\ left' = Timeout
    /\ UNCHANGED <<ring, block_num, i, packtes_reads, need_update_processes, stop,
                   diff_time, elapsed, prog_exit, missed>>

\* poll returns: on its timeout; on a block, a key or both; on an error.  Keys
\* are handled first, and may end the program.
Heed_KeysOnly(sock) == UNCHANGED stop   \* faulty: the socket does not end the wait
Heed(sock) == stop' = (stop \/ sock)

PollReturns ==
    /\ pc = "poll"
    /\ left = 0 \/ Readable
    /\ pc' = "timed"
    /\ Heed(Readable)
    /\ left' = 0
    /\ UNCHANGED <<ring, block_num, i, packtes_reads, need_update_processes, diff_time,
                   elapsed, prog_exit, missed>>

Key ==
    /\ pc = "poll"
    /\ pc' = "timed"
    /\ Heed(Readable)
    /\ left' = 0
    /\ UNCHANGED <<ring, block_num, i, packtes_reads, need_update_processes, diff_time,
                   elapsed, prog_exit, missed>>

Leave ==        \* the key q, or an error of poll
    /\ pc = "poll"
    /\ pc' = "exit"
    /\ left' = 0
    /\ UNCHANGED <<ring, block_num, i, packtes_reads, need_update_processes, stop, diff_time,
                   elapsed, prog_exit, missed>>

Again == pc' = IF stop THEN "outer" ELSE "inner"

\* cur_time lies ahead: diff_time keeps its value.
TooEarly ==
    /\ pc = "timed"
    /\ elapsed < 0
    /\ Again
    /\ UNCHANGED <<ring, block_num, i, packtes_reads, need_update_processes, stop, time,
                   prog_exit, missed>>

NotDue ==
    /\ pc = "timed"
    /\ elapsed \in 0..T_REFRESH - 1
    /\ diff_time' = elapsed
    /\ Again
    /\ UNCHANGED <<ring, block_num, i, packtes_reads, need_update_processes, stop, elapsed,
                   left, prog_exit, missed>>

\* rate_calc, tui_show, log_file and rate_update, then processes_update if it
\* was asked for.  log_file and processes_update may fail and end the program.
UpdateIfNeeded ==
    /\ need_update_processes' = FALSE
    /\ missed' = (missed /\ ~need_update_processes)

Overshoot_Whole == elapsed      \* faulty: diff_time -= T_REFRESH is missing
Overshoot == elapsed - T_REFRESH

Refresh ==
    /\ pc = "timed"
    /\ elapsed >= T_REFRESH
    /\ diff_time' = Overshoot
    /\ elapsed' = -Overshoot        \* cur_time = new_time + diff_time
    /\ UpdateIfNeeded
    /\ Again
    /\ UNCHANGED <<ring, block_num, i, packtes_reads, stop, left, prog_exit>>

RefreshFails ==
    /\ pc = "timed"
    /\ elapsed >= T_REFRESH
    /\ pc' = "exit"
    /\ diff_time' = Overshoot
    /\ elapsed' = -Overshoot
    /\ UNCHANGED <<ring, block_num, i, packtes_reads, need_update_processes, stop, left,
                   prog_exit, missed>>

Exit ==         \* everything is freed
    /\ pc = "exit"
    /\ pc' = "done"
    /\ UNCHANGED <<ring, block_num, i, packtes_reads, need_update_processes, stop, time,
                   prog_exit, missed>>

Terminated == pc = "done" /\ UNCHANGED vars

----------------------------------------------------------------------------
Init ==
    /\ block_status = [b \in Block |-> "kernel"]
    /\ num_pkts = [b \in Block |-> 0]
    /\ filling = 0
    /\ pc = "outer"
    /\ block_num = 0
    /\ i = 0
    /\ packtes_reads = FALSE
    /\ need_update_processes = FALSE
    /\ stop = FALSE
    /\ diff_time = 0
    /\ elapsed = 0
    /\ left = 0
    /\ prog_exit = FALSE
    /\ missed = FALSE

Loop ==
    \/ Outer \/ ReadBlock
    \/ \E outcome \in {"unwatched", "nobody's", "counted"} : ReadPacket(outcome)
    \/ BlockDone \/ DrainDone
    \/ Poll \/ PollReturns
    \/ TooEarly \/ NotDue \/ Refresh \/ RefreshFails
    \/ Exit

Next ==
    \/ \E n \in 1..MaxPkts : HandOver(n)
    \/ Tick \/ Signal
    \/ Loop
    \/ Key \/ Leave
    \/ Terminated

Spec == Init /\ [][Next]_vars

\* The program runs, and time passes while it waits.
FairSpec == Spec /\ WF_vars(Loop) /\ SF_vars(Tick /\ pc = "poll")

----------------------------------------------------------------------------
\* The blocks that are the program's are those from the one it looks at to the
\* one the kernel hands over next: neither side ever works on a block out of
\* turn, and none is left behind.
RingInOrder ==
    /\ TypeOK
    /\ \E n \in 0..tp_block_nr :
        /\ (block_num + n) % tp_block_nr = filling
        /\ \A k \in 0..tp_block_nr - 1 :
            block_status[(block_num + k) % tp_block_nr] = "user" <=> k < n
    /\ pc = "frames" => block_status[block_num] = "user"

\* Traffic that was nobody's is remembered until the processes are read again.
MissRemembered == missed => need_update_processes

\* Every block handed over is read and handed back, or the program ends.
BlocksRead ==
    \A b \in Block : block_status[b] = "user" ~> block_status[b] = "kernel" \/ pc = "done"

\* "time to refresh in milliseconds" (main.c:43): as long as the program comes
\* to wait at all, the screen is refreshed again and again, until a signal comes.
Waits == []<>(pc = "poll") /\ []~prog_exit
RefreshGoesOn == Waits => []<><<Refresh>>_vars

\* So is the list of processes, when asked for.
MissServed == Waits => (missed ~> ~missed)

\* After a signal the first block that finds the program waiting ends it.
SignalThenBlock == prog_exit /\ pc = "poll" /\ Readable ~> pc = "done"
=============================================================================
