------------------------------ MODULE MCScreen ------------------------------
(* Lists of one to five processes.  The first may have connections that receive
   or send only, some with so few packets that they are rounded to none, and a
   silent one; "uploads" and "trickles" are too long for a line of the pad.
   The pad has six rows to begin with, of which the terminal shows three.  In
   most orders of the last list the process with connections is the last one,
   and the pad is made larger for them too late and by too little. *)
EXTENDS Screen

Stat(tx, rx, ptx, prx, tot) ==
  [c \in PPS_TX..TOT_RX |->
     CASE c = PPS_TX -> ptx [] c = PPS_RX -> prx [] c = RATE_TX -> tx
       [] c = RATE_RX -> rx [] OTHER -> tot]

Conn(id) == [id |-> id,
             width |-> CASE id = "uploads"  -> MIN_COLS_PAD + 4
                         [] id = "trickles" -> MIN_COLS_PAD
                         [] OTHER           -> MIN_COLS_PAD - 4,
             stat |-> CASE id = "sends"    -> Stat(1, 0, 1, 0, 1)
                        [] id = "uploads"  -> Stat(2, 0, 1, 0, 1)
                        [] id = "receives" -> Stat(0, 2, 0, 1, 1)
                        [] id = "trickles" -> Stat(0, 1, 0, 0, 1)
                        [] id = "silent"   -> Stat(0, 0, 0, 0, 1)]

Proc(pid, stat, ids) ==
  [pid |-> pid, name |-> "process " \o ToString(pid),
   width |-> MIN_COLS_PAD + (IF pid = 3 THEN 2 ELSE 0), stat |-> stat,
   conns |-> {Conn(id) : id \in ids}]

Busy1(ids) == Proc(1, Stat(1, 2, 1, 1, 2), ids)
Steady(pid) == Proc(pid, Stat(pid, pid, pid, pid, pid), {})
Never == Proc(9, Stat(0, 0, 0, 0, 0), {})

MCLists == {{Busy1({}), Never},
            {Steady(4), Steady(5)},
            {Busy1({"sends", "uploads", "receives"})},
            {Busy1({"trickles", "silent", "sends"})} \cup {Steady(pid) : pid \in 3..6}}
=============================================================================
