--------------------------- MODULE TrackerProofs ---------------------------
(***************************************************************************)
(* For any number of inodes, processes and tuples, and whether or not the  *)
(* kernel moves during an update: no traversal of ht_connections touches a *)
(* freed connection, every connection keeps its two entries between the    *)
(* traversals, the cleanup frees everything, and the sweep never frees     *)
(* what the last update listed.  The second part says what one update      *)
(* achieves.                                                               *)
(***************************************************************************)
EXTENDS Tracker, TLAPS

LEMMA KindPair ==
    /\ "inode" \in Kind /\ "tuple" \in Kind
    /\ \A k \in Kind : Other(k) \in Kind /\ Other(k) # k /\ Other(Other(k)) = k
    /\ \A k, j \in Kind : j = k \/ j = Other(k)
  BY DEF Kind, Other

\* The kernel's steps leave the tracker alone and keep the types.
LEMMA KernelType == TypeOK /\ Kernel => TypeOK'
<1> SUFFICES ASSUME TypeOK, Kernel PROVE TypeOK'
  OBVIOUS
<1> USE DEF TypeOK, connVars, procVars, scanVars
<1>1. ASSUME NEW holding \in [Pid -> SUBSET Inode], Drop(holding)
      PROVE  /\ sock' \in [Inode -> Tuple \cup {NoTuple}]
             /\ held' \in [Pid -> SUBSET Inode]
             /\ orphan' \subseteq Tuple
  BY <1>1, TrackerAssumption DEF Drop, Released, TrackerAssumption
<1>2. /\ UNCHANGED <<heap, table, tupleOf, refs, exitRefs, procOf, htProc, active,
                     conns, list, need, pc, todo, file, lines, pids, cur, fds, listed>>
      /\ fresh' = FALSE
  BY DEF Kernel
<1> SUFFICES /\ sock' \in [Inode -> Tuple \cup {NoTuple}]
             /\ held' \in [Pid -> SUBSET Inode]
             /\ alive' \subseteq Pid
             /\ orphan' \subseteq Tuple
  BY <1>2
<1>3. ASSUME NEW p \in Pid, Spawn(p) PROVE TypeOK'
  BY <1>2, <1>3 DEF Spawn
<1>4. ASSUME NEW p \in Pid, Exit(p) PROVE TypeOK'
  <2>1. [held EXCEPT ![p] = {}] \in [Pid -> SUBSET Inode]
    OBVIOUS
  <2> QED BY <1>1, <1>2, <1>4, <2>1 DEF Exit
<1>5. ASSUME NEW p \in Pid, NEW i \in Inode, NEW t \in Tuple, OpenSocket(p, i, t)
      PROVE TypeOK'
  BY <1>2, <1>5 DEF OpenSocket
<1>6. ASSUME NEW i \in Inode, NEW t \in Tuple, ConnectUdp(i, t) PROVE TypeOK'
  BY <1>2, <1>6 DEF ConnectUdp
<1>7. ASSUME NEW p \in Pid, NEW i \in Inode, CloseSocket(p, i) PROVE TypeOK'
  <2>1. [held EXCEPT ![p] = @ \ {i}] \in [Pid -> SUBSET Inode]
    OBVIOUS
  <2> QED BY <1>1, <1>2, <1>7, <2>1 DEF CloseSocket
<1>8. ASSUME NEW p \in Pid, NEW q \in Pid, NEW i \in Inode, Inherit(p, q, i)
      PROVE TypeOK'
  BY <1>2, <1>8 DEF Inherit
<1>9. ASSUME NEW t \in Tuple, OrphanGone(t) PROVE TypeOK'
  BY <1>2, <1>9 DEF OrphanGone
<1> QED BY <1>3, <1>4, <1>5, <1>6, <1>7, <1>8, <1>9 DEF Kernel

\* Every step of the update keeps the types.
LEMMA UpdateType == TypeOK /\ Update => TypeOK'
<1> SUFFICES ASSUME TypeOK, Update PROVE TypeOK'
  OBVIOUS
<1> USE DEF TypeOK, kernel, connVars, procVars, scanVars, ghost, Phase
<1>1. ASSUME NEW k \in Kind, NEW c \in Conn, SweepEntry(k, c) PROVE TypeOK'
  <2>1. CASE Keep(k, c)
    BY <1>1, <2>1 DEF SweepEntry, Keep
  <2>2. CASE Unlink(k, c)
    BY <1>1, <2>2 DEF SweepEntry, Unlink
  <2>3. CASE UnlinkAndFree(k, c)
    BY <1>1, <2>3 DEF SweepEntry, UnlinkAndFree
  <2> QED BY <1>1, <2>1, <2>2, <2>3 DEF SweepEntry
<1>2. CASE SweepDone
  BY <1>2, TrackerAssumption DEF SweepDone, TrackerAssumption
<1>3. CASE OpenFile
  BY <1>3 DEF OpenFile, Lines, NextFile
<1>4. ASSUME NEW l \in lines, ReadLine(l) PROVE TypeOK'
  <2>1. l[1] \in Conn /\ l[2] \in Tuple
    OBVIOUS
  <2>2. CASE l[1] \in table["inode"]
    BY <1>4, <2>1, <2>2 DEF ReadLine, MARK_ACTIVE_CON
  <2>3. CASE l[1] \notin table["inode"]
    BY <1>4, <2>1, <2>3 DEF ReadLine, MARK_ACTIVE_CON
  <2> QED BY <2>2, <2>3
<1>5. CASE FileDone
  BY <1>5 DEF FileDone
<1>6. CASE FilesDone
  BY <1>6 DEF FilesDone
<1>7. CASE ListPids
  BY <1>7 DEF ListPids
<1>8. ASSUME NEW p \in Pid, ScanPid(p) PROVE TypeOK'
  BY <1>8 DEF ScanPid, Reactivate
<1>9. ASSUME NEW p \in Pid, SkipPid(p) PROVE TypeOK'
  BY <1>9 DEF SkipPid
<1>10. ASSUME NEW i \in Inode, LinkFd(i) PROVE TypeOK'
  BY <1>10 DEF LinkFd, SetProc, Conn
<1>11. ASSUME NEW i \in Inode, SkipFd(i) PROVE TypeOK'
  BY <1>11 DEF SkipFd
<1>12. CASE NameGone
  BY <1>12 DEF NameGone
<1>13. CASE PidDone
  BY <1>13 DEF PidDone
<1>14. CASE ScanDone
  BY <1>14 DEF ScanDone
<1> QED
  BY <1>1, <1>2, <1>3, <1>4, <1>5, <1>6, <1>7, <1>8, <1>9, <1>10, <1>11, <1>12,
     <1>13, <1>14 DEF Update, Sweep, ReadFiles, ScanProcesses

\* And so do the steps of the main loop and of the cleanup.
LEMMA LoopType ==
    TypeOK /\ (UpdateFails \/ (\E t \in Tuple : Packet(t)) \/ BeginUpdate \/ Quit)
        => TypeOK'
<1> USE DEF TypeOK, kernel, connVars, procVars, scanVars, ghost, Phase
<1>1. ASSUME TypeOK, UpdateFails PROVE TypeOK'
  BY <1>1 DEF UpdateFails
<1>2. ASSUME TypeOK, NEW t \in Tuple, Packet(t) PROVE TypeOK'
  BY <1>2 DEF Packet
<1>3. ASSUME TypeOK, BeginUpdate PROVE TypeOK'
  BY <1>3 DEF BeginUpdate
<1>4. ASSUME TypeOK, Quit PROVE TypeOK'
  BY <1>4 DEF Quit
<1> QED BY <1>1, <1>2, <1>3, <1>4

LEMMA CleanUpType == TypeOK /\ CleanUp => TypeOK'
<1> USE DEF TypeOK, kernel, connVars, procVars, scanVars, ghost, Phase
<1>1. ASSUME TypeOK, ProcessesFree PROVE TypeOK'
  BY <1>1 DEF ProcessesFree
<1>2. ASSUME TypeOK, NEW k \in Kind, NEW c \in Conn, FreeEntry(k, c) PROVE TypeOK'
  BY <1>2 DEF FreeEntry
<1>3. ASSUME TypeOK, FreeDone PROVE TypeOK'
  BY <1>3 DEF FreeDone
<1> QED BY <1>1, <1>2, <1>3 DEF CleanUp

----------------------------------------------------------------------------
(* The inductive invariant: the accounting of the entries, with the types  *)
(* and the fact that an entry never outlives its connection.               *)

IInv == TypeOK /\ EntriesLive /\ EntryAccounting

LEMMA InitIInv == Init => IInv
<1> SUFFICES ASSUME Init PROVE IInv
  OBVIOUS
<1>1. TypeOK
  <2>1. /\ sock \in [Inode -> Tuple \cup {NoTuple}] /\ held \in [Pid -> SUBSET Inode]
        /\ alive \subseteq Pid /\ orphan \subseteq Tuple
    BY DEF Init
  <2>2. /\ heap \subseteq Conn /\ table \in [Kind -> SUBSET Conn]
        /\ tupleOf \in [Conn -> Tuple \cup {NoTuple}]
        /\ refs \in [Conn -> 0..3] /\ exitRefs \in [Conn -> 0..1]
        /\ procOf \in [Conn -> Pid \cup {NoPid}]
    BY DEF Init
  <2>3. /\ htProc \subseteq Pid /\ active \subseteq Pid /\ list \subseteq Pid
        /\ conns \in [Pid -> SUBSET Conn] /\ need \in BOOLEAN
    BY DEF Init
  <2>4. /\ pc \in Phase /\ pc # "fds" /\ todo \in [Kind -> SUBSET Conn]
        /\ file \subseteq {"tcp", "udp"} /\ lines \subseteq Conn \X Tuple
        /\ pids \subseteq Pid /\ cur \in Pid \cup {NoPid} /\ fds \subseteq Inode
        /\ fresh \in BOOLEAN /\ listed \subseteq Conn
    BY DEF Init, Phase
  <2> QED BY <2>1, <2>2, <2>3, <2>4 DEF TypeOK
<1>2. EntriesLive
  BY DEF Init, EntriesLive
<1>3. EntryAccounting
  BY KindPair DEF Init, EntryAccounting, SweepCount
<1> QED BY <1>1, <1>2, <1>3 DEF IInv

\* The phases in which no traversal of ht_connections is under way.
Settled == {"files", "lines", "pids", "scan", "fds", "loop", "exit"}

\* A step that stays in these phases and leaves the connections alone keeps
\* the accounting.
LEMMA SettledStable ==
    ASSUME IInv, TypeOK', pc \in Settled, pc' \in Settled,
           UNCHANGED <<heap, table, refs, exitRefs, todo, listed>>
    PROVE  IInv'
  BY DEF IInv, EntriesLive, EntryAccounting, Settled

\* The same for a step that changes neither the phase nor the connections.
LEMMA AccountingStable ==
    ASSUME IInv, TypeOK',
           UNCHANGED <<heap, table, refs, exitRefs, todo, listed, pc, htProc>>
    PROVE  IInv'
  BY DEF IInv, EntriesLive, EntryAccounting, SweepCount, FreeCount

\* One entry visited by the sweep.
LEMMA SweepEntryIInv ==
    ASSUME IInv, NEW k \in Kind, NEW c \in Conn, SweepEntry(k, c), TypeOK'
    PROVE  IInv'
<1> DEFINE j == Other(k)
<1> USE DEF kernel, connVars, procVars, scanVars, ghost
<1>1. /\ pc = "sweep" /\ pc' = "sweep"
      /\ c \in todo[k] /\ c \in table[k] /\ c \in heap
      /\ todo' = [todo EXCEPT ![k] = @ \ {c}]
      /\ UNCHANGED <<exitRefs, listed>>
  BY DEF SweepEntry, IInv, EntriesLive, EntryAccounting
<1>2. /\ k \in Kind /\ j \in Kind /\ j # k
      /\ Other(k) = j /\ Other(j) = k
      /\ \A x \in Kind : x = k \/ x = j
  BY KindPair
<1>3. /\ TypeOK
      /\ \A x \in Kind : table[x] \subseteq heap /\ todo[x] \subseteq table[x]
      /\ \A d \in heap, x \in Kind : SweepCount(d, x)
      /\ \A d \in Conn : exitRefs[d] = 0
  BY <1>1 DEF IInv, EntriesLive, EntryAccounting
<1>4. /\ todo'[k] = todo[k] \ {c}
      /\ todo'[j] = todo[j]
  BY <1>1, <1>2, <1>3 DEF TypeOK
<1>5. SweepCount(c, k) /\ SweepCount(c, j)
  BY <1>1, <1>2, <1>3
<1> SUFFICES /\ \A x \in Kind : table'[x] \subseteq heap' /\ todo'[x] \subseteq table'[x]
             /\ \A d \in heap', x \in Kind : SweepCount(d, x)'
  BY <1>1, <1>3 DEF IInv, EntriesLive, EntryAccounting
\* A connection other than c keeps its counter and its entries.
<1>6. ASSUME NEW d \in heap, d # c, NEW x \in Kind,
             refs'[d] = refs[d],
             \A y \in Kind : d \in table'[y] <=> d \in table[y]
      PROVE  SweepCount(d, x)'
  <2>1. \A y \in Kind : d \in todo'[y] <=> d \in todo[y]
    BY <1>2, <1>4, <1>6
  <2>2. Other(x) \in Kind
    BY KindPair
  <2> QED BY <1>1, <1>3, <1>6, <2>1, <2>2 DEF SweepCount
<1>7. CASE Keep(k, c)
  <2>1. UNCHANGED <<heap, table>> /\ refs[c] \in {2, 3}
        /\ refs' = [refs EXCEPT ![c] = refs[c] - 1]
    BY <1>3, <1>7 DEF Keep, TypeOK
  <2>2. refs'[c] = refs[c] - 1 /\ \A d \in Conn : d # c => refs'[d] = refs[d]
    BY <1>3, <2>1 DEF TypeOK
  <2>3. SweepCount(c, k)' /\ SweepCount(c, j)'
    BY <1>1, <1>2, <1>4, <1>5, <2>1, <2>2 DEF SweepCount
  <2>4. \A d \in heap', x \in Kind : SweepCount(d, x)'
    BY <1>2, <1>3, <1>6, <2>1, <2>2, <2>3 DEF TypeOK
  <2>5. \A x \in Kind : table'[x] \subseteq heap' /\ todo'[x] \subseteq table'[x]
    BY <1>2, <1>3, <1>4, <2>1
  <2> QED BY <2>4, <2>5
<1>8. CASE Unlink(k, c)
  <2>1. UNCHANGED heap /\ refs[c] = 1 /\ refs' = [refs EXCEPT ![c] = 0]
        /\ table' = [table EXCEPT ![k] = @ \ {c}]
    BY <1>8 DEF Unlink
  <2>2. /\ refs'[c] = 0 /\ \A d \in Conn : d # c => refs'[d] = refs[d]
        /\ table'[k] = table[k] \ {c} /\ table'[j] = table[j]
    BY <1>2, <1>3, <2>1 DEF TypeOK
  <2>3. c \in todo[j] /\ c \in table[j] /\ c \notin listed
    BY <1>1, <1>2, <1>5, <2>1 DEF SweepCount
  <2>4. SweepCount(c, k)' /\ SweepCount(c, j)'
    BY <1>1, <1>2, <1>4, <2>2, <2>3 DEF SweepCount
  <2>5. \A d \in heap', x \in Kind : SweepCount(d, x)'
    BY <1>2, <1>3, <1>6, <2>1, <2>2, <2>4 DEF TypeOK
  <2>6. \A x \in Kind : table'[x] \subseteq heap' /\ todo'[x] \subseteq table'[x]
    BY <1>2, <1>3, <1>4, <2>1, <2>2
  <2> QED BY <2>5, <2>6
<1>9. CASE UnlinkAndFree(k, c)
  <2>1. heap' = heap \ {c} /\ refs[c] = 0 /\ UNCHANGED refs
        /\ table' = [table EXCEPT ![k] = @ \ {c}]
    BY <1>9 DEF UnlinkAndFree
  <2>2. table'[k] = table[k] \ {c} /\ table'[j] = table[j]
    BY <1>2, <1>3, <2>1 DEF TypeOK
  <2>3. c \notin todo[j] /\ c \notin table[j]
    BY <1>1, <1>2, <1>5, <2>1 DEF SweepCount
  <2>4. \A d \in heap', x \in Kind : SweepCount(d, x)'
    BY <1>2, <1>6, <2>1, <2>2
  <2>5. \A x \in Kind : table'[x] \subseteq heap' /\ todo'[x] \subseteq table'[x]
    BY <1>2, <1>3, <1>4, <2>1, <2>2, <2>3
  <2> QED BY <2>4, <2>5
<1> QED BY <1>7, <1>8, <1>9 DEF SweepEntry

\* The end of the sweep: what is left has one more update to be listed.
LEMMA SweepDoneIInv == IInv /\ SweepDone /\ TypeOK' => IInv'
<1> SUFFICES ASSUME IInv, SweepDone, TypeOK' PROVE IInv'
  OBVIOUS
<1>1. /\ pc = "sweep" /\ pc' = "files" /\ listed' = {}
      /\ \A k \in Kind : todo[k] = {}
      /\ UNCHANGED <<heap, table, refs, exitRefs, todo>>
  BY DEF SweepDone, connVars
<1>2. /\ \A k \in Kind : table[k] \subseteq heap
      /\ \A c \in heap, k \in Kind : SweepCount(c, k)
      /\ \A c \in Conn : exitRefs[c] = 0
  BY <1>1 DEF IInv, EntriesLive, EntryAccounting
<1>3. \A c \in heap, k \in Kind : c \in table[k] /\ refs[c] = 1
  BY <1>1, <1>2, KindPair DEF SweepCount
<1> QED BY <1>1, <1>2, <1>3, KindPair DEF IInv, EntriesLive, EntryAccounting

\* A line of a file: the connection is there afterwards, with both entries.
LEMMA ReadLineIInv ==
    ASSUME IInv, NEW l \in lines, ReadLine(l), TypeOK' PROVE IInv'
<1> DEFINE c == l[1]
<1>1. c \in Conn
  BY DEF IInv, TypeOK
<1>2. /\ pc = "lines" /\ pc' = "lines" /\ listed' = listed \cup {c}
      /\ refs' = [refs EXCEPT ![c] = 3]
      /\ UNCHANGED <<exitRefs, todo, htProc>>
  BY DEF ReadLine, MARK_ACTIVE_CON, procVars
<1>3. /\ TypeOK
      /\ \A k \in Kind : todo[k] = {} /\ table[k] = heap
      /\ listed \subseteq heap
      /\ \A d \in heap : refs[d] = (IF d \in listed THEN 3 ELSE 1)
      /\ \A d \in Conn : exitRefs[d] = 0
  BY <1>2 DEF IInv, EntryAccounting
<1>4. /\ heap' = heap \cup {c}
      /\ \A k \in Kind : table'[k] = heap'
  <2>1. CASE c \in table["inode"]
    BY <1>3, <2>1, KindPair DEF ReadLine
  <2>2. CASE c \notin table["inode"]
    BY <1>3, <2>2 DEF ReadLine
  <2> QED BY <2>1, <2>2
<1>5. \A d \in heap' : refs'[d] = (IF d \in listed' THEN 3 ELSE 1)
  BY <1>1, <1>2, <1>3, <1>4 DEF TypeOK
<1> QED BY <1>2, <1>3, <1>4, <1>5 DEF IInv, EntriesLive, EntryAccounting

\* The start of an update: every entry is to be visited.
LEMMA BeginUpdateIInv == IInv /\ BeginUpdate /\ TypeOK' => IInv'
<1> SUFFICES ASSUME IInv, BeginUpdate, TypeOK' PROVE IInv'
  OBVIOUS
<1>1. /\ pc = "loop" /\ pc' = "sweep" /\ todo' = table
      /\ UNCHANGED <<heap, table, refs, exitRefs, listed>>
  BY DEF BeginUpdate, connVars
<1>2. /\ \A k \in Kind : table[k] = heap
      /\ \A c \in heap : refs[c] = (IF c \in listed THEN 3 ELSE 1)
      /\ \A c \in Conn : exitRefs[c] = 0
  BY <1>1 DEF IInv, EntryAccounting
<1>3. \A c \in heap', k \in Kind : SweepCount(c, k)'
  BY <1>1, <1>2, KindPair DEF SweepCount
<1> QED BY <1>1, <1>2, <1>3 DEF IInv, EntriesLive, EntryAccounting

\* connection_free() meets the two entries of each connection in any order.
LEMMA CleanUpIInv == IInv /\ CleanUp /\ TypeOK' => IInv'
<1>1. ASSUME IInv, ProcessesFree, TypeOK' PROVE IInv'
  <2>1. /\ pc = "exit" /\ pc' = "free" /\ todo' = table /\ htProc' = {}
        /\ UNCHANGED <<heap, table, refs, exitRefs, listed>>
    BY <1>1 DEF ProcessesFree, connVars, ghost
  <2>2. /\ \A k \in Kind : table[k] = heap
        /\ \A c \in Conn : exitRefs[c] = 0
    BY <1>1, <2>1 DEF IInv, EntryAccounting
  <2>3. \A c \in heap' : FreeCount(c)'
    BY <1>1, <2>1, <2>2 DEF FreeCount, IInv, TypeOK
  <2> QED BY <1>1, <2>1, <2>2, <2>3 DEF IInv, EntriesLive, EntryAccounting
<1>2. ASSUME IInv, NEW k \in Kind, NEW c \in Conn, FreeEntry(k, c), TypeOK' PROVE IInv'
  <2> DEFINE j == Other(k)
  <2>1. /\ pc = "free" /\ pc' = "free" /\ c \in todo[k]
        /\ todo' = [todo EXCEPT ![k] = @ \ {c}]
        /\ table' = [table EXCEPT ![k] = @ \ {c}]
        /\ UNCHANGED <<htProc, listed>>
    BY <1>2 DEF FreeEntry, procVars, ghost
  <2>2. /\ TypeOK
        /\ \A x \in Kind : table[x] \subseteq heap /\ todo[x] = table[x]
        /\ \A d \in heap : FreeCount(d)
        /\ htProc = {}
    BY <1>2, <2>1 DEF IInv, EntriesLive, EntryAccounting
  <2>3. /\ k \in Kind /\ j \in Kind /\ j # k /\ Other(k) = j /\ Other(j) = k
        /\ \A x \in Kind : x = k \/ x = j
    BY KindPair
  <2>4. /\ table'[k] = table[k] \ {c} /\ table'[j] = table[j]
        /\ todo'[k] = todo[k] \ {c} /\ todo'[j] = todo[j]
    BY <2>1, <2>2, <2>3 DEF TypeOK
  <2>5. FreeCount(c) /\ c \in table[k]
    BY <2>1, <2>2
  <2>6. ASSUME NEW d \in heap, d # c, exitRefs'[d] = exitRefs[d] PROVE FreeCount(d)'
    <3>1. \A x \in Kind : d \in table'[x] <=> d \in table[x]
      BY <2>3, <2>4, <2>6
    <3> QED BY <2>2, <2>3, <2>6, <3>1 DEF FreeCount
  <2>7. CASE exitRefs[c] = 1
    <3>1. heap' = heap \ {c} /\ UNCHANGED exitRefs
      BY <1>2, <2>7 DEF FreeEntry
    <3>2. c \notin table[j]
      BY <2>3, <2>5, <2>7 DEF FreeCount
    <3>3. \A x \in Kind : table'[x] \subseteq heap' /\ todo'[x] = table'[x]
      BY <2>2, <2>3, <2>4, <3>1, <3>2
    <3>4. \A d \in heap' : FreeCount(d)'
      BY <2>6, <3>1
    <3> QED BY <1>2, <2>1, <2>2, <3>3, <3>4 DEF IInv, EntriesLive, EntryAccounting
  <2>8. CASE exitRefs[c] # 1
    <3>1. heap' = heap /\ exitRefs[c] = 0 /\ exitRefs'[c] = 1
          /\ \A d \in Conn : d # c => exitRefs'[d] = exitRefs[d]
      BY <1>2, <2>2, <2>5, <2>8 DEF FreeEntry, FreeCount, TypeOK
    <3>2. c \in table[j]
      BY <2>3, <2>5, <3>1 DEF FreeCount
    <3>3. FreeCount(c)'
      BY <2>3, <2>4, <3>1, <3>2 DEF FreeCount
    <3>4. \A d \in heap' : FreeCount(d)'
      BY <2>2, <2>6, <3>1, <3>3 DEF TypeOK
    <3>5. \A x \in Kind : table'[x] \subseteq heap' /\ todo'[x] = table'[x]
      BY <2>2, <2>3, <2>4, <3>1
    <3> QED BY <1>2, <2>1, <2>2, <3>4, <3>5 DEF IInv, EntriesLive, EntryAccounting
  <2> QED BY <2>7, <2>8
<1>3. ASSUME IInv, FreeDone, TypeOK' PROVE IInv'
  <2>1. /\ pc = "free" /\ pc' = "done" /\ \A k \in Kind : todo[k] = {}
        /\ UNCHANGED <<heap, table, todo, htProc>>
    BY <1>3 DEF FreeDone, connVars, scanVars, procVars
  <2>2. heap = {}
    BY <1>3, <2>1 DEF IInv, EntryAccounting, FreeCount, Kind
  <2> QED BY <1>3, <2>1, <2>2 DEF IInv, EntriesLive, EntryAccounting
<1> QED BY <1>1, <1>2, <1>3 DEF CleanUp

\* Every other step leaves the connections alone.
LEMMA OtherIInv ==
    /\ IInv /\ TypeOK'
    /\ \/ Kernel \/ OpenFile \/ FileDone \/ FilesDone \/ ScanProcesses \/ UpdateFails
       \/ (\E t \in Tuple : Packet(t)) \/ Quit
    => IInv'
<1> USE DEF kernel, connVars, procVars, scanVars, ghost, Settled
<1>1. ASSUME IInv, TypeOK', Kernel PROVE IInv'
  BY <1>1, AccountingStable DEF Kernel
<1>2. ASSUME IInv, TypeOK', OpenFile \/ FileDone \/ FilesDone PROVE IInv'
  BY <1>2, SettledStable DEF OpenFile, FileDone, FilesDone
<1>3. ASSUME IInv, TypeOK', ListPids \/ NameGone \/ PidDone \/ ScanDone PROVE IInv'
  BY <1>3, SettledStable DEF ListPids, NameGone, PidDone, ScanDone
<1>4. ASSUME IInv, TypeOK', NEW p \in Pid, ScanPid(p) \/ SkipPid(p) PROVE IInv'
  BY <1>4, SettledStable DEF ScanPid, SkipPid
<1>5. ASSUME IInv, TypeOK', NEW i \in Inode, LinkFd(i) \/ SkipFd(i) PROVE IInv'
  BY <1>5, SettledStable DEF LinkFd, SkipFd
<1>6. ASSUME IInv, TypeOK', UpdateFails \/ Quit PROVE IInv'
  BY <1>6, SettledStable DEF UpdateFails, Quit
<1>7. ASSUME IInv, TypeOK', NEW t \in Tuple, Packet(t) PROVE IInv'
  BY <1>7, AccountingStable DEF Packet
<1> QED
  BY <1>1, <1>2, <1>3, <1>4, <1>5, <1>6, <1>7 DEF ScanProcesses

LEMMA NextType == TypeOK /\ [Next]_vars => TypeOK'
<1>1. ASSUME TypeOK, UNCHANGED vars PROVE TypeOK'
  BY <1>1 DEF TypeOK, vars, kernel, connVars, procVars, scanVars, ghost
<1> QED
  BY <1>1, KernelType, UpdateType, LoopType, CleanUpType DEF Next, Terminated

LEMMA NextIInv == IInv /\ [Next]_vars => IInv'
<1> SUFFICES ASSUME IInv, [Next]_vars PROVE IInv'
  OBVIOUS
<1>1. TypeOK'
  BY NextType DEF IInv
<1>2. ASSUME UNCHANGED vars PROVE IInv'
  BY <1>1, <1>2, AccountingStable
     DEF vars, kernel, connVars, procVars, scanVars, ghost
<1>3. CASE Sweep
  BY <1>1, <1>3, SweepEntryIInv, SweepDoneIInv DEF Sweep
<1>4. CASE ReadFiles
  BY <1>1, <1>4, ReadLineIInv, OtherIInv DEF ReadFiles
<1>5. CASE Next /\ ~Sweep /\ ~ReadFiles
  BY <1>1, <1>2, <1>5, BeginUpdateIInv, CleanUpIInv, OtherIInv
     DEF Next, Update, Terminated
<1> QED BY <1>2, <1>3, <1>4, <1>5

LEMMA Inductive == Spec => []IInv
  BY InitIInv, NextIInv, PTL DEF Spec

----------------------------------------------------------------------------
\* The counters of connection.c, the phases of processes.c and the kernel
\* stay in their ranges.
THEOREM TypeCorrect == Spec => []TypeOK
  BY Inductive, PTL DEF IInv

\* remove_inactives_conns, conn_free and the lookups never touch a connection
\* that has been freed.
THEOREM NeverDangling == Spec => []EntriesLive
  BY Inductive, PTL DEF IInv

\* refs_active and refs_exit mean what the traversals take them to mean.
THEOREM CountersRight == Spec => []EntryAccounting
  BY Inductive, PTL DEF IInv

\* Connections keep both entries between the traversals, and connection_free
\* leaves nothing behind.
THEOREM NothingLost == Spec => []EntriesPaired
<1>1. IInv => EntriesPaired
  BY DEF IInv, TypeOK, Phase, EntryAccounting, EntriesPaired
<1> QED BY <1>1, Inductive, PTL

\* The sweep frees no connection the last update listed.
THEOREM GraceHolds == Spec => GraceKept
<1> DEFINE Kept == pc = "sweep" => (heap \ heap') \cap listed = {}
<1>1. IInv /\ [Next]_vars => [Kept]_vars
  <2> SUFFICES ASSUME IInv, Next, pc = "sweep", heap' # heap
               PROVE  (heap \ heap') \cap listed = {}
    BY DEF vars, connVars
  <2> USE DEF kernel, connVars, procVars, scanVars, ghost
  <2>1. PICK k \in Kind, c \in Conn : SweepEntry(k, c)
    BY DEF Next, Kernel, Update, Sweep, SweepDone, ReadFiles, OpenFile, ReadLine, FileDone,
           FilesDone, ScanProcesses, ListPids, ScanPid, SkipPid, LinkFd, SkipFd, NameGone,
           PidDone, ScanDone, UpdateFails, Packet, BeginUpdate, Quit, CleanUp,
           ProcessesFree, FreeEntry, FreeDone, Terminated, vars
  <2>2. UnlinkAndFree(k, c) /\ c \in todo[k]
    BY <2>1 DEF SweepEntry, Keep, Unlink
  <2>3. c \in heap /\ SweepCount(c, k)
    BY <2>2 DEF IInv, EntriesLive, EntryAccounting
  <2>4. heap' = heap \ {c} /\ refs[c] = 0
    BY <2>2 DEF UnlinkAndFree
  <2>5. c \notin listed
    BY <2>2, <2>3, <2>4 DEF SweepCount
  <2> QED BY <2>4, <2>5
<1> QED BY <1>1, Inductive, PTL DEF Spec, GraceKept

----------------------------------------------------------------------------
(* What one update of processes_update() achieves.  If the kernel stands    *)
(* still while it runs, every open socket of a protocol that is read ends   *)
(* up with its holders, and nobody else; whatever the kernel does, the      *)
(* processes shown are live; and if the kernel moves only between updates,  *)
(* the process a connection points to is never a freed one.                 *)

\* Descriptors belong to running processes, open sockets to some descriptor.
KernelRight ==
    /\ \A p \in Pid : held[p] # {} => p \in alive
    /\ \A i \in Inode : Open(i) => Holders(i) # {}

\* The three sets of processes, and the connections of the active ones.
MembersRight ==
    /\ active \subseteq htProc
    /\ list \subseteq active
    /\ \A p \in Pid \ htProc : conns[p] = {}
    /\ pc = "fds" /\ cur \in htProc => cur \in active
    /\ pc \in {"scan", "fds", "loop"} => \A p \in active : conns[p] \subseteq heap

\* The files: each socket that is tracked has been listed, or its line or its
\* file is still to be read; and nothing is listed that is not open.
Listing == {"files", "lines"}
Scanned == {"pids", "scan", "fds", "loop"}

FilesRight ==
    /\ pc = "lines" => \A l \in lines : l[1] \in Inode => Open(l[1])
    /\ pc \in Listing \cup Scanned => \A i \in listed \cap Inode : Open(i)
    /\ pc \in Listing =>
        \A i \in Inode : Tracked(i) =>
            \/ i \in listed
            \/ \E f \in file : OfFile(f, sock[i])
            \/ pc = "lines" /\ <<i, sock[i]>> \in lines
    /\ pc \in Scanned => \A i \in Inode : Tracked(i) => i \in listed

\* The scan: a process that has been looked at has its connections, the one
\* being looked at has those of the descriptors done, and a listed socket
\* points to a holder or has one to come.
Coming(p, i) == p \in pids \/ (pc = "fds" /\ p = cur /\ i \in fds)

ScanRight ==
    pc \in {"scan", "fds", "loop"} =>
        /\ pids \subseteq alive
        /\ pc = "loop" => pids = {}
        /\ active \subseteq alive
        /\ \A p \in active : conns[p] \subseteq held[p]
        /\ pc = "fds" => cur \in alive /\ cur \notin pids /\ fds \subseteq held[cur]
        /\ \A p \in alive, i \in Inode :
              i \in held[p] /\ i \in heap =>
                \/ Coming(p, i)
                \/ p \in htProc /\ i \in conns[p]
        /\ \A p \in alive, i \in Inode :
              i \in held[p] /\ i \in heap =>
                p \in list \/ p \in pids \/ (pc = "fds" /\ p = cur)
        /\ \A i \in listed \cap Inode :
              procOf[i] \in Holders(i) \/ \E p \in Holders(i) : Coming(p, i)

\* What an update is about only holds while the kernel has not moved.
UpdateRight == fresh => FilesRight /\ ScanRight

\* If the kernel moves in the main loop only: what an update leaves pointing
\* to a process points to an active one, unless it is about to be swept.
Unlisted(c) ==
    \/ refs[c] = 1 /\ \A k \in Kind : c \in todo[k]
    \/ refs[c] = 0 /\ \E k \in Kind : c \in todo[k] /\ c \notin todo[Other(k)]

PointersRight ==
    /\ fresh \/ pc \in {"loop", "exit", "free", "done"}
    /\ procOf[Orphan] = NoPid
    /\ pc \in {"loop", "sweep"} =>
        \A c \in heap \cap listed : procOf[c] \in active \cup {NoPid}
    /\ pc = "sweep" => \A c \in heap \ listed : Unlisted(c)
    /\ pc \in {"files", "lines", "pids"} =>
        \A c \in heap : procOf[c] \in active \cup {NoPid}
    /\ pc \in {"scan", "fds", "loop"} =>
        \A c \in heap : procOf[c] \in htProc \cup {NoPid}

UInv ==
    /\ IInv
    /\ KernelRight
    /\ MembersRight
    /\ UpdateRight
    /\ ~EnvDuringUpdate => PointersRight

LEMMA InitUInv == Init => UInv
<1> SUFFICES ASSUME Init PROVE UInv
  OBVIOUS
<1>1. KernelRight /\ MembersRight
  BY TrackerAssumption DEF Init, KernelRight, MembersRight, Open
<1>2. UpdateRight
  BY DEF Init, UpdateRight, FilesRight, ScanRight, Listing, Scanned
<1>3. PointersRight
  BY DEF Init, PointersRight, Conn
<1> QED BY <1>1, <1>2, <1>3, InitIInv DEF UInv

----------------------------------------------------------------------------
(* The kernel.                                                             *)

\* Only the kernel's own steps change the kernel.
LEMMA KernelOnly == [Next]_vars => Kernel \/ UNCHANGED kernel
<1> USE DEF kernel, connVars, procVars, scanVars, ghost, vars
<1>1. ASSUME Update PROVE UNCHANGED kernel
  BY <1>1 DEF Update, Sweep, SweepEntry, SweepDone, ReadFiles, OpenFile, ReadLine, FileDone,
     FilesDone, ScanProcesses, ListPids, ScanPid, SkipPid, LinkFd, SkipFd, NameGone, PidDone,
     ScanDone
<1>2. ASSUME CleanUp PROVE UNCHANGED kernel
  BY <1>2 DEF CleanUp, ProcessesFree, FreeEntry, FreeDone
<1> QED BY <1>1, <1>2 DEF Next, UpdateFails, Packet, BeginUpdate, Quit, Terminated

\* When descriptors go away, the sockets they leave alone are closed.
LEMMA DropRight ==
    ASSUME TypeOK, KernelRight, NEW holding \in [Pid -> SUBSET Inode], Drop(holding),
           \A p \in Pid : holding[p] # {} => p \in alive'
    PROVE  KernelRight'
<1>1. /\ held' = holding
      /\ \A i \in Inode : sock'[i] = IF i \in Released(holding) THEN NoTuple ELSE sock[i]
  BY DEF Drop
<1>2. ASSUME NEW i \in Inode, Open(i)' PROVE Holders(i)' # {}
  <2>1. Open(i) /\ i \notin Released(holding)
    BY <1>1, <1>2 DEF Open
  <2>2. PICK p \in Pid : i \in holding[p]
    BY <2>1 DEF Released
  <2> QED BY <1>1, <2>2 DEF Holders
<1> QED BY <1>1, <1>2 DEF KernelRight

LEMMA KernelKernelRight == TypeOK /\ KernelRight /\ Kernel => KernelRight'
<1> SUFFICES ASSUME TypeOK, KernelRight, Kernel PROVE KernelRight'
  OBVIOUS
<1>1. ASSUME NEW p \in Pid, Spawn(p) PROVE KernelRight'
  BY <1>1 DEF Spawn, KernelRight, Open, Holders
<1>2. ASSUME NEW p \in Pid, Exit(p) PROVE KernelRight'
  <2> DEFINE h == [held EXCEPT ![p] = {}]
  <2>1. h \in [Pid -> SUBSET Inode] /\ Drop(h) /\ alive' = alive \ {p}
    BY <1>2 DEF Exit, TypeOK
  <2>2. \A q \in Pid : h[q] # {} => q \in alive'
    BY <2>1 DEF KernelRight, TypeOK
  <2> HIDE DEF h
  <2> QED BY <2>1, <2>2, DropRight
<1>3. ASSUME NEW p \in Pid, NEW i \in Inode, NEW t \in Tuple, OpenSocket(p, i, t)
      PROVE KernelRight'
  <2>1. /\ p \in alive /\ alive' = alive
        /\ held'[p] = held[p] \cup {i}
        /\ \A q \in Pid : q # p => held'[q] = held[q]
        /\ \A j \in Inode : j # i => sock'[j] = sock[j]
    BY <1>3 DEF OpenSocket, TypeOK
  <2>2. ASSUME NEW j \in Inode, Open(j)' PROVE Holders(j)' # {}
    BY <2>1, <2>2 DEF KernelRight, Open, Holders
  <2> QED BY <2>1, <2>2 DEF KernelRight
<1>4. ASSUME NEW i \in Inode, NEW t \in Tuple, ConnectUdp(i, t) PROVE KernelRight'
  BY <1>4 DEF ConnectUdp, KernelRight, Open, Holders, TypeOK
<1>5. ASSUME NEW p \in Pid, NEW i \in Inode, CloseSocket(p, i) PROVE KernelRight'
  <2> DEFINE h == [held EXCEPT ![p] = @ \ {i}]
  <2>1. h \in [Pid -> SUBSET Inode] /\ Drop(h) /\ alive' = alive
    BY <1>5 DEF CloseSocket, TypeOK
  <2>2. \A q \in Pid : h[q] # {} => q \in alive'
    BY <2>1, <1>5 DEF CloseSocket, KernelRight, TypeOK
  <2> HIDE DEF h
  <2> QED BY <2>1, <2>2, DropRight
<1>6. ASSUME NEW p \in Pid, NEW q \in Pid, NEW i \in Inode, Inherit(p, q, i)
      PROVE KernelRight'
  BY <1>6 DEF Inherit, KernelRight, Open, Holders, TypeOK
<1>7. ASSUME NEW t \in Tuple, OrphanGone(t) PROVE KernelRight'
  BY <1>7 DEF OrphanGone, KernelRight, Open, Holders
<1> QED BY <1>1, <1>2, <1>3, <1>4, <1>5, <1>6, <1>7 DEF Kernel

LEMMA NextKernelRight == TypeOK /\ KernelRight /\ [Next]_vars => KernelRight'
<1>1. KernelRight /\ UNCHANGED kernel => KernelRight'
  BY DEF kernel, KernelRight, Open, Holders
<1> QED BY <1>1, KernelOnly, KernelKernelRight

----------------------------------------------------------------------------
(* The sets of processes.                                                  *)

\* A step that leaves the processes alone, and starts no scan.
LEMMA MembersStable ==
    ASSUME MembersRight, UNCHANGED <<htProc, active, conns, list>>,
           pc' = "fds" => pc = "fds" /\ UNCHANGED cur,
           pc' \in {"scan", "fds", "loop"} => pc \in {"scan", "fds", "loop"} /\ UNCHANGED heap
    PROVE  MembersRight'
  BY DEF MembersRight

LEMMA NextMembersRight == IInv /\ MembersRight /\ [Next]_vars => MembersRight'
<1> SUFFICES ASSUME IInv, MembersRight, [Next]_vars PROVE MembersRight'
  OBVIOUS
<1> USE DEF kernel, connVars, procVars, scanVars, ghost
<1>1. CASE Kernel \/ UNCHANGED vars
  BY <1>1, MembersStable DEF Kernel, vars
<1>2. CASE Sweep
  BY <1>2, MembersStable DEF Sweep, SweepEntry, SweepDone
<1>3. CASE ReadFiles \/ UpdateFails
  BY <1>3, MembersStable
     DEF ReadFiles, OpenFile, ReadLine, FileDone, FilesDone, UpdateFails
<1>4. CASE ListPids
  BY <1>4 DEF ListPids, MembersRight, IInv, TypeOK
<1>5. ASSUME NEW p \in Pid, ScanPid(p) PROVE MembersRight'
  <2>1. pc = "scan" /\ cur' = p /\ pc' = "fds" /\ UNCHANGED <<heap, htProc, list>>
    BY <1>5 DEF ScanPid
  <2>2. CASE p \in htProc
    <3>1. /\ active' = active \cup {p} /\ conns'[p] = {}
          /\ \A q \in Pid : q # p => conns'[q] = conns[q]
      BY <1>5, <2>2 DEF ScanPid, Reactivate, IInv, TypeOK
    <3> QED BY <2>1, <2>2, <3>1 DEF MembersRight, IInv, TypeOK
  <2>3. CASE p \notin htProc
    BY <1>5, <2>1, <2>3 DEF ScanPid, MembersRight
  <2> QED BY <2>2, <2>3
<1>6. ASSUME NEW i \in Inode, LinkFd(i) PROVE MembersRight'
  <2>1. /\ pc = "fds" /\ pc' = "fds" /\ cur \in Pid /\ cur' = cur /\ i \in table["inode"]
        /\ htProc' = htProc \cup {cur} /\ active' = active \cup {cur}
        /\ UNCHANGED <<heap, list>>
    BY <1>6 DEF LinkFd, IInv, TypeOK
  <2>2. /\ conns'[cur] = conns[cur] \cup {i}
        /\ \A q \in Pid : q # cur => conns'[q] = conns[q]
    BY <1>6, <2>1 DEF LinkFd, IInv, TypeOK
  <2>3. i \in heap
    BY <2>1, KindPair DEF IInv, EntriesLive
  <2>4. conns[cur] \subseteq heap
    BY <2>1 DEF MembersRight
  <2> QED BY <2>1, <2>2, <2>3, <2>4 DEF MembersRight, IInv, TypeOK
<1>7. CASE PidDone
  BY <1>7 DEF PidDone, MembersRight
<1>8. CASE NameGone \/ ScanDone
  BY <1>8, MembersStable DEF NameGone, ScanDone
<1>9. ASSUME NEW p \in Pid, SkipPid(p) PROVE MembersRight'
  BY <1>9, MembersStable DEF SkipPid
<1>10. ASSUME NEW i \in Inode, SkipFd(i) PROVE MembersRight'
  BY <1>10, MembersStable DEF SkipFd
<1>11. CASE (\E t \in Tuple : Packet(t)) \/ BeginUpdate \/ Quit
  BY <1>11, MembersStable DEF Packet, BeginUpdate, Quit
<1>12. CASE CleanUp
  BY <1>12, MembersStable
     DEF CleanUp, ProcessesFree, FreeEntry, FreeDone, MembersRight
<1>13. CASE ScanProcesses
  BY <1>4, <1>5, <1>6, <1>7, <1>8, <1>9, <1>10, <1>13 DEF ScanProcesses
<1> QED BY <1>1, <1>2, <1>3, <1>11, <1>12, <1>13 DEF Next, Update, Terminated

\* The processes the last update listed survive the next remove_dead_proc.
THEOREM ListedStay == Spec => ListedProcKept
<1> DEFINE Kept == pc = "pids" => (htProc \ htProc') \cap list = {}
<1>1. MembersRight /\ [Next]_vars => [Kept]_vars
  <2> SUFFICES ASSUME MembersRight, Next, pc = "pids" PROVE (htProc \ htProc') \cap list = {}
    BY DEF vars
  <2> USE DEF kernel, connVars, procVars, scanVars, ghost
  <2>1. CASE ListPids
    BY <2>1 DEF ListPids, MembersRight
  <2>2. CASE ~ListPids
    <3>1. UNCHANGED htProc
      BY <2>2 DEF Next, Kernel, Update, Sweep, SweepEntry, SweepDone, ReadFiles, OpenFile,
         ReadLine, FileDone, FilesDone, ScanProcesses, ScanPid, SkipPid, LinkFd, SkipFd,
         NameGone, PidDone, ScanDone, UpdateFails, Packet, BeginUpdate, Quit, CleanUp,
         ProcessesFree, FreeEntry, FreeDone, Terminated, vars
    <3> QED BY <3>1
  <2> QED BY <2>1, <2>2
<1>2. Init => MembersRight
  BY InitUInv DEF UInv
<1> QED BY <1>1, <1>2, NextMembersRight, Inductive, PTL DEF Spec, ListedProcKept

----------------------------------------------------------------------------
(* The files and the scan, while the kernel stands still.                  *)

\* What the invariants read of the kernel.
LEMMA KernelSame ==
    ASSUME UNCHANGED kernel
    PROVE  /\ UNCHANGED <<sock, held, alive>>
           /\ \A i \in Inode : Open(i)' = Open(i) /\ Tracked(i)' = Tracked(i)
                               /\ Holders(i)' = Holders(i)
  BY DEF kernel, Open, Tracked, Holders

\* A step that leaves the files and what they listed alone.
LEMMA FilesStable ==
    ASSUME FilesRight, UNCHANGED <<kernel, lines, listed, file>>,
           pc' = pc \/ (pc \in Scanned /\ pc' \in Scanned)
                    \/ pc' \notin Listing \cup Scanned
    PROVE  FilesRight'
<1>1. CASE pc' = pc
  BY <1>1, KernelSame DEF FilesRight
<1>2. CASE pc \in Scanned /\ pc' \in Scanned
  BY <1>2, KernelSame DEF FilesRight, Scanned, Listing
<1>3. CASE pc' \notin Listing \cup Scanned
  BY <1>3, KernelSame DEF FilesRight, Scanned, Listing
<1> QED BY <1>1, <1>2, <1>3

LEMMA SweepFilesRight ==
    ASSUME IInv, FilesRight, UNCHANGED kernel, Sweep PROVE FilesRight'
<1> USE DEF kernel, connVars, procVars, scanVars, ghost
<1>1. ASSUME NEW k \in Kind, NEW c \in Conn, SweepEntry(k, c) PROVE FilesRight'
  BY <1>1, FilesStable DEF SweepEntry
<1>2. CASE SweepDone
  <2>1. pc' = "files" /\ file' = Files /\ listed' = {}
    BY <1>2 DEF SweepDone
  <2> QED BY <2>1, KernelSame DEF FilesRight, Tracked, Listing, Scanned
<1> QED BY <1>1, <1>2 DEF Sweep

LEMMA ReadFilesFilesRight ==
    ASSUME IInv, FilesRight, UNCHANGED kernel, ReadFiles PROVE FilesRight'
<1> USE DEF connVars, procVars, scanVars, ghost, Listing, Scanned
<1>1. CASE OpenFile
  <2>1. /\ pc = "files" /\ pc' = "lines" /\ lines' = Lines(NextFile)
        /\ file' = file \ {NextFile} /\ UNCHANGED listed
    BY <1>1 DEF OpenFile
  <2>2. \A l \in lines' : l[1] \in Inode => Open(l[1])
    BY <2>1, TrackerAssumption DEF Lines, TrackerAssumption, Open
  <2>3. ASSUME NEW i \in Inode, Open(i), OfFile(NextFile, sock[i])
        PROVE  <<i, sock[i]>> \in lines'
    BY <2>1, <2>3 DEF Lines, Open, IInv, TypeOK, Conn
  <2>4. \A i \in Inode : Tracked(i) =>
            \/ i \in listed'
            \/ \E f \in file' : OfFile(f, sock[i])
            \/ <<i, sock[i]>> \in lines'
    BY <2>1, <2>3 DEF FilesRight, Tracked
  <2> QED BY <2>1, <2>2, <2>4, KernelSame DEF FilesRight
<1>2. ASSUME NEW l \in lines, ReadLine(l) PROVE FilesRight'
  <2>1. /\ pc = "lines" /\ pc' = "lines" /\ lines' = lines \ {l}
        /\ listed' = listed \cup {l[1]} /\ UNCHANGED file
    BY <1>2 DEF ReadLine
  <2>2. \A i \in Inode : l = <<i, sock[i]>> => l[1] = i
    OBVIOUS
  <2> QED BY <2>1, <2>2, KernelSame DEF FilesRight
<1>3. CASE FileDone
  BY <1>3, KernelSame DEF FileDone, FilesRight
<1>4. CASE FilesDone
  BY <1>4, KernelSame DEF FilesDone, FilesRight
<1> QED BY <1>1, <1>2, <1>3, <1>4 DEF ReadFiles

\* ListPids starts the scan with every running process to come.
LEMMA ListPidsScanRight ==
    ASSUME IInv, KernelRight, FilesRight, UNCHANGED kernel, ListPids PROVE ScanRight'
<1>1. /\ pc = "pids" /\ pc' = "scan" /\ pids' = alive /\ active' = {} /\ UNCHANGED listed
  BY DEF ListPids, ghost
<1>2. ASSUME NEW i \in listed \cap Inode PROVE \E p \in Holders(i) : p \in alive
  <2>1. Open(i)
    BY <1>1, <1>2 DEF FilesRight, Scanned
  <2> QED BY <2>1 DEF KernelRight, Holders
<1> QED BY <1>1, <1>2, KernelSame DEF ScanRight, Coming

LEMMA ScanPidScanRight ==
    ASSUME IInv, MembersRight, ScanRight, UNCHANGED kernel,
           NEW p \in Pid, ScanPid(p)
    PROVE  ScanRight'
<1>1. /\ pc = "scan" /\ pc' = "fds" /\ p \in pids /\ p \in alive
      /\ pids' = pids \ {p} /\ cur' = p /\ fds' = held[p]
      /\ UNCHANGED <<heap, procOf, htProc, list, listed>>
  BY DEF ScanPid, connVars, ghost
<1>2. /\ active' \subseteq active \cup {p}
      /\ conns'[p] = {} /\ \A q \in Pid : q # p => conns'[q] = conns[q]
  <2>1. CASE p \in htProc
    BY <2>1 DEF ScanPid, Reactivate, IInv, TypeOK
  <2>2. CASE p \notin htProc
    BY <2>2 DEF ScanPid, MembersRight
  <2> QED BY <2>1, <2>2
<1>3. TypeOK
  BY DEF IInv
<1>4. /\ pids' \subseteq alive' /\ active' \subseteq alive'
      /\ cur' \in alive' /\ cur' \notin pids' /\ fds' \subseteq held'[cur']
  BY <1>1, <1>2, KernelSame DEF ScanRight
<1>5. \A q \in active' : conns'[q] \subseteq held'[q]
  BY <1>1, <1>2, <1>3, KernelSame DEF ScanRight, TypeOK
<1>6. \A q \in Pid, i \in Inode : i \in held[q] /\ Coming(q, i) => Coming(q, i)'
  BY <1>1, KernelSame DEF Coming
<1>7. ASSUME NEW q \in alive, NEW i \in Inode, i \in held[q], i \in heap
      PROVE  /\ Coming(q, i)' \/ (q \in htProc' /\ i \in conns'[q])
             /\ q \in list' \/ q \in pids' \/ q = cur'
  BY <1>1, <1>2, <1>3, <1>6, <1>7 DEF ScanRight, TypeOK, Coming
<1>8. \A i \in listed \cap Inode :
          procOf'[i] \in Holders(i) \/ \E q \in Holders(i) : Coming(q, i)'
  BY <1>1, <1>6 DEF ScanRight, Holders
<1> QED BY <1>1, <1>4, <1>5, <1>7, <1>8, KernelSame DEF ScanRight

LEMMA LinkFdScanRight ==
    ASSUME IInv, MembersRight, ScanRight, UNCHANGED kernel,
           NEW i \in Inode, LinkFd(i)
    PROVE  ScanRight'
<1>1. /\ pc = "fds" /\ pc' = "fds" /\ cur \in Pid
      /\ i \in fds /\ i \in held[cur] /\ fds' = fds \ {i}
      /\ htProc' = htProc \cup {cur} /\ active' = active \cup {cur}
      /\ UNCHANGED <<heap, list, pids, cur, listed>>
  BY DEF LinkFd, IInv, TypeOK, ghost
<1>2. /\ procOf'[i] = cur /\ \A c \in Conn : c # i => procOf'[c] = procOf[c]
      /\ conns'[cur] = conns[cur] \cup {i}
      /\ \A q \in Pid : q # cur => conns'[q] = conns[q]
  BY <1>1 DEF LinkFd, SetProc, IInv, TypeOK, Conn
<1>3. conns[cur] \subseteq held[cur]
  BY <1>1 DEF MembersRight, ScanRight
<1>4. \A q \in active' : conns'[q] \subseteq held'[q]
  BY <1>1, <1>2, <1>3, KernelSame DEF ScanRight, IInv, TypeOK
<1>5. \A q \in Pid, j \in Inode : Coming(q, j) => Coming(q, j)' \/ (q = cur /\ j = i)
  BY <1>1 DEF Coming
<1>6. ASSUME NEW q \in alive, NEW j \in Inode, j \in held[q], j \in heap
      PROVE  Coming(q, j)' \/ (q \in htProc' /\ j \in conns'[q])
  BY <1>1, <1>2, <1>5, <1>6 DEF ScanRight, IInv, TypeOK
<1>7. \A j \in listed \cap Inode :
          procOf'[j] \in Holders(j) \/ \E q \in Holders(j) : Coming(q, j)'
  BY <1>1, <1>2, <1>5 DEF ScanRight, Holders, Conn
<1> QED BY <1>1, <1>4, <1>6, <1>7, KernelSame DEF ScanRight

\* A descriptor is passed over only if its socket is not in the table.
LEMMA SkipFdScanRight ==
    ASSUME IInv, ScanRight, UNCHANGED kernel, NEW i \in Inode, SkipFd(i)
    PROVE  ScanRight'
<1>1. /\ pc = "fds" /\ pc' = "fds" /\ fds' = fds \ {i}
      /\ UNCHANGED <<heap, table, procOf, htProc, active, conns, list, pids, cur, listed>>
  BY DEF SkipFd, connVars, procVars, ghost
<1>2. i \notin heap /\ listed \subseteq heap
  BY <1>1, KindPair DEF SkipFd, ScanRight, IInv, EntryAccounting
<1>3. \A q \in Pid, j \in heap : Coming(q, j) => Coming(q, j)'
  BY <1>1, <1>2 DEF Coming
<1>4. ASSUME NEW q \in alive, NEW j \in Inode, j \in held[q], j \in heap
      PROVE  Coming(q, j)' \/ (q \in htProc' /\ j \in conns'[q])
  BY <1>1, <1>3, <1>4 DEF ScanRight, IInv, TypeOK
<1>5. \A j \in listed \cap Inode :
          procOf'[j] \in Holders(j) \/ \E q \in Holders(j) : Coming(q, j)'
  BY <1>1, <1>2, <1>3 DEF ScanRight, Holders
<1> QED BY <1>1, <1>4, <1>5, KernelSame DEF ScanRight

LEMMA ScanProcessesUpdateRight ==
    ASSUME IInv, KernelRight, MembersRight, FilesRight, ScanRight, UNCHANGED kernel,
           ScanProcesses
    PROVE  FilesRight' /\ ScanRight'
<1> USE DEF connVars, procVars, scanVars, ghost
<1>1. FilesRight'
  <2> USE DEF Scanned
  <2>1. CASE ListPids \/ NameGone \/ PidDone \/ ScanDone
    BY <2>1, FilesStable DEF ListPids, NameGone, PidDone, ScanDone
  <2>2. ASSUME NEW p \in Pid, ScanPid(p) \/ SkipPid(p) PROVE FilesRight'
    BY <2>2, FilesStable DEF ScanPid, SkipPid
  <2>3. ASSUME NEW i \in Inode, LinkFd(i) \/ SkipFd(i) PROVE FilesRight'
    BY <2>3, FilesStable DEF LinkFd, SkipFd
  <2> QED BY <2>1, <2>2, <2>3 DEF ScanProcesses
<1>2. ScanRight'
  <2>1. CASE ListPids
    BY <2>1, ListPidsScanRight
  <2>2. ASSUME NEW p \in Pid, ScanPid(p) PROVE ScanRight'
    BY <2>2, ScanPidScanRight
  <2>3. ASSUME NEW p \in Pid, SkipPid(p) PROVE ScanRight'
    BY <2>3 DEF SkipPid, ScanRight
  <2>4. ASSUME NEW i \in Inode, LinkFd(i) PROVE ScanRight'
    BY <2>4, LinkFdScanRight
  <2>5. ASSUME NEW i \in Inode, SkipFd(i) PROVE ScanRight'
    BY <2>5, SkipFdScanRight
  <2>6. CASE NameGone
    BY <2>6 DEF NameGone, ScanRight
  <2>7. CASE PidDone
    <3>1. /\ pc = "fds" /\ pc' = "scan" /\ fds = {} /\ list' = list \cup ({cur} \cap htProc)
          /\ UNCHANGED <<heap, procOf, htProc, active, conns, pids, listed>>
      BY <2>7 DEF PidDone
    <3>2. \A q \in Pid, j \in Inode : Coming(q, j) => q \in pids'
      BY <3>1 DEF Coming
    <3>3. ASSUME NEW q \in alive, NEW j \in Inode, j \in held[q], j \in heap
          PROVE  /\ q \in pids' \/ (q \in htProc' /\ j \in conns'[q])
                 /\ q \in list' \/ q \in pids'
      BY <3>1, <3>2, <3>3 DEF ScanRight, IInv, TypeOK
    <3>4. \A j \in listed \cap Inode :
              procOf'[j] \in Holders(j) \/ \E q \in Holders(j) : q \in pids'
      BY <3>1, <3>2 DEF ScanRight, Holders
    <3> QED BY <3>1, <3>3, <3>4, KernelSame DEF ScanRight, Coming
  <2>8. CASE ScanDone
    <3>1. /\ pc = "scan" /\ pc' = "loop" /\ pids = {}
          /\ UNCHANGED <<heap, procOf, htProc, active, conns, list, pids, listed>>
      BY <2>8 DEF ScanDone
    <3> QED BY <3>1, KernelSame DEF ScanRight, Coming
  <2> QED BY <2>1, <2>2, <2>3, <2>4, <2>5, <2>6, <2>7, <2>8 DEF ScanProcesses
<1> QED BY <1>1, <1>2

LEMMA NextUpdateRight ==
    IInv /\ KernelRight /\ MembersRight /\ UpdateRight /\ [Next]_vars => UpdateRight'
<1> SUFFICES ASSUME IInv, KernelRight, MembersRight, UpdateRight, [Next]_vars, fresh'
             PROVE  FilesRight' /\ ScanRight'
  BY DEF UpdateRight
<1> USE DEF connVars, procVars, scanVars, ghost
<1>1. CASE UNCHANGED vars
  <2>1. FilesRight /\ ScanRight
    BY <1>1 DEF UpdateRight, vars
  <2> QED BY <1>1, <2>1, FilesStable, KernelSame DEF vars, ScanRight, Coming
<1>2. CASE BeginUpdate
  BY <1>2 DEF BeginUpdate, FilesRight, ScanRight, Listing, Scanned
<1>3. ~Kernel
  BY DEF Kernel
<1>4. UNCHANGED kernel
  BY <1>3, KernelOnly
<1>5. CASE Sweep
  <2>1. fresh /\ pc' \in {"sweep", "files"}
    BY <1>5 DEF Sweep, SweepEntry, SweepDone
  <2> QED BY <1>4, <1>5, <2>1, SweepFilesRight DEF UpdateRight, ScanRight
<1>6. CASE ReadFiles
  <2>1. fresh /\ pc' \in {"files", "lines", "pids"}
    BY <1>6 DEF ReadFiles, OpenFile, ReadLine, FileDone, FilesDone
  <2> QED BY <1>4, <1>6, <2>1, ReadFilesFilesRight DEF UpdateRight, ScanRight
<1>7. CASE ScanProcesses
  <2>1. fresh
    BY <1>7 DEF ScanProcesses, ListPids, ScanPid, SkipPid, LinkFd, SkipFd, NameGone, PidDone,
       ScanDone
  <2> QED BY <1>4, <1>7, <2>1, ScanProcessesUpdateRight DEF UpdateRight
<1>8. CASE UpdateFails \/ Quit \/ CleanUp
  <2>1. pc' \in {"exit", "free", "done"}
    BY <1>8 DEF UpdateFails, Quit, CleanUp, ProcessesFree, FreeEntry, FreeDone
  <2> QED BY <2>1 DEF FilesRight, ScanRight, Listing, Scanned
<1>9. ASSUME NEW t \in Tuple, Packet(t) PROVE FilesRight' /\ ScanRight'
  <2>1. FilesRight /\ ScanRight
    BY <1>9 DEF Packet, UpdateRight
  <2>2. UNCHANGED <<heap, procOf, htProc, active, conns, list, pids, cur, fds, pc, lines,
                    listed, file>>
    BY <1>9 DEF Packet
  <2> QED BY <1>4, <2>1, <2>2, FilesStable, KernelSame DEF ScanRight, Coming
<1> QED
  BY <1>1, <1>2, <1>3, <1>5, <1>6, <1>7, <1>8, <1>9 DEF Next, Update, Terminated

----------------------------------------------------------------------------
(* The processes the connections point to, when the kernel moves only in   *)
(* the main loop.                                                          *)

\* A step that leaves connections and processes alone, in a phase that
\* promises no more than the last one.
LEMMA PointersStable ==
    ASSUME PointersRight, UNCHANGED <<heap, refs, procOf, htProc, active, todo, listed>>,
           fresh' \/ pc' \in {"loop", "exit", "free", "done"},
           \/ pc' = pc
           \/ pc' \in {"exit", "free", "done"}
           \/ pc \in {"files", "lines", "pids"} /\ pc' \in {"files", "lines", "pids"}
           \/ pc \in {"scan", "fds"} /\ pc' \in {"scan", "fds"}
    PROVE  PointersRight'
  BY DEF PointersRight, Unlisted

LEMMA SweepPointersRight ==
    ASSUME IInv, PointersRight, Sweep PROVE PointersRight'
<1> USE DEF kernel, connVars, procVars, scanVars, ghost
<1>1. ASSUME NEW k \in Kind, NEW c \in Conn, SweepEntry(k, c) PROVE PointersRight'
  <2> DEFINE j == Other(k)
  <2>1. /\ pc = "sweep" /\ pc' = "sweep" /\ c \in todo[k] /\ c \in heap
        /\ todo' = [todo EXCEPT ![k] = @ \ {c}]
        /\ UNCHANGED <<active, listed, fresh>>
    BY <1>1 DEF SweepEntry, IInv, EntriesLive, EntryAccounting
  <2>2. /\ k \in Kind /\ j \in Kind /\ j # k /\ Other(k) = j /\ Other(j) = k
        /\ \A x \in Kind : x = k \/ x = j
    BY KindPair
  <2>3. /\ TypeOK
        /\ \A d \in heap, x \in Kind : SweepCount(d, x)
    BY <2>1 DEF IInv, EntryAccounting
  <2>4. todo'[k] = todo[k] \ {c} /\ todo'[j] = todo[j]
    BY <2>1, <2>2, <2>3 DEF TypeOK
  <2>5. /\ fresh /\ procOf[Orphan] = NoPid
        /\ \A d \in heap \cap listed : procOf[d] \in active \cup {NoPid}
        /\ \A d \in heap \ listed : Unlisted(d)
    BY <2>1 DEF PointersRight
  <2>6. /\ heap' \subseteq heap
        /\ \A d \in Conn : d # c => refs'[d] = refs[d]
        /\ \A d \in Conn : procOf'[d] \in {procOf[d], NoPid}
    BY <1>1, <2>3 DEF SweepEntry, Keep, Unlink, UnlinkAndFree, TypeOK
  <2>7. ASSUME NEW d \in heap \ listed, d # c PROVE Unlisted(d)'
    <3>1. \A x \in Kind : d \in todo'[x] <=> d \in todo[x]
      BY <2>2, <2>4, <2>7
    <3>2. refs'[d] = refs[d] /\ Unlisted(d)
      BY <2>3, <2>5, <2>6, <2>7 DEF TypeOK
    <3> QED BY <3>1, <3>2, KindPair DEF Unlisted
  <2>8. ASSUME c \notin listed, c \in heap' PROVE Unlisted(c)'
    <3>1. Unlisted(c) /\ SweepCount(c, k) /\ SweepCount(c, j)
      BY <2>1, <2>2, <2>3, <2>5, <2>8
    <3>2. CASE refs[c] = 1
      <4>1. c \in todo[j] /\ refs'[c] = 0
        BY <1>1, <2>1, <2>2, <2>3, <3>1, <3>2
           DEF Unlisted, SweepEntry, Keep, Unlink, UnlinkAndFree, TypeOK
      <4> QED BY <2>2, <2>4, <4>1 DEF Unlisted
    <3>3. CASE refs[c] = 0
      BY <1>1, <2>8, <3>3 DEF SweepEntry, Keep, Unlink, UnlinkAndFree
    <3> QED BY <3>1, <3>2, <3>3 DEF Unlisted
  <2>9. procOf'[Orphan] = NoPid
    BY <2>5, <2>6 DEF Conn
  <2>10. \A d \in heap' \cap listed' : procOf'[d] \in active' \cup {NoPid}
    BY <2>1, <2>3, <2>5, <2>6 DEF TypeOK
  <2>11. \A d \in heap' \ listed' : Unlisted(d)'
    BY <2>1, <2>6, <2>7, <2>8
  <2> QED BY <2>1, <2>5, <2>9, <2>10, <2>11 DEF PointersRight
<1>2. CASE SweepDone
  <2>1. /\ pc = "sweep" /\ pc' = "files" /\ \A k \in Kind : todo[k] = {}
        /\ UNCHANGED <<heap, procOf, active, fresh>>
    BY <1>2 DEF SweepDone
  <2>2. heap \subseteq listed
    BY <2>1, KindPair DEF PointersRight, Unlisted
  <2> QED BY <2>1, <2>2 DEF PointersRight
<1> QED BY <1>1, <1>2 DEF Sweep

LEMMA ReadFilesPointersRight ==
    ASSUME IInv, PointersRight, ReadFiles PROVE PointersRight'
<1> USE DEF kernel, connVars, procVars, scanVars, ghost
<1>1. CASE OpenFile \/ FileDone \/ FilesDone
  BY <1>1, PointersStable DEF OpenFile, FileDone, FilesDone, PointersRight
<1>2. ASSUME NEW l \in lines, ReadLine(l) PROVE PointersRight'
  <2>1. /\ pc = "lines" /\ pc' = "lines" /\ UNCHANGED <<fresh, active>>
        /\ l[1] \in Conn /\ TypeOK
    BY <1>2 DEF ReadLine, IInv, TypeOK
  <2>2. /\ fresh /\ procOf[Orphan] = NoPid
        /\ \A c \in heap : procOf[c] \in active \cup {NoPid}
    BY <2>1 DEF PointersRight
  <2>3. /\ heap' \subseteq heap \cup {l[1]}
        /\ \A c \in Conn : c # l[1] => procOf'[c] = procOf[c]
        /\ procOf'[l[1]] = NoPid \/ (heap' = heap /\ procOf' = procOf)
    BY <1>2, <2>1 DEF ReadLine, TypeOK
  <2>4. procOf'[Orphan] = NoPid
    BY <2>2, <2>3 DEF Conn
  <2>5. \A c \in heap' : procOf'[c] \in active' \cup {NoPid}
    BY <2>1, <2>2, <2>3 DEF TypeOK
  <2> QED BY <2>1, <2>2, <2>4, <2>5 DEF PointersRight
<1> QED BY <1>1, <1>2 DEF ReadFiles

LEMMA ScanProcessesPointersRight ==
    ASSUME UInv, PointersRight, ScanProcesses, TypeOK' PROVE PointersRight'
<1> USE DEF kernel, connVars, procVars, scanVars, ghost
<1>1. CASE ListPids
  <2>1. /\ pc = "pids" /\ pc' = "scan" /\ htProc' = htProc \cap active
        /\ UNCHANGED <<heap, procOf, fresh>>
    BY <1>1 DEF ListPids
  <2>2. active \subseteq htProc
    BY DEF UInv, MembersRight
  <2> QED BY <2>1, <2>2 DEF PointersRight
<1>2. ASSUME NEW p \in Pid, ScanPid(p) PROVE PointersRight'
  BY <1>2 DEF ScanPid, PointersRight
<1>3. ASSUME NEW p \in Pid, SkipPid(p) PROVE PointersRight'
  BY <1>3, PointersStable DEF SkipPid, PointersRight
<1>4. ASSUME NEW i \in Inode, LinkFd(i) PROVE PointersRight'
  <2>1. /\ pc = "fds" /\ pc' = "fds" /\ htProc' = htProc \cup {cur} /\ cur \in Pid
        /\ UNCHANGED <<heap, fresh>> /\ TypeOK
    BY <1>4 DEF LinkFd, UInv, IInv, TypeOK
  <2>2. procOf'[i] = cur /\ \A c \in Conn : c # i => procOf'[c] = procOf[c]
    BY <1>4, <2>1 DEF LinkFd, SetProc, TypeOK, Conn
  <2>3. procOf'[Orphan] = procOf[Orphan]
    BY <2>2, TrackerAssumption DEF TrackerAssumption, Conn
  <2>4. \A c \in heap' : procOf'[c] \in htProc' \cup {NoPid}
    BY <2>1, <2>2 DEF PointersRight, TypeOK
  <2> QED BY <2>1, <2>3, <2>4 DEF PointersRight
<1>5. ASSUME NEW i \in Inode, SkipFd(i) PROVE PointersRight'
  BY <1>5, PointersStable DEF SkipFd, PointersRight
<1>6. CASE NameGone \/ PidDone
  BY <1>6, PointersStable DEF NameGone, PidDone, PointersRight
<1>7. CASE ScanDone
  <2>1. /\ pc = "scan" /\ pc' = "loop" /\ pids = {}
        /\ UNCHANGED <<heap, listed, procOf, htProc, active, fresh>>
    BY <1>7 DEF ScanDone
  <2>2. ScanRight /\ list \subseteq active /\ listed \subseteq heap /\ fresh
    BY <2>1 DEF PointersRight, UInv, UpdateRight, MembersRight, IInv, EntryAccounting
  \* Whoever a listed socket points to has been scanned, so it is active.
  <2>3. ASSUME NEW i \in listed \cap Inode PROVE procOf[i] \in active
    <3>1. procOf[i] \in Holders(i)
      BY <2>1, <2>2 DEF ScanRight, Coming
    <3>2. /\ procOf[i] \in Pid /\ procOf[i] \in alive /\ i \in held[procOf[i]]
      BY <3>1 DEF Holders, UInv, KernelRight
    <3>3. procOf[i] \in list
      BY <2>1, <2>2, <3>2 DEF ScanRight
    <3> QED BY <2>2, <3>3
  <2>4. \A c \in heap \cap listed : procOf[c] \in active \cup {NoPid}
    BY <2>3 DEF PointersRight, UInv, IInv, TypeOK, Conn
  <2> QED BY <2>1, <2>2, <2>4 DEF PointersRight
<1> QED BY <1>1, <1>2, <1>3, <1>4, <1>5, <1>6, <1>7 DEF ScanProcesses

LEMMA NextPointersRight ==
    ASSUME UInv, ~EnvDuringUpdate, [Next]_vars, TypeOK' PROVE PointersRight'
<1>1. PointersRight
  BY DEF UInv
<1> USE DEF kernel, connVars, procVars, scanVars, ghost
<1>2. CASE Kernel
  <2>1. pc = "loop"
    BY <1>2 DEF Kernel, KernelMay
  <2> QED BY <1>1, <1>2, <2>1, PointersStable DEF Kernel
<1>3. CASE UNCHANGED vars
  BY <1>1, <1>3, PointersStable DEF vars, PointersRight
<1>4. CASE Sweep
  BY <1>1, <1>4, SweepPointersRight DEF UInv
<1>5. CASE ReadFiles
  BY <1>1, <1>5, ReadFilesPointersRight DEF UInv
<1>6. CASE ScanProcesses
  BY <1>1, <1>6, ScanProcessesPointersRight
<1>7. CASE UpdateFails \/ Quit \/ \E t \in Tuple : Packet(t)
  BY <1>1, <1>7, PointersStable DEF UpdateFails, Quit, Packet, PointersRight
<1>8. CASE BeginUpdate
  <2>1. /\ pc = "loop" /\ pc' = "sweep" /\ todo' = table /\ fresh'
        /\ UNCHANGED <<heap, refs, procOf, active, listed>>
    BY <1>8 DEF BeginUpdate
  <2>2. /\ \A k \in Kind : table[k] = heap
        /\ \A c \in heap \ listed : refs[c] = 1
    BY <2>1 DEF UInv, IInv, EntryAccounting
  <2> QED BY <1>1, <2>1, <2>2 DEF PointersRight, Unlisted
<1>9. CASE CleanUp
  <2>1. pc' \in {"free", "done"} /\ UNCHANGED procOf
    BY <1>9 DEF CleanUp, ProcessesFree, FreeEntry, FreeDone
  <2> QED BY <1>1, <2>1 DEF PointersRight
<1> QED BY <1>2, <1>3, <1>4, <1>5, <1>6, <1>7, <1>8, <1>9 DEF Next, Update, Terminated

LEMMA NextUInv == UInv /\ [Next]_vars => UInv'
<1> SUFFICES ASSUME UInv, [Next]_vars PROVE UInv'
  OBVIOUS
<1>1. IInv' /\ TypeOK'
  BY NextIInv DEF UInv, IInv
<1>2. KernelRight' /\ MembersRight' /\ UpdateRight'
  BY NextKernelRight, NextMembersRight, NextUpdateRight DEF UInv, IInv
<1>3. ~EnvDuringUpdate => PointersRight'
  BY <1>1, NextPointersRight
<1> QED BY <1>1, <1>2, <1>3 DEF UInv

LEMMA UpdateInductive == Spec => []UInv
  BY InitUInv, NextUInv, PTL DEF Spec

----------------------------------------------------------------------------
\* Whatever the kernel does during an update, the processes rate_calc,
\* tui_show and log_file walk, and their connections, are allocated.
THEOREM ShownLive == Spec => []ShownIsLive
<1>1. UInv => ShownIsLive
  BY DEF UInv, MembersRight, ShownIsLive
<1> QED BY <1>1, UpdateInductive, PTL

\* An update during which nothing moved maps every open socket of a protocol
\* it reads: its connection is active, points to a holder, and every holder
\* is listed with it.
THEOREM SocketsMapped == Spec => []UpdateMapsSockets
<1>1. UInv => UpdateMapsSockets
  <2> SUFFICES ASSUME UInv, pc = "loop", fresh, NEW i \in Inode, Tracked(i)
               PROVE  /\ i \in heap /\ refs[i] = 3
                      /\ procOf[i] \in Holders(i)
                      /\ \A p \in Holders(i) : p \in list /\ i \in conns[p]
    BY DEF UpdateMapsSockets
  <2>1. FilesRight /\ ScanRight /\ KernelRight
    BY DEF UInv, UpdateRight
  <2>2. i \in listed /\ i \in heap /\ refs[i] = 3
    BY <2>1 DEF FilesRight, Scanned, UInv, IInv, EntryAccounting
  <2>3. procOf[i] \in Holders(i)
    BY <2>1, <2>2 DEF ScanRight, Coming
  <2>4. ASSUME NEW p \in Holders(i) PROVE p \in list /\ i \in conns[p]
    <3>1. p \in alive /\ i \in held[p]
      BY <2>1 DEF Holders, KernelRight
    <3> QED BY <2>1, <2>2, <3>1 DEF ScanRight, Coming
  <2> QED BY <2>2, <2>3, <2>4
<1> QED BY <1>1, UpdateInductive, PTL

\* And it lists nobody who is not running, with no connection that process
\* does not hold.
THEOREM HoldersListed == Spec => []UpdateListsHolders
<1>1. UInv => UpdateListsHolders
  BY DEF UInv, UpdateRight, ScanRight, MembersRight, UpdateListsHolders
<1> QED BY <1>1, UpdateInductive, PTL

\* conn->proc is NULL or a process that is still allocated, as long as the
\* kernel holds still during each update: the dangling run is the other case.
THEOREM PointersLive == Spec => [](~EnvDuringUpdate => ProcPointerLive)
<1>1. UInv => (~EnvDuringUpdate => ProcPointerLive)
  BY DEF UInv, PointersRight, ProcPointerLive
<1> QED BY <1>1, UpdateInductive, PTL
=============================================================================
