------------------------------ MODULE Tracker ------------------------------
(***************************************************************************)
(* The core of netproc: which process owns the connection a packet belongs *)
(* to.  connection.c keeps one hash table with TWO entries per connection  *)
(* (keyed by inode and by tuple), processes.c the processes that own some  *)
(* connection, and statistics.c looks a packet up in the first and charges *)
(* the process it points to.  Both tables are refreshed from /proc by      *)
(* processes_update(), in several separate reads of a kernel that does not *)
(* stand still.                                                            *)
(*                                                                         *)
(* A connection_t is named by the inode it was created for and a process_t *)
(* by its pid: each table holds at most one live object per name.  `heap'  *)
(* and htProc say which objects are allocated, so a name outside them is a *)
(* dangling pointer.  The allocator never fails here.                      *)
(***************************************************************************)
EXTENDS Naturals, FiniteSets

CONSTANTS
    Inode,              \* inode numbers of sockets held open by a process
    Orphan,             \* inode 0: the kernel shows it for a closed socket
    Pid,                \* process identifiers
    Tuple,              \* (addresses, ports, protocol) of a socket
    TcpTuple,           \* those whose protocol is TCP; the others are UDP
    NoTuple, NoPid,     \* "no socket", NULL
    Files,              \* co->proto: which of "tcp" and "udp" are read
    EnvDuringUpdate     \* may the kernel change between two reads of /proc?

ASSUME TrackerAssumption ==
    /\ Orphan \notin Inode
    /\ TcpTuple \subseteq Tuple
    /\ NoTuple \notin Tuple
    /\ NoPid \notin Pid
    /\ Files \subseteq {"tcp", "udp"}
    /\ EnvDuringUpdate \in BOOLEAN

Conn == Inode \cup {Orphan}
Kind == {"inode", "tuple"}          \* the two keys of a connection
Other(k) == IF k = "inode" THEN "tuple" ELSE "inode"

VARIABLES
    \* the kernel
    sock,       \* the tuple of each open socket
    held,       \* the sockets each process has a descriptor for
    alive,      \* the running processes
    orphan,     \* tuples of closed TCP sockets that are still listed
    \* connection.c
    heap,       \* connections allocated and not freed
    table,      \* ht_connections: the entries of each kind
    tupleOf,    \* conn->tuple
    refs,       \* conn->refs_active
    exitRefs,   \* conn->refs_exit
    procOf,     \* conn->proc
    \* processes.c and main.c
    htProc,     \* ht_process: the processes allocated
    active,     \* those with proc->active
    conns,      \* proc->conections
    list,       \* procs->proc, what is rated, shown and logged
    need,       \* need_update_processes
    \* where processes_update() stands
    pc,
    todo,       \* entries a table traversal has still to visit
    file,       \* the /proc/net files still to be read
    lines,      \* lines of the open file still to be handled
    pids,       \* processes of the /proc listing still to be scanned
    cur, fds,   \* the process being scanned, its descriptors left
    \* history, read by no action of the program
    fresh,      \* the kernel has not changed since the last update began
    listed      \* inodes in the files the last update read

kernel   == <<sock, held, alive, orphan>>
connVars == <<heap, table, tupleOf, refs, exitRefs, procOf>>
procVars == <<htProc, active, conns, list>>
scanVars == <<todo, file, lines, pids, cur, fds>>
ghost    == <<fresh, listed>>
vars     == <<kernel, connVars, procVars, need, pc, scanVars, ghost>>

Phase == {"sweep", "files", "lines", "pids", "scan", "fds", "loop",
          "exit", "free", "done"}

TypeOK ==
    /\ sock \in [Inode -> Tuple \cup {NoTuple}]
    /\ held \in [Pid -> SUBSET Inode]
    /\ alive \subseteq Pid
    /\ orphan \subseteq Tuple
    /\ heap \subseteq Conn
    /\ table \in [Kind -> SUBSET Conn]
    /\ tupleOf \in [Conn -> Tuple \cup {NoTuple}]
    /\ refs \in [Conn -> 0..3]
    /\ exitRefs \in [Conn -> 0..1]
    /\ procOf \in [Conn -> Pid \cup {NoPid}]
    /\ htProc \subseteq Pid
    /\ active \subseteq Pid
    /\ conns \in [Pid -> SUBSET Conn]
    /\ list \subseteq Pid
    /\ need \in BOOLEAN
    /\ pc \in Phase
    /\ todo \in [Kind -> SUBSET Conn]
    /\ file \subseteq {"tcp", "udp"}
    /\ lines \subseteq (Conn \X Tuple)
    /\ pids \subseteq Pid
    /\ cur \in Pid \cup {NoPid} /\ (pc = "fds" => cur \in Pid)
    /\ fds \subseteq Inode
    /\ fresh \in BOOLEAN
    /\ listed \subseteq Conn

----------------------------------------------------------------------------
(* The kernel.  Processes start, exit, open, inherit and close sockets.    *)

Open(i)    == sock[i] # NoTuple
Holders(i) == {p \in Pid : i \in held[p]}
InUse      == {sock[i] : i \in Inode} \cup orphan

\* Sockets nobody holds once `holding' describes the descriptors.  The
\* kernel keeps a closed TCP socket for a while and lists it with inode 0;
\* a UDP socket is gone at once.
Released(holding) == {i \in Inode : Open(i) /\ \A p \in Pid : i \notin holding[p]}

Drop(holding) ==
    /\ held' = holding
    /\ sock' = [i \in Inode |-> IF i \in Released(holding) THEN NoTuple ELSE sock[i]]
    /\ orphan' = orphan \cup ({sock[i] : i \in Released(holding)} \cap TcpTuple)

\* The kernel's steps are observed at its reads only, so they are placed
\* before each read and in the main loop.
KernelMay == \/ pc = "loop"
             \/ EnvDuringUpdate /\ pc \in {"files", "pids", "scan", "fds"}

Spawn(p) ==
    /\ p \notin alive
    /\ alive' = alive \cup {p}
    /\ UNCHANGED <<sock, held, orphan>>

Exit(p) ==
    /\ p \in alive
    /\ alive' = alive \ {p}
    /\ Drop([held EXCEPT ![p] = {}])

\* Inode numbers are recycled: any unused one may come back.
OpenSocket(p, i, t) ==
    /\ p \in alive /\ ~Open(i) /\ t \notin InUse
    /\ sock' = [sock EXCEPT ![i] = t]
    /\ held' = [held EXCEPT ![p] = @ \cup {i}]
    /\ UNCHANGED <<alive, orphan>>

\* connect(2) on a UDP socket, which may be repeated.
ConnectUdp(i, t) ==
    /\ Open(i) /\ sock[i] \notin TcpTuple
    /\ t \notin InUse \cup TcpTuple
    /\ sock' = [sock EXCEPT ![i] = t]
    /\ UNCHANGED <<held, alive, orphan>>

CloseSocket(p, i) ==
    /\ i \in held[p]
    /\ Drop([held EXCEPT ![p] = @ \ {i}])
    /\ UNCHANGED alive

\* fork(2), or a descriptor passed over a UNIX socket.
Inherit(p, q, i) ==
    /\ i \in held[p] /\ q \in alive /\ i \notin held[q]
    /\ held' = [held EXCEPT ![q] = @ \cup {i}]
    /\ UNCHANGED <<sock, alive, orphan>>

\* The closing handshake ends: TIME_WAIT, which connection_update_ skips.
OrphanGone(t) ==
    /\ t \in orphan
    /\ orphan' = orphan \ {t}
    /\ UNCHANGED <<sock, held, alive>>

Kernel ==
    /\ KernelMay
    /\ \/ \E p \in Pid : Spawn(p)
       \/ \E p \in Pid : Exit(p)
       \/ \E p \in Pid, i \in Inode, t \in Tuple : OpenSocket(p, i, t)
       \/ \E i \in Inode, t \in Tuple : ConnectUdp(i, t)
       \/ \E p \in Pid, i \in Inode : CloseSocket(p, i)
       \/ \E p, q \in Pid, i \in Inode : Inherit(p, q, i)
       \/ \E t \in Tuple : OrphanGone(t)
    /\ fresh' = FALSE
    /\ UNCHANGED <<connVars, procVars, need, pc, scanVars, listed>>

----------------------------------------------------------------------------
(* connection_update(): first age every entry, then read the files.        *)

\* remove_inactives_conns() on one entry.  refs_active is decremented once
\* per ENTRY, so twice per sweep: 3 -> 1 keeps both entries, 1 removes the
\* entry visited first and 0 the second, which also frees the connection.
Keep(k, c) ==
    /\ refs[c] > 1
    /\ refs' = [refs EXCEPT ![c] = @ - 1]
    /\ UNCHANGED <<heap, table, tupleOf, procOf>>

Unlink_Frees(k, c) ==               \* faulty: frees with the first entry
    /\ refs[c] = 1
    /\ refs' = [refs EXCEPT ![c] = 0]
    /\ table' = [table EXCEPT ![k] = @ \ {c}]
    /\ heap' = heap \ {c}
    /\ UNCHANGED <<tupleOf, procOf>>

Unlink(k, c) ==
    /\ refs[c] = 1
    /\ refs' = [refs EXCEPT ![c] = 0]
    /\ table' = [table EXCEPT ![k] = @ \ {c}]
    /\ UNCHANGED <<heap, tupleOf, procOf>>

UnlinkAndFree(k, c) ==
    /\ refs[c] = 0
    /\ heap' = heap \ {c}
    /\ table' = [table EXCEPT ![k] = @ \ {c}]
    /\ tupleOf' = [tupleOf EXCEPT ![c] = NoTuple]
    /\ procOf' = [procOf EXCEPT ![c] = NoPid]
    /\ UNCHANGED refs

SweepEntry(k, c) ==
    /\ pc = "sweep"
    /\ c \in todo[k]
    /\ Keep(k, c) \/ Unlink(k, c) \/ UnlinkAndFree(k, c)
    /\ todo' = [todo EXCEPT ![k] = @ \ {c}]
    /\ UNCHANGED <<kernel, exitRefs, procVars, need, pc, file, lines, pids, cur, fds, ghost>>

SweepDone ==
    /\ pc = "sweep"
    /\ \A k \in Kind : todo[k] = {}
    /\ pc' = "files"
    /\ file' = Files
    /\ listed' = {}
    /\ UNCHANGED <<kernel, connVars, procVars, need, todo, lines, pids, cur, fds, fresh>>

\* The lines of /proc/net/<f>, those in TIME_WAIT or LISTEN left out: the
\* code skips them.
OfFile(f, t) == (t \in TcpTuple) <=> (f = "tcp")

Lines(f) ==
    {l \in Conn \X Tuple :
        /\ OfFile(f, l[2])
        /\ \/ l[1] \in Inode /\ sock[l[1]] = l[2]
           \/ l[1] = Orphan /\ l[2] \in orphan}

NextFile == IF "tcp" \in file THEN "tcp" ELSE "udp"

OpenFile ==
    /\ pc = "files"
    /\ file # {}
    /\ lines' = Lines(NextFile)
    /\ file' = file \ {NextFile}
    /\ pc' = "lines"
    /\ UNCHANGED <<kernel, connVars, procVars, need, todo, pids, cur, fds, ghost>>

\* One turn of the loop in connection_update_: a known inode is marked and
\* nothing else (its tuple is not compared); an unknown one is created and
\* entered under both keys.
MARK_One(c)  == refs' = [refs EXCEPT ![c] = 1]  \* faulty: no grace
MARK_Two(c)  == refs' = [refs EXCEPT ![c] = 2]  \* faulty: splits the entries
MARK_Four(c) == refs' = [refs EXCEPT ![c] = 4]  \* faulty: odd sweeps
MARK_Five(c) == refs' = [refs EXCEPT ![c] = 5]  \* faulty: outlives its process

MARK_ACTIVE_CON(c) == refs' = [refs EXCEPT ![c] = 3]

ReadLine(l) ==
    /\ pc = "lines"
    /\ l \in lines
    /\ lines' = lines \ {l}
    /\ listed' = listed \cup {l[1]}
    /\ MARK_ACTIVE_CON(l[1])
    /\ IF l[1] \in table["inode"]       \* connection_get_by_inode
       THEN UNCHANGED <<heap, table, tupleOf, procOf>>
       ELSE /\ heap' = heap \cup {l[1]}
            /\ tupleOf' = [tupleOf EXCEPT ![l[1]] = l[2]]
            /\ procOf' = [procOf EXCEPT ![l[1]] = NoPid]
            /\ table' = [k \in Kind |-> table[k] \cup {l[1]}]
    /\ UNCHANGED <<kernel, exitRefs, procVars, need, pc, todo, file, pids, cur, fds, fresh>>

FileDone ==
    /\ pc = "lines"
    /\ lines = {}
    /\ pc' = "files"
    /\ UNCHANGED <<kernel, connVars, procVars, need, scanVars, ghost>>

FilesDone ==
    /\ pc = "files"
    /\ file = {}
    /\ pc' = "pids"
    /\ UNCHANGED <<kernel, connVars, procVars, need, scanVars, ghost>>

\* A file does not open or a line does not parse, /proc does not list: the
\* update returns 0 and main() leaves.
UpdateFails ==
    /\ \/ pc = "files" /\ file # {}
       \/ pc \in {"lines", "pids"}
    /\ pc' = "exit"
    /\ UNCHANGED <<kernel, connVars, procVars, need, scanVars, ghost>>

----------------------------------------------------------------------------
(* processes_update(), once the connections are known.                     *)

\* List /proc; remove_dead_proc() on every process: one the last update did
\* not reactivate is freed, the others have to prove themselves again.
ListPids ==
    /\ pc = "pids"
    /\ pids' = alive
    /\ htProc' = htProc \cap active
    /\ active' = {}
    /\ list' = {}
    /\ conns' = [p \in Pid |-> IF p \in active THEN conns[p] ELSE {}]
    /\ pc' = "scan"
    /\ UNCHANGED <<kernel, connVars, need, todo, file, lines, cur, fds, ghost>>

\* The scan finds a known process: active again, its connections forgotten.
Reactivate_KeepConns(p) ==          \* faulty: no vector_clear ( conections )
    active' = active \cup {p} /\ UNCHANGED conns

Reactivate_StayInactive(p) ==       \* faulty: no active = true
    conns' = [conns EXCEPT ![p] = {}] /\ UNCHANGED active

Reactivate(p) ==
    /\ active' = active \cup {p}
    /\ conns' = [conns EXCEPT ![p] = {}]

ScanPid(p) ==
    /\ pc = "scan"
    /\ p \in pids /\ p \in alive
    /\ pids' = pids \ {p}
    /\ cur' = p
    /\ fds' = held[p]
    /\ IF p \in htProc THEN Reactivate(p) ELSE UNCHANGED <<active, conns>>
    /\ pc' = "fds"
    /\ UNCHANGED <<kernel, connVars, htProc, list, need, todo, file, lines, ghost>>

\* The process has exited since /proc was listed.
SkipPid(p) ==
    /\ pc = "scan"
    /\ p \in pids /\ p \notin alive
    /\ pids' = pids \ {p}
    /\ UNCHANGED <<kernel, connVars, procVars, need, pc, todo, file, lines, cur, fds, ghost>>

\* conn->proc = proc;
SetProc_First(i) ==                 \* faulty: never handed over
    procOf' = [procOf EXCEPT ![i] = IF @ = NoPid THEN cur ELSE @]

SetProc(i) == procOf' = [procOf EXCEPT ![i] = cur]

\* readlink() finds a socket with a known connection: the process, created
\* if need be, gets the connection and the connection the process.
LinkFd(i) ==
    /\ pc = "fds"
    /\ i \in fds
    /\ i \in held[cur] /\ i \in table["inode"]
    /\ fds' = fds \ {i}
    /\ htProc' = htProc \cup {cur}
    /\ active' = active \cup {cur}
    /\ SetProc(i)
    /\ conns' = [conns EXCEPT ![cur] = @ \cup {i}]
    /\ UNCHANGED <<kernel, heap, table, tupleOf, refs, exitRefs, list, need, pc,
                   todo, file, lines, pids, cur, ghost>>

\* The descriptor was closed meanwhile, or its socket is not in the table.
SkipFd(i) ==
    /\ pc = "fds"
    /\ i \in fds
    /\ i \notin held[cur] \/ i \notin table["inode"]
    /\ fds' = fds \ {i}
    /\ UNCHANGED <<kernel, connVars, procVars, need, pc, todo, file, lines, pids, cur, ghost>>

\* create_new_process() cannot read the name of a process that has exited
\* since: the rest of its descriptors is not looked at.
NameGone ==
    /\ pc = "fds"
    /\ cur \notin alive /\ cur \notin htProc
    /\ fds # {}
    /\ fds' = {}
    /\ UNCHANGED <<kernel, connVars, procVars, need, pc, todo, file, lines, pids, cur, ghost>>

\* vector_push ( procs->proc, &proc ), if there is a proc.
PidDone ==
    /\ pc = "fds"
    /\ fds = {}
    /\ list' = list \cup ({cur} \cap htProc)
    /\ cur' = NoPid
    /\ pc' = "scan"
    /\ UNCHANGED <<kernel, connVars, htProc, active, conns, need, todo, file, lines,
                   pids, fds, ghost>>

ScanDone ==
    /\ pc = "scan"
    /\ pids = {}
    /\ need' = FALSE
    /\ pc' = "loop"
    /\ UNCHANGED <<kernel, connVars, procVars, scanVars, ghost>>

----------------------------------------------------------------------------
(* The main loop.                                                          *)

\* connection_get_by_tuple(): when a recycled tuple has two connections, the
\* one found depends on the order of the bucket's chain.
Matching(t) == {c \in table["tuple"] : tupleOf[c] = t}

\* statistics_add(): FALSE from it asks for an update at the next refresh.
\* (What it adds to the process' samples is the subject of rate.c.)
Packet(t) ==
    /\ pc = "loop"
    /\ \/ Matching(t) = {} /\ need' = TRUE
       \/ \E c \in Matching(t) : need' = (need \/ procOf[c] = NoPid)
    /\ UNCHANGED <<kernel, connVars, procVars, pc, scanVars, ghost>>

\* The refresh calls processes_update(), which starts with the sweep.
BeginUpdate ==
    /\ pc = "loop"
    /\ need
    /\ pc' = "sweep"
    /\ todo' = table
    /\ fresh' = TRUE
    /\ UNCHANGED <<kernel, connVars, procVars, need, file, lines, pids, cur, fds, listed>>

\* The user quits, poll() or the log fails, a signal arrives.
Quit ==
    /\ pc = "loop"
    /\ pc' = "exit"
    /\ UNCHANGED <<kernel, connVars, procVars, need, scanVars, ghost>>

----------------------------------------------------------------------------
(* EXIT: processes_free(), then connection_free().                         *)

ProcessesFree ==
    /\ pc = "exit"
    /\ htProc' = {} /\ active' = {} /\ list' = {}
    /\ conns' = [p \in Pid |-> {}]
    /\ pc' = "free"
    /\ todo' = table
    /\ UNCHANGED <<kernel, connVars, need, file, lines, pids, cur, fds, ghost>>

\* conn_free() on one entry: the second one of a connection frees it.
FreeEntry(k, c) ==
    /\ pc = "free"
    /\ c \in todo[k]
    /\ todo' = [todo EXCEPT ![k] = @ \ {c}]
    /\ table' = [table EXCEPT ![k] = @ \ {c}]
    /\ IF exitRefs[c] = 1
       THEN heap' = heap \ {c} /\ UNCHANGED exitRefs
       ELSE exitRefs' = [exitRefs EXCEPT ![c] = @ + 1] /\ UNCHANGED heap
    /\ UNCHANGED <<kernel, tupleOf, refs, procOf, procVars, need, pc, file, lines, pids,
                   cur, fds, ghost>>

FreeDone ==
    /\ pc = "free"
    /\ \A k \in Kind : todo[k] = {}
    /\ pc' = "done"
    /\ UNCHANGED <<kernel, connVars, procVars, need, scanVars, ghost>>

Terminated == pc = "done" /\ UNCHANGED vars

----------------------------------------------------------------------------
\* main() calls processes_update() once before its loop, with empty tables.
Init ==
    /\ sock = [i \in Inode |-> NoTuple]
    /\ held = [p \in Pid |-> {}]
    /\ alive = Pid
    /\ orphan = {}
    /\ heap = {}
    /\ table = [k \in Kind |-> {}]
    /\ tupleOf = [c \in Conn |-> NoTuple]
    /\ refs = [c \in Conn |-> 0]
    /\ exitRefs = [c \in Conn |-> 0]
    /\ procOf = [c \in Conn |-> NoPid]
    /\ htProc = {} /\ active = {} /\ list = {}
    /\ conns = [p \in Pid |-> {}]
    /\ need = FALSE
    /\ pc = "sweep"
    /\ todo = [k \in Kind |-> {}]
    /\ file = {} /\ lines = {} /\ pids = {} /\ fds = {}
    /\ cur = NoPid
    /\ fresh = TRUE
    /\ listed = {}

Sweep == (\E k \in Kind, c \in Conn : SweepEntry(k, c)) \/ SweepDone

ReadFiles == OpenFile \/ (\E l \in lines : ReadLine(l)) \/ FileDone \/ FilesDone

ScanProcesses ==
    \/ ListPids
    \/ \E p \in Pid : ScanPid(p) \/ SkipPid(p)
    \/ \E i \in Inode : LinkFd(i) \/ SkipFd(i)
    \/ NameGone
    \/ PidDone
    \/ ScanDone

CleanUp == ProcessesFree \/ (\E k \in Kind, c \in Conn : FreeEntry(k, c)) \/ FreeDone

Update == Sweep \/ ReadFiles \/ ScanProcesses

Next == \/ Kernel
        \/ Update \/ UpdateFails
        \/ \E t \in Tuple : Packet(t)
        \/ BeginUpdate \/ Quit
        \/ CleanUp \/ Terminated

Spec == Init /\ [][Next]_vars

----------------------------------------------------------------------------
(* Properties.                                                             *)

\* Both traversals of ht_connections (remove_inactives_conns, conn_free)
\* dereference the connection of every entry they visit, and lookups compare
\* keys that lie inside it: no entry may outlive its connection.
EntriesLive == \A k \in Kind : table[k] \subseteq heap

\* A connection that lost its entries is lost for good, and one that kept a
\* single entry would be freed by the wrong visit: outside the two traversals
\* every connection has both entries, and after the cleanup none is left.
EntriesPaired ==
    /\ pc \notin {"sweep", "free", "done"} => \A k \in Kind : table[k] = heap
    /\ pc = "done" => heap = {} /\ htProc = {}

\* What the counters of a connection mean at every point of the traversals,
\* whichever of its entries is met first: the invariant the three properties
\* around it rest on.
SweepCount(c, k) ==
    LET j == Other(k) IN
    /\ c \in todo[k] /\ c \in todo[j] =>
        c \in table[k] /\ refs[c] \in {1, 3} /\ (c \in listed => refs[c] = 3)
    /\ c \in todo[k] /\ c \notin todo[j] =>
        /\ c \in table[k]
        /\ \/ refs[c] = 2 /\ c \in table[j]
           \/ refs[c] = 0 /\ c \notin table[j] /\ c \notin listed
    /\ c \notin todo[k] /\ c \notin todo[j] => c \in table[k] /\ refs[c] = 1

FreeCount(c) ==
    \/ exitRefs[c] = 0 /\ \A k \in Kind : c \in table[k]
    \/ exitRefs[c] = 1 /\ \E k \in Kind : c \in table[k] /\ c \notin table[Other(k)]

EntryAccounting ==
    /\ \A k \in Kind : todo[k] \subseteq table[k]
    /\ pc \in {"files", "lines", "pids", "scan", "fds", "loop", "exit"} =>
        /\ \A k \in Kind : todo[k] = {} /\ table[k] = heap
        /\ listed \subseteq heap
        /\ \A c \in heap : refs[c] = (IF c \in listed THEN 3 ELSE 1)
    /\ pc = "sweep" => \A c \in heap, k \in Kind : SweepCount(c, k)
    /\ pc \in {"free", "done"} => htProc = {}
    /\ pc = "free" =>
        /\ \A k \in Kind : todo[k] = table[k]
        /\ \A c \in heap : FreeCount(c)
    /\ pc = "done" => heap = {}
    /\ pc \notin {"free", "done"} => \A c \in Conn : exitRefs[c] = 0

\* rate_calc, tui_show and log_file walk the listed processes and their
\* connections between two updates: nothing they reach has been freed.
ShownIsLive ==
    pc = "loop" => \A p \in list : p \in htProc /\ conns[p] \subseteq heap

\* A connection is not forgotten by the first update that misses it: the
\* sweep frees only what the update before it did not list, so that late
\* packets and the last samples still find their connection.
GraceKept == [][pc = "sweep" => (heap \ heap') \cap listed = {}]_vars

\* A process keeps its samples as long as every update lists it:
\* remove_dead_proc frees only what the last update left out.
ListedProcKept == [][pc = "pids" => (htProc \ htProc') \cap list = {}]_vars

\* The "process the connection belongs to" (connection.h) is a process that
\* is still allocated whenever statistics_add may follow the pointer.
ProcPointerLive ==
    pc = "loop" => \A c \in heap : procOf[c] \in htProc \cup {NoPid}

\* If nothing moved while it ran, an update maps every open socket of a
\* protocol it reads: the connection is active and points to one of the
\* processes that hold the socket, which is listed and lists it back.
Tracked(i) == Open(i) /\ \E f \in Files : OfFile(f, sock[i])

UpdateMapsSockets ==
    pc = "loop" /\ fresh =>
        \A i \in Inode : Tracked(i) =>
            /\ i \in heap /\ refs[i] = 3
            /\ procOf[i] \in Holders(i)
            /\ \A p \in Holders(i) : p \in list /\ i \in conns[p]

\* And it lists nothing else: whoever is listed is running, and a process
\* shows a connection only if it holds that socket.
UpdateListsHolders ==
    pc = "loop" /\ fresh =>
        /\ list \subseteq alive
        /\ \A p \in list : conns[p] \subseteq held[p]

\* "stores the information exported by the kernel in /proc/net/tcp | udp"
\* (connection.h): what the files listed is what the table stores.
MirrorsKernel ==
    pc = "loop" /\ fresh =>
        \A i \in Inode : Tracked(i) => tupleOf[i] = sock[i]
=============================================================================
