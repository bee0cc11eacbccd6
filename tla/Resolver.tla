------------------------------ MODULE Resolver ------------------------------
(***************************************************************************)
(* resolver/: reverse DNS off the main thread.  domain.c caches the names  *)
(* in a ring of slots reused in order, with a hash table from address to   *)
(* slot; thread_pool.c runs one task per slot to be resolved on detached   *)
(* worker threads, woken through a binary semaphore.                       *)
(*                                                                         *)
(* A step of a thread is what it does between two points where another     *)
(* thread can see or disturb it: ht_hosts and index belong to the main     *)
(* thread, the queue to the holder of mutex_queue, and host->fqdn and      *)
(* host->status are written by a worker without any lock, in that order.   *)
(* bsem_wait and bsem_post are the atomic operations their mutex and       *)
(* condition variable implement.                                           *)
(***************************************************************************)
EXTENDS Integers, Sequences, FiniteSets

CONSTANTS
    Worker,                 \* the threads of the pool
    Main, Nobody,           \* the other holder of mutex_queue, or none
    Addr, NoAddr,           \* addresses asked for; an empty slot's
    cache_size,             \* slots
    DEFAULT_NUM_WORKERS     \* how many exits thpool_free waits for

ASSUME ResolverAssumption ==
    /\ IsFiniteSet(Worker) /\ Main \notin Worker /\ Nobody \notin Worker \cup {Main}
    /\ NoAddr \notin Addr
    /\ cache_size \in Nat \ {0}
    /\ DEFAULT_NUM_WORKERS \in Nat

Slot   == 0..cache_size - 1
NoSlot == -1

VARIABLES
    \* domain.c
    addr, status, fqdn,     \* hosts[s]: sa_all, status, the address fqdn is the name of
    ht,                     \* ht_hosts: the slot of an address
    index,                  \* the slot to be reused next
    answer,                 \* what ip2domain last gave: for which address, what name
    lost,                   \* history: the slots whose task could not be queued
    \* thread_pool.c
    queue, mutex,           \* queue_task and who holds mutex_queue
    jobs, exits,            \* bsem_jobs.value, bsem_exit.value
    worker_stop, workers_alive,
    wpc, task,              \* where each worker stands, the slot it works on
    \* the main thread
    mpc, wait

cache == <<addr, status, fqdn, ht, index, answer, lost>>
pool  == <<queue, mutex, jobs, exits, worker_stop, workers_alive, wpc, task>>
vars  == <<cache, pool, mpc, wait>>

WorkerPc == {"new", "check", "wait", "woken", "lock", "rearm", "unlock", "resolve",
             "publish", "leave", "signal", "gone"}
MainPc   == {"ui", "add", "post", "set", "join", "await", "destroy", "free", "done"}
Status   == {"none", "RESOLVING", "RESOLVED"}

TypeOK ==
    /\ addr \in [Slot -> Addr \cup {NoAddr}]
    /\ status \in [Slot -> Status]
    /\ fqdn \in [Slot -> Addr \cup {NoAddr}]
    /\ ht \in [Addr -> Slot \cup {NoSlot}]
    /\ index \in Slot
    /\ answer \in [of : Addr, got : Addr \cup {NoAddr}]
    /\ lost \subseteq Slot
    /\ queue \in Seq(Slot)
    /\ mutex \in Worker \cup {Main, Nobody}
    /\ jobs \in BOOLEAN /\ exits \in BOOLEAN
    /\ worker_stop \in BOOLEAN
    /\ workers_alive = Cardinality({w \in Worker : wpc[w] \notin {"new", "signal", "gone"}})
    /\ wpc \in [Worker -> WorkerPc]
    /\ task \in [Worker -> Slot \cup {NoSlot}]
    /\ mpc \in MainPc
    /\ wait \in 0..DEFAULT_NUM_WORKERS

----------------------------------------------------------------------------
(* ip2domain(), on the main thread.                                        *)

Text(a)    == [of |-> a, got |-> NoAddr]
Name(a, s) == [of |-> a, got |-> fqdn[s]]

\* Found: a resolved slot gives the name, one still resolving the text.
AskKnown(a) ==
    /\ mpc = "ui"
    /\ ht[a] # NoSlot
    /\ answer' = IF status[ht[a]] = "RESOLVED" THEN Name(a, ht[a]) ELSE Text(a)
    /\ UNCHANGED <<addr, status, fqdn, ht, index, lost, pool, mpc, wait>>

\* Not found, and the slot to be reused is still being resolved, or there is no
\* memory for one that was never used.
AskBlocked(a) ==
    /\ mpc = "ui"
    /\ ht[a] = NoSlot
    /\ status[index] \in {"RESOLVING", "none"}
    /\ answer' = Text(a)
    /\ UNCHANGED <<addr, status, fqdn, ht, index, lost, pool, mpc, wait>>

\* Not found: the slot leaves the table under its old key, which lies in the
\* slot itself, and takes the new address.
Reusable_Always(s) == TRUE          \* faulty: the test on the status is missing
Reusable(s) == status[s] # "RESOLVING"

Evict_Never(s) == ht                \* faulty: hashtable_remove is missing
Evict(s) == [a \in Addr |-> IF addr[s] = a THEN NoSlot ELSE ht[a]]

AskMiss(a) ==
    /\ mpc = "ui"
    /\ ht[a] = NoSlot
    /\ Reusable(index)
    /\ answer' = Text(a)
    /\ ht' = Evict(index)
    /\ addr' = [addr EXCEPT ![index] = a]
    /\ status' = [status EXCEPT ![index] = "RESOLVING"]
    /\ mpc' = "add"
    /\ UNCHANGED <<fqdn, index, lost, pool, wait>>

\* add_task(): enqueue and post under mutex_queue; its result is ignored.
AddTask ==
    /\ mpc = "add"
    /\ mutex = Nobody
    /\ mutex' = Main
    /\ queue' = Append(queue, index)
    /\ mpc' = "post"
    /\ UNCHANGED <<cache, jobs, exits, worker_stop, workers_alive, wpc, task, wait>>

PostJob ==
    /\ mpc = "post"
    /\ jobs' = TRUE
    /\ mutex' = Nobody
    /\ mpc' = "set"
    /\ UNCHANGED <<cache, queue, exits, worker_stop, workers_alive, wpc, task, wait>>

\* Without memory for the task or its place in the queue nobody will resolve the
\* slot, which stays as it is.
AddTaskFails ==
    /\ mpc = "add"
    /\ lost' = lost \cup {index}
    /\ mpc' = "set"
    /\ UNCHANGED <<addr, status, fqdn, ht, index, answer, pool, wait>>

\* The task may be finished before the slot is in the table.
SetHost ==
    /\ mpc = "set"
    /\ ht' = [ht EXCEPT ![addr[index]] = index]
    /\ index' = (index + 1) % cache_size
    /\ mpc' = "ui"
    /\ UNCHANGED <<addr, status, fqdn, answer, lost, pool, wait>>

----------------------------------------------------------------------------
(* th_worker().                                                            *)

Step(w, from, to) == wpc[w] = from /\ wpc' = [wpc EXCEPT ![w] = to]

Begin(w) ==
    /\ Step(w, "new", "check")
    /\ workers_alive' = workers_alive + 1
    /\ UNCHANGED <<cache, queue, mutex, jobs, exits, worker_stop, task, mpc, wait>>

Check(w) ==
    /\ Step(w, "check", IF worker_stop THEN "leave" ELSE "wait")
    /\ UNCHANGED <<cache, queue, mutex, jobs, exits, worker_stop, workers_alive, task, mpc, wait>>

WaitJob(w) ==
    /\ Step(w, "wait", "woken")
    /\ jobs
    /\ jobs' = FALSE
    /\ UNCHANGED <<cache, queue, mutex, exits, worker_stop, workers_alive, task, mpc, wait>>

Woken(w) ==
    /\ Step(w, "woken", IF worker_stop THEN "leave" ELSE "lock")
    /\ UNCHANGED <<cache, queue, mutex, jobs, exits, worker_stop, workers_alive, task, mpc, wait>>

\* Under mutex_queue: take a task, and post again if some are left, for the
\* posts that found the semaphore already up.
Dequeue(w) ==
    /\ wpc[w] = "lock"
    /\ mutex = Nobody
    /\ mutex' = w
    /\ IF queue = <<>>
       THEN Step(w, "lock", "unlock") /\ UNCHANGED <<queue, task>>
       ELSE /\ task' = [task EXCEPT ![w] = Head(queue)]
            /\ queue' = Tail(queue)
            /\ Step(w, "lock", IF Tail(queue) = <<>> THEN "unlock" ELSE "rearm")
    /\ UNCHANGED <<cache, jobs, exits, worker_stop, workers_alive, mpc, wait>>

Rearm_Missing(w) ==                 \* faulty: the other threads are not woken
    /\ Step(w, "rearm", "unlock")
    /\ UNCHANGED <<cache, queue, mutex, jobs, exits, worker_stop, workers_alive, task, mpc, wait>>

Rearm(w) ==
    /\ Step(w, "rearm", "unlock")
    /\ jobs' = TRUE
    /\ UNCHANGED <<cache, queue, mutex, exits, worker_stop, workers_alive, task, mpc, wait>>

Unlock(w) ==
    /\ Step(w, "unlock", IF task[w] = NoSlot THEN "check" ELSE "resolve")
    /\ mutex' = Nobody
    /\ UNCHANGED <<cache, queue, jobs, exits, worker_stop, workers_alive, task, mpc, wait>>

\* ip2domain_exec(): getnameinfo, or else sockaddr_ntop, writes the name, then
\* the status tells.
Resolve_NoFallback(w) ==            \* faulty: getnameinfo fails and the text is not put in
    /\ Step(w, "resolve", "publish")
    /\ UNCHANGED <<cache, queue, mutex, jobs, exits, worker_stop, workers_alive, task, mpc, wait>>

Resolve(w) ==
    /\ Step(w, "resolve", "publish")
    /\ fqdn' = [fqdn EXCEPT ![task[w]] = addr[task[w]]]
    /\ UNCHANGED <<addr, status, ht, index, answer, lost, queue, mutex, jobs, exits, worker_stop,
                   workers_alive, task, mpc, wait>>

Publish(w) ==
    /\ Step(w, "publish", "check")
    /\ status' = [status EXCEPT ![task[w]] = "RESOLVED"]
    /\ task' = [task EXCEPT ![w] = NoSlot]
    /\ UNCHANGED <<addr, fqdn, ht, index, answer, lost, queue, mutex, jobs, exits, worker_stop,
                   workers_alive, mpc, wait>>

Leave_Uncounted(w) ==               \* faulty: the counter is not decremented
    /\ Step(w, "leave", "signal")
    /\ UNCHANGED <<cache, queue, mutex, jobs, exits, worker_stop, workers_alive, task, mpc, wait>>

Leave(w) ==
    /\ Step(w, "leave", "signal")
    /\ workers_alive' = workers_alive - 1
    /\ UNCHANGED <<cache, queue, mutex, jobs, exits, worker_stop, task, mpc, wait>>

\* "make up main thread to exit"
SignalExit(w) ==
    /\ Step(w, "signal", "gone")
    /\ exits' = TRUE
    /\ UNCHANGED <<cache, queue, mutex, jobs, worker_stop, workers_alive, task, mpc, wait>>

----------------------------------------------------------------------------
(* resolver_free(): thpool_free(), then cache_domain_free().               *)

ThpoolFree ==
    /\ mpc = "ui"
    /\ worker_stop' = TRUE
    /\ wait' = DEFAULT_NUM_WORKERS
    /\ mpc' = "join"
    /\ UNCHANGED <<cache, queue, mutex, jobs, exits, workers_alive, wpc, task>>

\* while ( workers_alive && wait-- ) wake somebody and wait for an exit.
Join_AnyAlive ==                    \* faulty: one exit is taken for all
    mpc = "join" /\ workers_alive > 0 /\ wait = DEFAULT_NUM_WORKERS

Join == mpc = "join" /\ workers_alive > 0 /\ wait > 0

PostAll_Missing == UNCHANGED jobs   \* faulty: sleepers are not woken
PostAll == jobs' = TRUE

JoinOne ==
    /\ Join
    /\ wait' = wait - 1
    /\ PostAll
    /\ mpc' = "await"
    /\ UNCHANGED <<cache, queue, mutex, exits, worker_stop, workers_alive, wpc, task>>

AwaitExit ==
    /\ mpc = "await"
    /\ exits
    /\ exits' = FALSE
    /\ mpc' = "join"
    /\ UNCHANGED <<cache, queue, mutex, jobs, worker_stop, workers_alive, wpc, task, wait>>

JoinDone ==
    /\ mpc = "join"
    /\ ~Join
    /\ mpc' = "destroy"
    /\ UNCHANGED <<cache, pool, wait>>

\* queue_destroy() under the mutex, which frees the tasks and the queue.
DestroyQueue ==
    /\ mpc = "destroy"
    /\ mutex = Nobody
    /\ queue' = <<>>
    /\ mpc' = "free"
    /\ UNCHANGED <<cache, mutex, jobs, exits, worker_stop, workers_alive, wpc, task, wait>>

FreeHosts ==
    /\ mpc = "free"
    /\ mpc' = "done"
    /\ UNCHANGED <<cache, pool, wait>>

Terminated == mpc = "done" /\ UNCHANGED vars

----------------------------------------------------------------------------
Init ==
    /\ addr = [s \in Slot |-> NoAddr]
    /\ status = [s \in Slot |-> "none"]
    /\ fqdn = [s \in Slot |-> NoAddr]
    /\ ht = [a \in Addr |-> NoSlot]
    /\ index = 0
    /\ answer \in {Text(a) : a \in Addr}
    /\ lost = {}
    /\ queue = <<>>
    /\ mutex = Nobody
    /\ jobs = FALSE /\ exits = FALSE
    /\ worker_stop = FALSE
    /\ workers_alive = 0
    /\ wpc = [w \in Worker |-> "new"]
    /\ task = [w \in Worker |-> NoSlot]
    /\ mpc = "ui"
    /\ wait = 0

Ask(a) == AskKnown(a) \/ AskBlocked(a) \/ AskMiss(a)

MainStep == AddTask \/ AddTaskFails \/ PostJob \/ SetHost \/ JoinOne \/ AwaitExit \/ JoinDone
            \/ DestroyQueue \/ FreeHosts

WorkerStep(w) == Begin(w) \/ Check(w) \/ WaitJob(w) \/ Woken(w) \/ Dequeue(w) \/ Rearm(w)
                 \/ Unlock(w) \/ Resolve(w) \/ Publish(w) \/ Leave(w) \/ SignalExit(w)

Next == \/ \E a \in Addr : Ask(a)
        \/ ThpoolFree
        \/ MainStep
        \/ \E w \in Worker : WorkerStep(w)
        \/ Terminated

Spec == Init /\ [][Next]_vars

\* The scheduler runs every thread; getnameinfo returns.
FairSpec == Spec /\ WF_vars(MainStep) /\ \A w \in Worker : WF_vars(WorkerStep(w))

----------------------------------------------------------------------------
\* No task is stranded although the semaphore counts only to one: while tasks
\* are queued, it is up, or a thread that was woken has still to look.
NoLostTask ==
    queue # <<>> /\ ~worker_stop =>
        \/ jobs
        \/ mpc = "post"
        \/ \E w \in Worker : wpc[w] \in {"woken", "lock", "rearm"}

\* A slot is handed to one task at a time and reused only after that: whoever
\* writes its name or its address is alone with it.  A slot whose task could
\* not be queued has no owner, and is never reused nor resolved after that.
Owners(s) ==
    Cardinality({i \in 1..Len(queue) : queue[i] = s})
    + Cardinality({w \in Worker : task[w] = s})
    + (IF mpc = "add" /\ index = s THEN 1 ELSE 0)

OneOwner ==
    /\ TypeOK
    /\ mpc \notin {"free", "done"} =>
        \A s \in Slot : Owners(s) = (IF status[s] = "RESOLVING" /\ s \notin lost THEN 1 ELSE 0)
    /\ \A s \in lost : status[s] = "RESOLVING"

\* The table and the slots agree: an address leads to the slot that holds it,
\* every slot in use is led to, and a slot said to be resolved has the name of
\* its own address.
Pending(s) == s = index /\ mpc \in {"add", "post", "set"}

CacheConsistent ==
    /\ \A a \in Addr : ht[a] # NoSlot => addr[ht[a]] = a
    /\ \A s \in Slot : status[s] # "none" /\ ~Pending(s) => ht[addr[s]] = s
    /\ \A s \in Slot : status[s] = "RESOLVED" => fqdn[s] = addr[s]

\* The clean-up waits for DEFAULT_NUM_WORKERS exits only, and exits may merge.
\* Still it frees the queue and the hosts under no worker's feet unless there
\* are more workers than that, and then under those too many at most.
Using == {w \in Worker : \/ mpc \in {"free", "done"} /\ wpc[w] \in {"lock", "rearm", "unlock"}
                         \/ mpc = "done" /\ wpc[w] \in {"resolve", "publish"}}

FreedInPeace ==
    Using = {} \/ Cardinality(Using) + DEFAULT_NUM_WORKERS <= Cardinality(Worker)

\* Every resolution that was started comes to an end, unless the user leaves or
\* there was no memory to start it.
Resolves ==
    \A s \in Slot :
        status[s] = "RESOLVING" ~> status[s] = "RESOLVED" \/ worker_stop \/ s \in lost

\* Leaving never hangs on a sleeping or a finished worker.
ShutdownEnds == worker_stop ~> mpc = "done"

\* The resolver implements what domain.h promises.
KnownAs(a) ==
    IF \E s \in Slot : addr[s] = a
    THEN IF status[CHOOSE s \in Slot : addr[s] = a] = "RESOLVED" THEN "resolved" ELSE "resolving"
    ELSE "absent"

Promise == INSTANCE NameCache WITH
    Capacity <- cache_size,
    known <- [a \in Addr |-> KnownAs(a)],
    answer <- [of |-> answer.of,
               form |-> IF answer.got = NoAddr THEN "text"
                        ELSE IF answer.got = answer.of THEN "name" ELSE "wrong"]

KeepsPromise == Promise!Spec
=============================================================================
